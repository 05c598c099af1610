---------------------------- MODULE PanelUpdateProofs -----------------------
(***************************************************************************)
(* A rollback is not migrated forward again, and no second script starts   *)
(* while the api guards the first, for any number of releases, snapshots   *)
(* and scripts.  As long as no two scripts were ever at work at once, the  *)
(* api is stopped while one of them has the panel half replaced, so that   *)
(* nothing boots over what is in between.  What the panel reports of its   *)
(* last update is then true of the binary that runs: the second part of    *)
(* the module, from Denied on, is the invariant of that.  The third says   *)
(* who starts a panel that is stopped, also when scripts overlap.          *)
(***************************************************************************)
EXTENDS PanelUpdate, FiniteSetTheorems, WellFoundedInduction, TLAPS

\* No two scripts overlap, and the api is stopped while one is at the binaries or
\* the database.
Midway == {"stopped", "swapped", "undo", "committed", "recorded", "reverted"}
Alone ==
  lone => /\ \A j, k \in Unfinished : j = k
          /\ \A j \in Job : jobs[j].at \in Midway => svc = "stopped"

\* start_panel_update runs in an api that is up; the reservation is its own.
Calls ==
  /\ call.at # "none" => svc = "up" /\ inFlight /\ watched = None
  /\ watched # None => inFlight
  /\ lone => \A j \in Unfinished : jobs[j].mine => inFlight /\ call.at = "none"

\* A tarball has an api and a database in it, and who works on one has it.
Made ==
  \A s \in Snapshots : files[s] = NoFile \/ {files[s].bin, files[s].db} \subseteq Versions
Meant ==
  \A j \in Job : jobs[j].at # "done" =>
    \/ jobs[j].kind = "update" /\ jobs[j].target # None
    \/ jobs[j].kind = "restore" /\ jobs[j].snap # None
Asked ==
  /\ call.at # "none" => call.target # None
  /\ call.at \in {"insert", "spawn"} => call.snap # None

\* The tarball of a restore is there until the database has been rebuilt and the
\* api reverted: the api that could delete it is down.
Kept ==
  \A j \in Job :
    jobs[j].kind = "restore" /\ jobs[j].at \in {"stopped", "committed", "recorded"} =>
      files[jobs[j].snap] # NoFile /\ (svc # "up" \/ ~lone) /\ call.at = "none"
Tarballs == Made /\ Meant /\ Asked /\ Kept

\* A restore between its two halves has the api stopped, and stays so when it is
\* cut off there.
HalfWay ==
  lone /\ half => /\ svc = "stopped"
                  /\ \A j \in Job : jobs[j].at \in {"done", "committed", "recorded"}
Restores ==
  lone => \A j \in Job : jobs[j].at \in {"committed", "recorded"} =>
            half /\ jobs[j].kind = "restore" /\ db = files[jobs[j].snap].db

\* What is installed, and what a snapshot has of it, is no newer than the database
\* beside it wherever an api may boot over a restored one.
Fits ==
  lone => /\ svc = "up" => binary <= db
          /\ \A s \in Snapshots : files[s].bin <= files[s].db
          /\ ~torn /\ ~half /\ restored # None => binary <= db

\* An update forgets the rollback before it when it swaps the binaries.
Forgets ==
  lone => \A j \in Job :
            jobs[j].kind = "update" /\ jobs[j].at \in {"swapped", "health", "undo"} =>
              restored = None

\* TypeOK in parts, for the provers.
SvcOK ==
  /\ svc \in {"up", "starting", "stopped"} /\ running \in Versions \cup {None}
  /\ running # None <=> svc = "up"
DiskOK == bak \in Versions \cup {None} /\ binary \in Versions /\ db \in Versions
ProcessOK ==
  /\ inFlight \in BOOLEAN /\ verdict \in {"none", "true", "false"}
  /\ call \in [at : {"none", "count", "dump", "insert", "spawn"},
               target : Versions \cup {None}, snap : Snapshots \cup {None}]
  /\ watched \in Snapshots \cup {None}
RowsOK == rows \in RowsType /\ unsure \subseteq Snapshots
TakenOK == taken \in 0 .. MaxSnapshots /\ aged \subseteq 1 .. taken
FileType == [bin : Versions \cup {None}, db : Versions \cup {None},
             from : Versions \cup {None}, target : Versions \cup {None}, rows : RowsType]
FilesOK == files \in [Snapshots -> FileType]
JobType == [kind : {"none", "update", "restore"},
            at : {"done", "prepare", "stopped", "swapped", "health", "undo",
                  "verify", "committed", "recorded", "reverted"},
            target : Versions \cup {None}, snap : Snapshots \cup {None}, mine : BOOLEAN]
JobsOK == jobs \in [Job -> JobType]
GhostsOK ==
  /\ faults \in 0 .. MaxFaults /\ restored \in Versions \cup {None}
  /\ half \in BOOLEAN /\ lone \in BOOLEAN /\ torn \in BOOLEAN

Typed == SvcOK /\ DiskOK /\ ProcessOK /\ RowsOK /\ TakenOK /\ FilesOK /\ JobsOK /\ GhostsOK

IInv ==
  /\ Typed /\ Tarballs
  /\ Alone /\ Calls
  /\ HalfWay /\ Restores /\ Fits /\ Forgets /\ RollbackHolds

-----------------------------------------------------------------------------
(* What the records are made of.                                            *)

LEMMA OrphansTyped ==
  ASSUME NEW js \in [Job -> JobType]
  PROVE  Orphans(js) \in [Job -> JobType]
  BY DEF Orphans, JobType

LEMMA NoneTyped == NoRow \in RowType /\ NoJob \in JobType /\ NoFile \in FileType
<1>1. NoRow \in RowType
  BY PanelUpdateAssumption DEF NoRow, RowType, None, Abandoned
<1>2. NoJob \in JobType
  BY DEF NoJob, JobType, None
<1>3. [s \in Snapshots |-> NoRow] \in RowsType
  BY <1>1 DEF RowsType
<1>4. NoFile \in FileType
  BY <1>3 DEF NoFile, FileType, None
<1> QED
  BY <1>1, <1>2, <1>4

LEMMA EndTyped ==
  ASSUME NEW state, EndProcess(state)
  PROVE  ProcessOK'
<1>1. call' \in [at : {"none", "count", "dump", "insert", "spawn"},
                 target : Versions \cup {None}, snap : Snapshots \cup {None}]
  BY DEF EndProcess, NoCall, None
<1> QED
  BY <1>1 DEF EndProcess, ProcessOK, None

LEMMA StopTyped ==
  ASSUME NEW j \in Job, NEW kind, NEW from, NEW to, StopApiOf(j, kind, from, to), JobsOK,
         to \in {"stopped", "undo"}
  PROVE  ProcessOK' /\ JobsOK'
<1>1. ProcessOK'
  BY EndTyped DEF StopApiOf
<1>2. [jobs EXCEPT ![j].at = to] \in [Job -> JobType]
  BY DEF JobsOK, JobType
<1>3. JobsOK'
  BY <1>2, OrphansTyped DEF StopApiOf, JobsOK
<1> QED
  BY <1>1, <1>3

\* The outcome of an update that nobody has an outcome of.
LEMMA RowChanged ==
  ASSUME RowsOK, NEW s \in Snapshots, NEW v \in 0 .. Abandoned
  PROVE  [rows EXCEPT ![s].to = v] \in RowsType
<1>1. rows[s] \in RowType
  BY DEF RowsOK, RowsType
<1>2. [rows[s] EXCEPT !.to = v] \in RowType
  BY <1>1 DEF RowType
<1> QED
  BY <1>2 DEF RowsOK, RowsType

LEMMA VersionIsOutcome == Versions \cup {None} \subseteq 0 .. Abandoned
  BY PanelUpdateAssumption DEF Versions, None, Abandoned

LEMMA StampTyped ==
  ASSUME RowsOK, SvcOK, watched \in Snapshots, StampFailed
  PROVE  RowsOK'
<1>1. running \in 0 .. Abandoned
  BY VersionIsOutcome DEF SvcOK
<1>2. [rows EXCEPT ![watched].to = running] \in RowsType
  BY <1>1, RowChanged
<1>3. rows' \in RowsType
  BY <1>2 DEF StampFailed, RowsOK
<1>4. unsure' \subseteq Snapshots
  BY DEF StampFailed, RowsOK
<1> QED
  BY <1>3, <1>4 DEF RowsOK

-----------------------------------------------------------------------------
(* Types: each part, with the actions that write it.                       *)

LEMMA SvcTyped ==
  ASSUME Typed, [Next]_vars
  PROVE  SvcOK'
<1> USE PanelUpdateAssumption DEF Typed, SvcOK, DiskOK, None, Versions, process, panel,
        disk, history, restore, ghosts
<1>1. CASE Boot
  BY <1>1 DEF Boot
<1>2. CASE Crash
  BY <1>2 DEF Crash, EndProcess, Orphans, NoCall, Serves
<1>3. CASE PowerLoss
  BY <1>3 DEF PowerLoss, EndProcess, NoCall, NoJob
<1>4. CASE \E j \in Job : StopForSwap(j)
  BY <1>4 DEF StopForSwap, StopApiOf, EndProcess, Orphans, NoCall
<1>5. CASE \E j \in Job : StopForRestore(j)
  BY <1>5 DEF StopForRestore, StopApiOf, EndProcess, Orphans, NoCall
<1>6. CASE \E j \in Job : HealthFails(j)
  BY <1>6 DEF HealthFails, StopApiOf, EndProcess, Orphans, NoCall
<1>7. CASE \E j \in Job : SwapFails(j)
  BY <1>7 DEF SwapFails, Update, Step, NoJob, Verdict, StartApi
<1>8. CASE \E j \in Job : StartNew(j)
  BY <1>8 DEF StartNew, Update, Step, NoJob, StartApi
<1>9. CASE \E j \in Job : PutBack(j)
  BY <1>9 DEF PutBack, Update, Step, NoJob, Verdict, StartApi
<1>10. CASE \E j \in Job : RestoreFails(j)
  BY <1>10 DEF RestoreFails, Restore, Step, NoJob, OnExit, StartApi,
      RollbackWouldBeUndone
<1>11. CASE \E j \in Job : StartRestored(j)
  BY <1>11 DEF StartRestored, Restore, Step, NoJob, StartApi
<1>12. CASE \/ CountPending \/ TakeDump \/ InsertRow \/ SnapshotFails \/ Spawn
            \/ ManualSnapshot \/ (\E v \in Versions : Reserve(v))
            \/ (\E s \in Snapshots : Age(s)) \/ (\E s \in Snapshots : DeleteSnapshot(s))
            \/ (\E s \in Snapshots : Rollback(s)) \/ WatchVerdict \/ WatchTimesOut
            \/ (\E j \in Job : HandoffFails(j)) \/ (\E j \in Job : PrepareFails(j))
            \/ (\E j \in Job : Swap(j)) \/ (\E j \in Job : HealthOk(j))
            \/ (\E j \in Job : VerifyFails(j)) \/ (\E j \in Job : DbCommit(j))
            \/ (\E j \in Job : RecordRollback(j)) \/ (\E j \in Job : RevertApi(j))
            \/ (\E j \in Job : SkipApi(j)) \/ (\E j \in Job : RestoreEnds(j))
            \/ UNCHANGED vars
  BY <1>12 DEF CountPending, Release, Hold, NoCall, TakeDump, Snapshot, InsertRow,
      SnapshotFails, NoFile, Spawn, Launch, ManualSnapshot, Serves, Reserve, Age,
      DeleteSnapshot, NoRow, Rollback, WatchVerdict, WatchEnds, StampFailed,
      Orphans, WatchTimesOut, HandoffFails, NoJob, PrepareFails, Update, Step,
      Verdict, Swap, HealthOk, VerifyFails, Restore, DbCommit, RecordRollback,
      RevertApi, SkipApi, RestoreEnds, vars
<1> QED
  BY <1>1, <1>2, <1>3, <1>4, <1>5, <1>6, <1>7, <1>8, <1>9, <1>10, <1>11, <1>12 DEF
     Next, Call, Watch, Script, UpdateScript, RestoreScript

LEMMA DiskTyped ==
  ASSUME Typed, Tarballs, [Next]_vars
  PROVE  DiskOK'
<1> USE PanelUpdateAssumption DEF Typed, DiskOK, JobsOK, JobType, FilesOK, FileType,
        None, Versions, process, panel, disk, history, restore, ghosts
<1>1. CASE Boot
  BY <1>1 DEF Boot, Larger
<1>2. CASE \E j \in Job : StopForSwap(j)
  BY <1>2 DEF StopForSwap, StopApiOf, EndProcess, Orphans, NoCall
<1>3. CASE \E j \in Job : Swap(j)
  BY <1>3 DEF Swap, Update, Step, NoJob, Tarballs, Meant
<1>4. CASE \E j \in Job : HealthOk(j)
  BY <1>4 DEF HealthOk, Update, Step, NoJob, Verdict
<1>5. CASE \E j \in Job : PutBack(j)
  BY <1>5 DEF PutBack, Update, Step, NoJob, Verdict, StartApi
<1>6. CASE \E j \in Job : DbCommit(j)
  BY <1>6 DEF DbCommit, Restore, Step, NoJob, Tarballs, Made, Meant, Kept
<1>7. CASE \E j \in Job : RevertApi(j)
  BY <1>7 DEF RevertApi, Restore, Step, NoJob, Tarballs, Made, Meant, Kept
<1>8. CASE \/ Crash \/ PowerLoss \/ CountPending \/ TakeDump \/ InsertRow
           \/ SnapshotFails \/ Spawn \/ ManualSnapshot
           \/ (\E v \in Versions : Reserve(v)) \/ (\E s \in Snapshots : Age(s))
           \/ (\E s \in Snapshots : DeleteSnapshot(s))
           \/ (\E s \in Snapshots : Rollback(s)) \/ WatchVerdict \/ WatchTimesOut
           \/ (\E j \in Job : HandoffFails(j)) \/ (\E j \in Job : PrepareFails(j))
           \/ (\E j \in Job : SwapFails(j)) \/ (\E j \in Job : StartNew(j))
           \/ (\E j \in Job : HealthFails(j)) \/ (\E j \in Job : VerifyFails(j))
           \/ (\E j \in Job : StopForRestore(j)) \/ (\E j \in Job : RestoreFails(j))
           \/ (\E j \in Job : RecordRollback(j)) \/ (\E j \in Job : SkipApi(j))
           \/ (\E j \in Job : StartRestored(j)) \/ (\E j \in Job : RestoreEnds(j))
           \/ UNCHANGED vars
  BY <1>8 DEF Crash, EndProcess, Orphans, NoCall, Serves, PowerLoss, NoJob,
      CountPending, Release, Hold, TakeDump, Snapshot, InsertRow, SnapshotFails,
      NoFile, Spawn, Launch, ManualSnapshot, Reserve, Age, DeleteSnapshot, NoRow,
      Rollback, WatchVerdict, WatchEnds, StampFailed, WatchTimesOut, HandoffFails,
      PrepareFails, Update, Step, Verdict, SwapFails, StartApi, StartNew,
      HealthFails, StopApiOf, VerifyFails, Restore, StopForRestore, RestoreFails,
      OnExit, RollbackWouldBeUndone, RecordRollback, SkipApi, StartRestored,
      RestoreEnds, vars
<1> QED
  BY <1>1, <1>2, <1>3, <1>4, <1>5, <1>6, <1>7, <1>8 DEF Next, Call, Watch, Script,
     UpdateScript, RestoreScript

LEMMA ProcessTyped ==
  ASSUME Typed, [Next]_vars
  PROVE  ProcessOK'
<1> USE PanelUpdateAssumption DEF Typed, ProcessOK, TakenOK, SvcOK, Snapshots, None,
        Versions, process, panel, disk, history, restore, ghosts
<1>1. CASE Crash
  BY <1>1 DEF Crash, EndProcess, Orphans, NoCall, Serves
<1>2. CASE PowerLoss
  BY <1>2 DEF PowerLoss, EndProcess, NoCall, NoJob
<1>3. CASE CountPending
  <2>1. CASE Release /\ UNCHANGED watched
    BY <2>1 DEF Release, NoCall
  <2>2. CASE call' = [call EXCEPT !.at = "dump"] /\ Hold /\ UNCHANGED watched
    BY <2>2 DEF Hold
  <2>3. CASE call' = NoCall /\ Hold /\ UNCHANGED watched
    BY <2>3 DEF Hold, NoCall
  <2> QED
    BY <1>3, <2>1, <2>2, <2>3 DEF CountPending
<1>4. CASE TakeDump
  BY <1>4 DEF TakeDump, Snapshot
<1>5. CASE InsertRow
  BY <1>5 DEF InsertRow
<1>6. CASE SnapshotFails
  BY <1>6 DEF SnapshotFails, Release, NoCall, NoFile
<1>7. CASE Spawn
  BY <1>7 DEF Spawn, Launch, NoCall
<1>8. CASE \E v \in Versions : Reserve(v)
  BY <1>8 DEF Reserve, Serves
<1>9. CASE \E s \in Snapshots : Rollback(s)
  BY <1>9 DEF Rollback, Launch, Serves
<1>10. CASE WatchVerdict
  BY <1>10 DEF WatchVerdict, WatchEnds, StampFailed, Orphans
<1>11. CASE WatchTimesOut
  BY <1>11 DEF WatchTimesOut, WatchEnds, StampFailed, Orphans
<1>12. CASE \E j \in Job : HandoffFails(j)
  BY <1>12 DEF HandoffFails, WatchEnds, StampFailed, NoJob
<1>13. CASE \E j \in Job : PrepareFails(j)
  BY <1>13 DEF PrepareFails, Update, Step, NoJob, Verdict
<1>14. CASE \E j \in Job : StopForSwap(j)
  <2>1. PICK j \in Job : StopForSwap(j)
    BY <1>14
  <2> QED
    BY <2>1, StopTyped DEF StopForSwap
<1>15. CASE \E j \in Job : SwapFails(j)
  BY <1>15 DEF SwapFails, Update, Step, NoJob, Verdict, StartApi
<1>16. CASE \E j \in Job : HealthOk(j)
  BY <1>16 DEF HealthOk, Update, Step, NoJob, Verdict
<1>17. CASE \E j \in Job : HealthFails(j)
  <2>1. PICK j \in Job : HealthFails(j)
    BY <1>17
  <2> QED
    BY <2>1, StopTyped DEF HealthFails
<1>18. CASE \E j \in Job : PutBack(j)
  BY <1>18 DEF PutBack, Update, Step, NoJob, Verdict, StartApi
<1>19. CASE \E j \in Job : StopForRestore(j)
  <2>1. PICK j \in Job : StopForRestore(j)
    BY <1>19
  <2> QED
    BY <2>1, StopTyped DEF StopForRestore
<1>20. CASE \/ Boot \/ ManualSnapshot \/ (\E s \in Snapshots : Age(s))
            \/ (\E s \in Snapshots : DeleteSnapshot(s)) \/ (\E j \in Job : Swap(j))
            \/ (\E j \in Job : StartNew(j)) \/ (\E j \in Job : VerifyFails(j))
            \/ (\E j \in Job : RestoreFails(j)) \/ (\E j \in Job : DbCommit(j))
            \/ (\E j \in Job : RecordRollback(j)) \/ (\E j \in Job : RevertApi(j))
            \/ (\E j \in Job : SkipApi(j)) \/ (\E j \in Job : StartRestored(j))
            \/ (\E j \in Job : RestoreEnds(j)) \/ UNCHANGED vars
  BY <1>20 DEF Boot, ManualSnapshot, Snapshot, Serves, Age, DeleteSnapshot, NoFile,
      NoRow, Swap, Update, Step, NoJob, StartNew, StartApi, VerifyFails, Restore,
      RestoreFails, OnExit, RollbackWouldBeUndone, DbCommit, RecordRollback,
      RevertApi, SkipApi, StartRestored, RestoreEnds, vars
<1> QED
  BY <1>1, <1>2, <1>3, <1>4, <1>5, <1>6, <1>7, <1>8, <1>9, <1>10, <1>11, <1>12, <1>13,
     <1>14, <1>15, <1>16, <1>17, <1>18, <1>19, <1>20 DEF Next, Call, Watch, Script,
     UpdateScript, RestoreScript

LEMMA RowsTyped ==
  ASSUME Typed, Tarballs, [Next]_vars
  PROVE  RowsOK'
<1> USE PanelUpdateAssumption DEF Typed, process, panel, disk, history, restore, ghosts
<1>1. CASE Boot
  <2>1. binary \in 0 .. Abandoned /\ Abandoned \in 0 .. Abandoned
    BY VersionIsOutcome DEF Abandoned, DiskOK, Versions
  <2>2. ASSUME NEW s \in Snapshots
        PROVE  [rows[s] EXCEPT !.to = IF s \in aged THEN Abandoned ELSE binary] \in RowType
    BY <2>1 DEF RowsOK, RowsType, RowType
  <2>3. PICK S \in SUBSET Pending : Finalize(S)
    BY <1>1 DEF Boot
  <2>4. rows' \in RowsType
    BY <2>2, <2>3 DEF Finalize, RowsOK, RowsType
  <2>5. unsure' \subseteq Snapshots
    BY <2>3 DEF Finalize, RowsOK, Pending, Rows
  <2> QED
    BY <2>4, <2>5 DEF RowsOK
<1>2. CASE InsertRow
  <2>1. [from |-> running, to |-> None, target |-> call.target] \in RowType
    BY DEF RowType, SvcOK, ProcessOK, None, Abandoned, Versions
  <2>2. rows' \in RowsType
    BY <1>2, <2>1 DEF InsertRow, RowsOK, RowsType
  <2> QED
    BY <1>2, <2>2 DEF InsertRow, RowsOK
<1>3. CASE ManualSnapshot
  <2>1. [from |-> running, to |-> None, target |-> None] \in RowType
    BY DEF RowType, SvcOK, None, Abandoned, Versions
  <2>2. rows' \in RowsType
    BY <1>3, <2>1 DEF ManualSnapshot, RowsOK, RowsType
  <2> QED
    BY <1>3, <2>2 DEF ManualSnapshot, RowsOK
<1>4. CASE \E s \in Snapshots : DeleteSnapshot(s)
  <2>1. PICK s \in Snapshots : DeleteSnapshot(s)
    BY <1>4
  <2>2. rows' \in RowsType
    BY <2>1, NoneTyped DEF DeleteSnapshot, RowsOK, RowsType
  <2>3. unsure' \subseteq Snapshots
    BY <2>1 DEF DeleteSnapshot, RowsOK, Rows
  <2> QED
    BY <2>2, <2>3 DEF RowsOK
<1>5. CASE WatchVerdict
  <2>1. watched \in Snapshots
    BY <1>5 DEF WatchVerdict, WatchEnds, ProcessOK, None
  <2>2. CASE UNCHANGED <<rows, unsure>>
    BY <2>2 DEF RowsOK
  <2>3. CASE StampFailed
    BY <2>1, <2>3, StampTyped
  <2> QED
    BY <1>5, <2>2, <2>3 DEF WatchVerdict
<1>6. CASE WatchTimesOut
  <2>1. watched \in Snapshots
    BY <1>6 DEF WatchTimesOut, WatchEnds, ProcessOK, None
  <2> QED
    BY <1>6, <2>1, StampTyped DEF WatchTimesOut
<1>7. CASE \E j \in Job : HandoffFails(j)
  <2>1. watched \in Snapshots
    BY <1>7 DEF HandoffFails, WatchEnds, ProcessOK, None
  <2> QED
    BY <1>7, <2>1, StampTyped DEF HandoffFails
<1>8. CASE \E j \in Job : DbCommit(j)
  <2>1. PICK j \in Job : DbCommit(j)
    BY <1>8
  <2>2. jobs[j].snap \in Snapshots
    BY <2>1 DEF DbCommit, Restore, Step, Tarballs, Meant, JobsOK, JobType, None
  <2>3. files[jobs[j].snap].rows \in RowsType
    BY <2>2 DEF FilesOK, FileType
  <2> QED
    BY <2>1, <2>3 DEF DbCommit, Restore, Step, RowsOK
<1>9. CASE \E j \in Job : RecordRollback(j)
  <2>1. PICK j \in Job : RecordRollback(j)
    BY <1>9
  <2>2. jobs[j].snap \in Snapshots
    BY <2>1 DEF RecordRollback, Restore, Step, Tarballs, Meant, JobsOK, JobType, None
  <2> DEFINE f == files[jobs[j].snap]
  <2>3. [from |-> f.from, to |-> None, target |-> f.target] \in RowType
    BY <2>2, VersionIsOutcome DEF FilesOK, FileType, RowType, None
  <2>4. [rows EXCEPT ![jobs[j].snap] =
           [from |-> f.from, to |-> None, target |-> f.target]] \in RowsType
    BY <2>3 DEF RowsOK, RowsType
  <2> QED
    BY <2>1, <2>4 DEF RecordRollback, Restore, Step, RowsOK
<1>10. CASE \/ Crash \/ PowerLoss \/ CountPending \/ TakeDump \/ SnapshotFails \/ Spawn
            \/ (\E v \in Versions : Reserve(v)) \/ (\E s \in Snapshots : Age(s))
            \/ (\E s \in Snapshots : Rollback(s)) \/ (\E j \in Job : PrepareFails(j))
            \/ (\E j \in Job : StopForSwap(j)) \/ (\E j \in Job : Swap(j))
            \/ (\E j \in Job : SwapFails(j)) \/ (\E j \in Job : StartNew(j))
            \/ (\E j \in Job : HealthOk(j)) \/ (\E j \in Job : HealthFails(j))
            \/ (\E j \in Job : PutBack(j)) \/ (\E j \in Job : VerifyFails(j))
            \/ (\E j \in Job : StopForRestore(j)) \/ (\E j \in Job : RestoreFails(j))
            \/ (\E j \in Job : RevertApi(j)) \/ (\E j \in Job : SkipApi(j))
            \/ (\E j \in Job : StartRestored(j)) \/ (\E j \in Job : RestoreEnds(j))
            \/ UNCHANGED vars
  BY <1>10 DEF Crash, EndProcess, Orphans, NoCall, Serves, PowerLoss, NoJob,
      CountPending, Release, Hold, TakeDump, Snapshot, SnapshotFails, NoFile, Spawn,
      Launch, Reserve, Age, Rollback, PrepareFails, Update, Step, Verdict,
      StopForSwap, StopApiOf, Swap, SwapFails, StartApi, StartNew, HealthOk,
      HealthFails, PutBack, VerifyFails, Restore, StopForRestore, RestoreFails,
      OnExit, RollbackWouldBeUndone, RevertApi, SkipApi, StartRestored, RestoreEnds,
      vars, RowsOK
<1> QED
  BY <1>1, <1>2, <1>3, <1>4, <1>5, <1>6, <1>7, <1>8, <1>9, <1>10 DEF Next, Call,
     Watch, Script, UpdateScript, RestoreScript

LEMMA TakenTyped ==
  ASSUME Typed, [Next]_vars
  PROVE  TakenOK'
<1> USE PanelUpdateAssumption DEF Typed, TakenOK, Snapshots, process, panel, disk,
        history, restore, ghosts
<1>1. CASE TakeDump
  BY <1>1 DEF TakeDump, Snapshot
<1>2. CASE ManualSnapshot
  BY <1>2 DEF ManualSnapshot, Snapshot, Serves
<1>3. CASE \E s \in Snapshots : Age(s)
  BY <1>3 DEF Age
<1>4. CASE \/ Boot \/ Crash \/ PowerLoss \/ CountPending \/ InsertRow \/ SnapshotFails
           \/ Spawn \/ (\E v \in Versions : Reserve(v))
           \/ (\E s \in Snapshots : DeleteSnapshot(s))
           \/ (\E s \in Snapshots : Rollback(s)) \/ WatchVerdict \/ WatchTimesOut
           \/ (\E j \in Job : HandoffFails(j)) \/ (\E j \in Job : PrepareFails(j))
           \/ (\E j \in Job : StopForSwap(j)) \/ (\E j \in Job : Swap(j))
           \/ (\E j \in Job : SwapFails(j)) \/ (\E j \in Job : StartNew(j))
           \/ (\E j \in Job : HealthOk(j)) \/ (\E j \in Job : HealthFails(j))
           \/ (\E j \in Job : PutBack(j)) \/ (\E j \in Job : VerifyFails(j))
           \/ (\E j \in Job : StopForRestore(j)) \/ (\E j \in Job : RestoreFails(j))
           \/ (\E j \in Job : DbCommit(j)) \/ (\E j \in Job : RecordRollback(j))
           \/ (\E j \in Job : RevertApi(j)) \/ (\E j \in Job : SkipApi(j))
           \/ (\E j \in Job : StartRestored(j)) \/ (\E j \in Job : RestoreEnds(j))
           \/ UNCHANGED vars
  BY <1>4 DEF Boot, Crash, EndProcess, Orphans, NoCall, Serves, PowerLoss, NoJob,
      CountPending, Release, Hold, InsertRow, SnapshotFails, NoFile, Spawn, Launch,
      Reserve, DeleteSnapshot, NoRow, Rollback, WatchVerdict, WatchEnds,
      StampFailed, WatchTimesOut, HandoffFails, PrepareFails, Update, Step, Verdict,
      StopForSwap, StopApiOf, Swap, SwapFails, StartApi, StartNew, HealthOk,
      HealthFails, PutBack, VerifyFails, Restore, StopForRestore, RestoreFails,
      OnExit, RollbackWouldBeUndone, DbCommit, RecordRollback, RevertApi, SkipApi,
      StartRestored, RestoreEnds, vars
<1> QED
  BY <1>1, <1>2, <1>3, <1>4 DEF Next, Call, Watch, Script, UpdateScript, RestoreScript

LEMMA FilesTyped ==
  ASSUME Typed, [Next]_vars
  PROVE  FilesOK'
<1> USE PanelUpdateAssumption DEF Typed, FilesOK, process, panel, disk, history,
        restore, ghosts
<1>1. CASE TakeDump
  BY <1>1 DEF TakeDump, Snapshot, FileType, DiskOK, SvcOK, RowsOK, ProcessOK, None,
      Snapshots
<1>2. CASE ManualSnapshot
  BY <1>2 DEF ManualSnapshot, Snapshot, Serves, FileType, DiskOK, SvcOK, RowsOK,
      ProcessOK, None, Snapshots
<1>3. CASE SnapshotFails
  BY <1>3, NoneTyped DEF SnapshotFails, FilesOK
<1>4. CASE \E s \in Snapshots : DeleteSnapshot(s)
  BY <1>4, NoneTyped DEF DeleteSnapshot, FilesOK
<1>5. CASE \/ Boot \/ Crash \/ PowerLoss \/ CountPending \/ InsertRow \/ Spawn
           \/ (\E v \in Versions : Reserve(v)) \/ (\E s \in Snapshots : Age(s))
           \/ (\E s \in Snapshots : Rollback(s)) \/ WatchVerdict \/ WatchTimesOut
           \/ (\E j \in Job : HandoffFails(j)) \/ (\E j \in Job : PrepareFails(j))
           \/ (\E j \in Job : StopForSwap(j)) \/ (\E j \in Job : Swap(j))
           \/ (\E j \in Job : SwapFails(j)) \/ (\E j \in Job : StartNew(j))
           \/ (\E j \in Job : HealthOk(j)) \/ (\E j \in Job : HealthFails(j))
           \/ (\E j \in Job : PutBack(j)) \/ (\E j \in Job : VerifyFails(j))
           \/ (\E j \in Job : StopForRestore(j)) \/ (\E j \in Job : RestoreFails(j))
           \/ (\E j \in Job : DbCommit(j)) \/ (\E j \in Job : RecordRollback(j))
           \/ (\E j \in Job : RevertApi(j)) \/ (\E j \in Job : SkipApi(j))
           \/ (\E j \in Job : StartRestored(j)) \/ (\E j \in Job : RestoreEnds(j))
           \/ UNCHANGED vars
  BY <1>5 DEF Boot, Crash, EndProcess, Orphans, NoCall, Serves, PowerLoss, NoJob,
      CountPending, Release, Hold, InsertRow, Spawn, Launch, Reserve, Age, Rollback,
      WatchVerdict, WatchEnds, StampFailed, WatchTimesOut, HandoffFails,
      PrepareFails, Update, Step, Verdict, StopForSwap, StopApiOf, Swap, SwapFails,
      StartApi, StartNew, HealthOk, HealthFails, PutBack, VerifyFails, Restore,
      StopForRestore, RestoreFails, OnExit, RollbackWouldBeUndone, DbCommit,
      RecordRollback, RevertApi, SkipApi, StartRestored, RestoreEnds, vars
<1> QED
  BY <1>1, <1>2, <1>3, <1>4, <1>5 DEF Next, Call, Watch, Script, UpdateScript,
     RestoreScript

LEMMA JobsTyped ==
  ASSUME Typed, [Next]_vars
  PROVE  JobsOK'
<1> USE PanelUpdateAssumption DEF Typed, JobsOK, JobType, ProcessOK, None, process,
        panel, disk, history, restore, ghosts
<1>1. CASE Crash
  BY <1>1 DEF Crash, EndProcess, Orphans, NoCall, Serves
<1>2. CASE PowerLoss
  BY <1>2 DEF PowerLoss, EndProcess, NoCall, NoJob
<1>3. CASE Spawn
  <2>1. call.target \in Versions \cup {None} /\ call.snap \in Snapshots \cup {None}
    OBVIOUS
  <2>2. CASE jobs' = jobs
    BY <2>2
  <2>3. CASE Launch([kind |-> "update", at |-> "prepare", target |-> call.target,
                     snap |-> call.snap, mine |-> TRUE])
    BY <2>1, <2>3 DEF Launch
  <2> QED
    BY <1>3, <2>2, <2>3 DEF Spawn
<1>4. CASE \E s \in Snapshots : Rollback(s)
  BY <1>4 DEF Rollback, Launch, Serves
<1>5. CASE WatchVerdict
  <2>1. Orphans(jobs) \in [Job -> JobType]
    BY OrphansTyped
  <2> QED
    BY <1>5, <2>1 DEF WatchVerdict
<1>6. CASE WatchTimesOut
  BY <1>6 DEF WatchTimesOut, WatchEnds, StampFailed, Orphans
<1>7. CASE \E j \in Job : HandoffFails(j)
  BY <1>7 DEF HandoffFails, WatchEnds, StampFailed, NoJob
<1>8. CASE \E j \in Job : PrepareFails(j)
  BY <1>8 DEF PrepareFails, Update, Step, NoJob, Verdict
<1>9. CASE \E j \in Job : StopForSwap(j)
  <2>1. PICK j \in Job : StopForSwap(j)
    BY <1>9
  <2> QED
    BY <2>1, StopTyped DEF StopForSwap
<1>10. CASE \E j \in Job : Swap(j)
  BY <1>10 DEF Swap, Update, Step, NoJob
<1>11. CASE \E j \in Job : SwapFails(j)
  BY <1>11 DEF SwapFails, Update, Step, NoJob, Verdict, StartApi
<1>12. CASE \E j \in Job : StartNew(j)
  BY <1>12 DEF StartNew, Update, Step, NoJob, StartApi
<1>13. CASE \E j \in Job : HealthOk(j)
  BY <1>13 DEF HealthOk, Update, Step, NoJob, Verdict
<1>14. CASE \E j \in Job : HealthFails(j)
  <2>1. PICK j \in Job : HealthFails(j)
    BY <1>14
  <2> QED
    BY <2>1, StopTyped DEF HealthFails
<1>15. CASE \E j \in Job : PutBack(j)
  BY <1>15 DEF PutBack, Update, Step, NoJob, Verdict, StartApi
<1>16. CASE \E j \in Job : VerifyFails(j)
  BY <1>16 DEF VerifyFails, Restore, Step, NoJob
<1>17. CASE \E j \in Job : StopForRestore(j)
  <2>1. PICK j \in Job : StopForRestore(j)
    BY <1>17
  <2> QED
    BY <2>1, StopTyped DEF StopForRestore
<1>18. CASE \E j \in Job : RestoreFails(j)
  BY <1>18 DEF RestoreFails, Restore, Step, NoJob, OnExit, StartApi,
      RollbackWouldBeUndone
<1>19. CASE \E j \in Job : DbCommit(j)
  BY <1>19 DEF DbCommit, Restore, Step, NoJob
<1>20. CASE \E j \in Job : RecordRollback(j)
  BY <1>20 DEF RecordRollback, Restore, Step, NoJob
<1>21. CASE \E j \in Job : RevertApi(j)
  BY <1>21 DEF RevertApi, Restore, Step, NoJob
<1>22. CASE \E j \in Job : SkipApi(j)
  BY <1>22 DEF SkipApi, Restore, Step, NoJob
<1>23. CASE \E j \in Job : StartRestored(j)
  BY <1>23 DEF StartRestored, Restore, Step, NoJob, StartApi
<1>24. CASE \E j \in Job : RestoreEnds(j)
  BY <1>24 DEF RestoreEnds, Restore, Step, NoJob
<1>25. CASE \/ Boot \/ CountPending \/ TakeDump \/ InsertRow \/ SnapshotFails
            \/ ManualSnapshot \/ (\E v \in Versions : Reserve(v))
            \/ (\E s \in Snapshots : Age(s)) \/ (\E s \in Snapshots : DeleteSnapshot(s))
            \/ UNCHANGED vars
  BY <1>25 DEF Boot, CountPending, Release, Hold, NoCall, TakeDump, Snapshot,
      InsertRow, SnapshotFails, NoFile, ManualSnapshot, Serves, Reserve, Age,
      DeleteSnapshot, NoRow, vars
<1> QED
  BY <1>1, <1>2, <1>3, <1>4, <1>5, <1>6, <1>7, <1>8, <1>9, <1>10, <1>11, <1>12, <1>13,
     <1>14, <1>15, <1>16, <1>17, <1>18, <1>19, <1>20, <1>21, <1>22, <1>23, <1>24,
     <1>25 DEF Next, Call, Watch, Script, UpdateScript, RestoreScript

LEMMA GhostsTyped ==
  ASSUME Typed, Tarballs, [Next]_vars
  PROVE  GhostsOK'
<1> USE PanelUpdateAssumption DEF Typed, GhostsOK, DiskOK, None, process, panel, disk,
        history, restore, ghosts
<1>1. CASE Crash
  BY <1>1 DEF Crash, EndProcess, Orphans, NoCall, Serves
<1>2. CASE PowerLoss
  <2>1. faults' \in 0 .. MaxFaults
    BY <1>2 DEF PowerLoss
  <2>2. half' \in BOOLEAN /\ lone' \in BOOLEAN /\ torn' \in BOOLEAN
    BY <1>2 DEF PowerLoss
  <2>3. restored' \in Versions \cup {None}
    BY <1>2 DEF PowerLoss
  <2> QED
    BY <2>1, <2>2, <2>3 DEF GhostsOK
<1>3. CASE Spawn
  BY <1>3 DEF Spawn, Launch, NoCall
<1>4. CASE \E s \in Snapshots : Rollback(s)
  BY <1>4 DEF Rollback, Launch, Serves
<1>5. CASE \E j \in Job : Swap(j)
  BY <1>5 DEF Swap, Update, Step, NoJob
<1>6. CASE \E j \in Job : DbCommit(j)
  <2>1. PICK j \in Job : DbCommit(j)
    BY <1>6
  <2>2. restored' \in Versions \cup {None}
    BY <2>1, DiskTyped DEF DbCommit, DiskOK
  <2> QED
    BY <2>1, <2>2 DEF DbCommit, Restore, Step, GhostsOK
<1>7. CASE \E j \in Job : RevertApi(j)
  BY <1>7 DEF RevertApi, Restore, Step, NoJob
<1>8. CASE \/ CountPending \/ TakeDump \/ InsertRow \/ SnapshotFails
           \/ ManualSnapshot \/ (\E v \in Versions : Reserve(v))
           \/ (\E s \in Snapshots : Age(s)) \/ (\E s \in Snapshots : DeleteSnapshot(s))
           \/ WatchVerdict \/ WatchTimesOut \/ (\E j \in Job : HandoffFails(j))
           \/ (\E j \in Job : PrepareFails(j)) \/ (\E j \in Job : StopForSwap(j))
           \/ (\E j \in Job : SwapFails(j)) \/ (\E j \in Job : StartNew(j))
           \/ (\E j \in Job : HealthOk(j)) \/ (\E j \in Job : HealthFails(j))
           \/ (\E j \in Job : PutBack(j)) \/ (\E j \in Job : VerifyFails(j))
           \/ (\E j \in Job : StopForRestore(j)) \/ (\E j \in Job : RestoreFails(j))
           \/ (\E j \in Job : RecordRollback(j)) \/ (\E j \in Job : SkipApi(j))
           \/ (\E j \in Job : StartRestored(j)) \/ (\E j \in Job : RestoreEnds(j))
           \/ UNCHANGED vars
  BY <1>8 DEF CountPending, Release, Hold, NoCall, TakeDump, Snapshot,
      InsertRow, SnapshotFails, NoFile, ManualSnapshot, Serves, Reserve, Age,
      DeleteSnapshot, NoRow, WatchVerdict, WatchEnds, StampFailed, Orphans,
      WatchTimesOut, HandoffFails, NoJob, PrepareFails, Update, Step, Verdict,
      StopForSwap, StopApiOf, EndProcess, SwapFails, StartApi, StartNew, HealthOk,
      HealthFails, PutBack, VerifyFails, Restore, StopForRestore, RestoreFails,
      OnExit, RollbackWouldBeUndone, RecordRollback, SkipApi, StartRestored,
      RestoreEnds, vars
<1>9. CASE Boot
  <2>1. faults' \in 0 .. MaxFaults
    BY <1>9 DEF Boot
  <2> QED
    BY <1>9, <2>1 DEF Boot
<1> QED
  BY <1>1, <1>2, <1>3, <1>4, <1>5, <1>6, <1>7, <1>8, <1>9 DEF Next, Call, Watch, Script,
     UpdateScript, RestoreScript

-----------------------------------------------------------------------------
(* Scripts that are started, and scripts that are given up.                  *)

LEMMA OrphansAre ==
  ASSUME JobsOK
  PROVE  /\ \A j \in Job : Orphans(jobs)[j] = [jobs[j] EXCEPT !.mine = FALSE]
         /\ {j \in Job : Orphans(jobs)[j].at # "done"} = Unfinished
         /\ \A j \in Job : /\ Orphans(jobs)[j].at = jobs[j].at
                         /\ Orphans(jobs)[j].kind = jobs[j].kind
                         /\ Orphans(jobs)[j].target = jobs[j].target
                         /\ Orphans(jobs)[j].snap = jobs[j].snap
                         /\ Orphans(jobs)[j].mine = FALSE
  BY DEF Orphans, JobsOK, JobType, Unfinished

\* The task that waits for a script changes neither where the scripts are nor what
\* they work on.
LEMMA WatchLeaves ==
  ASSUME JobsOK, WatchVerdict
  PROVE  /\ UNCHANGED <<svc, call, disk, files, ghosts>>
         /\ watched # None /\ watched' = None
         /\ \/ UNCHANGED <<jobs, inFlight>>
            \/ inFlight' = FALSE /\ \A j \in Job : jobs'[j].mine = FALSE
         /\ \A j \in Job : /\ jobs'[j].at = jobs[j].at /\ jobs'[j].kind = jobs[j].kind
                         /\ jobs'[j].target = jobs[j].target
                         /\ jobs'[j].snap = jobs[j].snap
<1>1. UNCHANGED <<svc, call, disk, files, ghosts>> /\ watched # None /\ watched' = None
  BY DEF WatchVerdict, WatchEnds, disk, ghosts, restore
<1>2. CASE UNCHANGED <<jobs, inFlight>>
  BY <1>1, <1>2
<1>3. CASE jobs' = Orphans(jobs) /\ inFlight' = FALSE
  BY <1>1, <1>3, OrphansAre
<1> QED
  BY <1>2, <1>3 DEF WatchVerdict, StampFailed

\* A script that is started is the only one at work, as long as none overlap.
LEMMA Launched ==
  ASSUME NEW job \in JobType, JobsOK, Launch(job)
  PROVE  /\ \A j \in Job : jobs'[j] = jobs[j] \/ (jobs[j].at = "done" /\ jobs'[j] = job)
         /\ lone' => /\ lone /\ \A j \in Job : jobs[j].at = "done"
                     /\ \A j, k \in Unfinished' : j = k
  BY DEF Launch, Unfinished, JobsOK

LEMMA SpawnIs ==
  ASSUME Typed, Tarballs, Spawn
  PROVE  /\ call.at = "spawn" /\ call'.at = "none"
         /\ UNCHANGED <<svc, inFlight, disk, files, restore, torn>>
         /\ \/ UNCHANGED <<jobs, lone, watched>>
            \/ /\ watched' # None
               /\ lone' => /\ lone /\ \A j \in Job : jobs[j].at = "done"
                           /\ \A j, k \in Unfinished' : j = k
               /\ \A j \in Job : jobs'[j] = jobs[j]
                    \/ /\ jobs[j].at = "done" /\ jobs'[j].at = "prepare"
                       /\ jobs'[j].kind = "update" /\ jobs'[j].target # None
<1> DEFINE job == [kind |-> "update", at |-> "prepare", target |-> call.target,
                   snap |-> call.snap, mine |-> TRUE]
<1>1. /\ UNCHANGED <<svc, inFlight, disk, files, restore, torn>>
      /\ call.at = "spawn" /\ call'.at = "none"
  BY DEF Spawn, NoCall, disk, restore
<1>2. job \in JobType
  BY DEF Typed, ProcessOK, JobType
<1>3. call.target # None /\ call.snap # None
  BY <1>1 DEF Tarballs, Asked
<1>4. CASE Launch(job) /\ watched' = call.snap
  BY <1>1, <1>2, <1>3, <1>4, Launched DEF Typed
<1>5. CASE UNCHANGED <<jobs, lone, watched>>
  BY <1>1, <1>5
<1> QED
  BY <1>4, <1>5 DEF Spawn

-----------------------------------------------------------------------------
(* The strengthening, a conjunct at a time.                                  *)

\* A snapshot has an api and a database in it.
LEMMA MadeKeeps ==
  ASSUME IInv, [Next]_vars
  PROVE  Made'
<1> USE PanelUpdateAssumption DEF IInv, Typed, Made, Tarballs, FilesOK, FileType,
        DiskOK, Versions, NoFile, None, process, panel, disk, history, restore, ghosts
<1>1. CASE TakeDump
  BY <1>1 DEF TakeDump, Snapshot
<1>2. CASE SnapshotFails
  BY <1>2 DEF SnapshotFails, Release, NoCall, NoFile
<1>3. CASE ManualSnapshot
  BY <1>3 DEF ManualSnapshot, Snapshot, Serves
<1>4. CASE \E s \in Snapshots : DeleteSnapshot(s)
  BY <1>4 DEF DeleteSnapshot, NoFile, NoRow, Serves, Rows
<1>5. CASE \/ Boot \/ Crash \/ PowerLoss \/ CountPending \/ InsertRow \/ Spawn
           \/ (\E v \in Versions : Reserve(v)) \/ (\E s \in Snapshots : Age(s))
           \/ (\E s \in Snapshots : Rollback(s)) \/ WatchVerdict \/ WatchTimesOut
           \/ (\E j \in Job : HandoffFails(j)) \/ (\E j \in Job : PrepareFails(j))
           \/ (\E j \in Job : StopForSwap(j)) \/ (\E j \in Job : Swap(j))
           \/ (\E j \in Job : SwapFails(j)) \/ (\E j \in Job : StartNew(j))
           \/ (\E j \in Job : HealthOk(j)) \/ (\E j \in Job : HealthFails(j))
           \/ (\E j \in Job : PutBack(j)) \/ (\E j \in Job : VerifyFails(j))
           \/ (\E j \in Job : StopForRestore(j)) \/ (\E j \in Job : RestoreFails(j))
           \/ (\E j \in Job : DbCommit(j)) \/ (\E j \in Job : RecordRollback(j))
           \/ (\E j \in Job : RevertApi(j)) \/ (\E j \in Job : SkipApi(j))
           \/ (\E j \in Job : StartRestored(j)) \/ (\E j \in Job : RestoreEnds(j))
           \/ UNCHANGED vars
  BY <1>5 DEF Boot, Crash, EndProcess, Orphans, NoCall, Serves, PowerLoss, NoJob,
      CountPending, Release, Hold, InsertRow, Spawn, Launch, Reserve, Age, Rollback,
      WatchVerdict, WatchEnds, StampFailed, WatchTimesOut, HandoffFails,
      PrepareFails, Update, Step, Verdict, StopForSwap, StopApiOf, Swap, SwapFails,
      StartApi, StartNew, HealthOk, HealthFails, PutBack, VerifyFails, Restore,
      StopForRestore, RestoreFails, OnExit, RollbackWouldBeUndone, DbCommit,
      RecordRollback, RevertApi, SkipApi, StartRestored, RestoreEnds, vars
<1> QED
  BY <1>1, <1>2, <1>3, <1>4, <1>5 DEF Next, Call, Watch, Script, UpdateScript,
     RestoreScript

\* An update has a release to go to, a restore a snapshot.
LEMMA MeantKeeps ==
  ASSUME IInv, [Next]_vars
  PROVE  Meant'
<1> USE PanelUpdateAssumption DEF IInv, Typed, Meant, Tarballs, JobsOK, JobType, Asked,
        None, process, panel, disk, history, restore, ghosts
<1>1. CASE Crash
  BY <1>1 DEF Crash, EndProcess, Orphans, NoCall, Serves
<1>2. CASE PowerLoss
  BY <1>2 DEF PowerLoss, EndProcess, NoCall, NoJob
<1>3. CASE Spawn
  BY <1>3, SpawnIs
<1>4. CASE \E s \in Snapshots : Rollback(s)
  <2>1. PICK s \in Snapshots : Rollback(s)
    BY <1>4
  <2> DEFINE job == [kind |-> "restore", at |-> "verify", target |-> None, snap |-> s,
                     mine |-> TRUE]
  <2>2. job \in JobType /\ job.kind = "restore" /\ job.snap # None /\ Launch(job)
    BY <2>1 DEF Rollback, Snapshots
  <2> HIDE DEF job
  <2> QED
    BY <2>2, Launched
<1>5. CASE WatchVerdict
  BY <1>5, WatchLeaves
<1>6. CASE WatchTimesOut
  BY <1>6 DEF WatchTimesOut, WatchEnds, StampFailed, Orphans
<1>7. CASE \E j \in Job : HandoffFails(j)
  BY <1>7 DEF HandoffFails, WatchEnds, StampFailed, NoJob
<1>8. CASE \E j \in Job : PrepareFails(j)
  BY <1>8 DEF PrepareFails, Update, Step, NoJob, Verdict
<1>9. CASE \E j \in Job : StopForSwap(j)
  BY <1>9 DEF StopForSwap, StopApiOf, EndProcess, Orphans, NoCall
<1>10. CASE \E j \in Job : Swap(j)
  BY <1>10 DEF Swap, Update, Step, NoJob
<1>11. CASE \E j \in Job : SwapFails(j)
  BY <1>11 DEF SwapFails, Update, Step, NoJob, Verdict, StartApi
<1>12. CASE \E j \in Job : StartNew(j)
  BY <1>12 DEF StartNew, Update, Step, NoJob, StartApi
<1>13. CASE \E j \in Job : HealthOk(j)
  BY <1>13 DEF HealthOk, Update, Step, NoJob, Verdict
<1>14. CASE \E j \in Job : HealthFails(j)
  BY <1>14 DEF HealthFails, StopApiOf, EndProcess, Orphans, NoCall
<1>15. CASE \E j \in Job : PutBack(j)
  BY <1>15 DEF PutBack, Update, Step, NoJob, Verdict, StartApi
<1>16. CASE \E j \in Job : VerifyFails(j)
  BY <1>16 DEF VerifyFails, Restore, Step, NoJob
<1>17. CASE \E j \in Job : StopForRestore(j)
  BY <1>17 DEF StopForRestore, StopApiOf, EndProcess, Orphans, NoCall
<1>18. CASE \E j \in Job : RestoreFails(j)
  BY <1>18 DEF RestoreFails, Restore, Step, NoJob, OnExit, StartApi,
      RollbackWouldBeUndone
<1>19. CASE \E j \in Job : DbCommit(j)
  BY <1>19 DEF DbCommit, Restore, Step, NoJob
<1>20. CASE \E j \in Job : RecordRollback(j)
  BY <1>20 DEF RecordRollback, Restore, Step, NoJob
<1>21. CASE \E j \in Job : RevertApi(j)
  BY <1>21 DEF RevertApi, Restore, Step, NoJob
<1>22. CASE \E j \in Job : SkipApi(j)
  BY <1>22 DEF SkipApi, Restore, Step, NoJob
<1>23. CASE \E j \in Job : StartRestored(j)
  BY <1>23 DEF StartRestored, Restore, Step, NoJob, StartApi
<1>24. CASE \E j \in Job : RestoreEnds(j)
  BY <1>24 DEF RestoreEnds, Restore, Step, NoJob
<1>25. CASE \/ Boot \/ CountPending \/ TakeDump \/ InsertRow \/ SnapshotFails
            \/ ManualSnapshot \/ (\E v \in Versions : Reserve(v))
            \/ (\E s \in Snapshots : Age(s)) \/ (\E s \in Snapshots : DeleteSnapshot(s))
            \/ UNCHANGED vars
  BY <1>25 DEF Boot, CountPending, Release, Hold, NoCall, TakeDump, Snapshot,
      InsertRow, SnapshotFails, NoFile, ManualSnapshot, Serves, Reserve, Age,
      DeleteSnapshot, NoRow, vars
<1> QED
  BY <1>1, <1>2, <1>3, <1>4, <1>5, <1>6, <1>7, <1>8, <1>9, <1>10, <1>11, <1>12, <1>13,
     <1>14, <1>15, <1>16, <1>17, <1>18, <1>19, <1>20, <1>21, <1>22, <1>23, <1>24,
     <1>25 DEF Next, Call, Watch, Script, UpdateScript, RestoreScript

\* start_panel_update knows what it asks for.
LEMMA AskedKeeps ==
  ASSUME IInv, [Next]_vars
  PROVE  Asked'
<1> USE PanelUpdateAssumption DEF IInv, Typed, Asked, Tarballs, ProcessOK, Versions,
        TakenOK, None, process, panel, disk, history, restore, ghosts
<1>1. CASE Crash
  BY <1>1 DEF Crash, EndProcess, Orphans, NoCall, Serves
<1>2. CASE PowerLoss
  BY <1>2 DEF PowerLoss, EndProcess, NoCall, NoJob
<1>3. CASE CountPending
  <2>1. CASE Release
    BY <1>3, <2>1 DEF CountPending, Release, NoCall
  <2>2. CASE call' = [call EXCEPT !.at = "dump"] /\ Hold
    BY <1>3, <2>2 DEF CountPending, Hold
  <2>3. CASE call' = NoCall /\ Hold
    BY <1>3, <2>3 DEF CountPending, Hold, NoCall
  <2> QED
    BY <1>3, <2>1, <2>2, <2>3 DEF CountPending
<1>4. CASE TakeDump
  BY <1>4 DEF TakeDump, Snapshot
<1>5. CASE InsertRow
  BY <1>5 DEF InsertRow
<1>6. CASE SnapshotFails
  BY <1>6 DEF SnapshotFails, Release, NoCall, NoFile
<1>7. CASE Spawn
  BY <1>7, SpawnIs
<1>8. CASE \E v \in Versions : Reserve(v)
  BY <1>8 DEF Reserve, Serves
<1>9. CASE \E j \in Job : StopForSwap(j)
  BY <1>9 DEF StopForSwap, StopApiOf, EndProcess, Orphans, NoCall
<1>10. CASE \E j \in Job : StopForRestore(j)
  BY <1>10 DEF StopForRestore, StopApiOf, EndProcess, Orphans, NoCall
<1>11. CASE \E j \in Job : HealthFails(j)
  BY <1>11 DEF HealthFails, StopApiOf, EndProcess, Orphans, NoCall
<1>12. CASE \/ Boot \/ ManualSnapshot \/ (\E s \in Snapshots : Age(s))
            \/ (\E s \in Snapshots : DeleteSnapshot(s))
            \/ (\E s \in Snapshots : Rollback(s)) \/ WatchVerdict \/ WatchTimesOut
            \/ (\E j \in Job : HandoffFails(j)) \/ (\E j \in Job : PrepareFails(j))
            \/ (\E j \in Job : Swap(j)) \/ (\E j \in Job : SwapFails(j))
            \/ (\E j \in Job : StartNew(j)) \/ (\E j \in Job : HealthOk(j))
            \/ (\E j \in Job : PutBack(j)) \/ (\E j \in Job : VerifyFails(j))
            \/ (\E j \in Job : RestoreFails(j)) \/ (\E j \in Job : DbCommit(j))
            \/ (\E j \in Job : RecordRollback(j)) \/ (\E j \in Job : RevertApi(j))
            \/ (\E j \in Job : SkipApi(j)) \/ (\E j \in Job : StartRestored(j))
            \/ (\E j \in Job : RestoreEnds(j)) \/ UNCHANGED vars
  BY <1>12 DEF Boot, ManualSnapshot, Snapshot, Serves, Age, DeleteSnapshot, NoFile,
      NoRow, Rollback, Launch, WatchVerdict, WatchEnds, StampFailed, Orphans,
      WatchTimesOut, HandoffFails, NoJob, PrepareFails, Update, Step, Verdict, Swap,
      SwapFails, StartApi, StartNew, HealthOk, PutBack, VerifyFails, Restore,
      RestoreFails, OnExit, RollbackWouldBeUndone, DbCommit, RecordRollback,
      RevertApi, SkipApi, StartRestored, RestoreEnds, vars
<1> QED
  BY <1>1, <1>2, <1>3, <1>4, <1>5, <1>6, <1>7, <1>8, <1>9, <1>10, <1>11, <1>12 DEF
     Next, Call, Watch, Script, UpdateScript, RestoreScript

\* Nobody is up who could delete the tarball of a restore at the database.
LEMMA KeptKeeps ==
  ASSUME IInv, [Next]_vars
  PROVE  Kept'
<1> USE PanelUpdateAssumption DEF IInv, Typed, Kept, Tarballs, Meant, Alone, Midway,
        Unfinished, Calls, JobsOK, JobType, None, process, panel, disk, history,
        restore, ghosts
<1>1. CASE Boot
  BY <1>1 DEF Boot, Larger
<1>2. CASE Crash
  BY <1>2 DEF Crash, EndProcess, Orphans, NoCall, Serves
<1>3. CASE PowerLoss
  BY <1>3 DEF PowerLoss, EndProcess, NoCall, NoJob
<1>4. CASE CountPending
  <2>1. CASE Release
    BY <1>4, <2>1 DEF CountPending, Release, NoCall
  <2>2. CASE call' = [call EXCEPT !.at = "dump"] /\ Hold
    BY <1>4, <2>2 DEF CountPending, Hold
  <2>3. CASE call' = NoCall /\ Hold
    BY <1>4, <2>3 DEF CountPending, Hold, NoCall
  <2> QED
    BY <1>4, <2>1, <2>2, <2>3 DEF CountPending
<1>5. CASE TakeDump
  BY <1>5 DEF TakeDump, Snapshot
<1>6. CASE InsertRow
  BY <1>6 DEF InsertRow
<1>7. CASE SnapshotFails
  BY <1>7 DEF SnapshotFails, Release, NoCall, NoFile
<1>8. CASE Spawn
  BY <1>8, SpawnIs
<1>9. CASE ManualSnapshot
  BY <1>9 DEF ManualSnapshot, Snapshot, Serves
<1>10. CASE \E v \in Versions : Reserve(v)
  BY <1>10 DEF Reserve, Serves
<1>11. CASE \E s \in Snapshots : DeleteSnapshot(s)
  BY <1>11 DEF DeleteSnapshot, NoFile, NoRow, Serves, Rows
<1>12. CASE \E s \in Snapshots : Rollback(s)
  BY <1>12 DEF Rollback, Launch, Serves
<1>13. CASE WatchVerdict
  BY <1>13, WatchLeaves
<1>14. CASE WatchTimesOut
  BY <1>14 DEF WatchTimesOut, WatchEnds, StampFailed, Orphans
<1>15. CASE \E j \in Job : HandoffFails(j)
  BY <1>15 DEF HandoffFails, WatchEnds, StampFailed, NoJob
<1>16. CASE \E j \in Job : PrepareFails(j)
  BY <1>16 DEF PrepareFails, Update, Step, NoJob, Verdict
<1>17. CASE \E j \in Job : StopForSwap(j)
  BY <1>17 DEF StopForSwap, StopApiOf, EndProcess, Orphans, NoCall
<1>18. CASE \E j \in Job : Swap(j)
  BY <1>18 DEF Swap, Update, Step, NoJob
<1>19. CASE \E j \in Job : SwapFails(j)
  BY <1>19 DEF SwapFails, Update, Step, NoJob, Verdict, StartApi
<1>20. CASE \E j \in Job : StartNew(j)
  BY <1>20 DEF StartNew, Update, Step, NoJob, StartApi
<1>21. CASE \E j \in Job : HealthOk(j)
  BY <1>21 DEF HealthOk, Update, Step, NoJob, Verdict
<1>22. CASE \E j \in Job : HealthFails(j)
  BY <1>22 DEF HealthFails, StopApiOf, EndProcess, Orphans, NoCall
<1>23. CASE \E j \in Job : PutBack(j)
  BY <1>23 DEF PutBack, Update, Step, NoJob, Verdict, StartApi
<1>24. CASE \E j \in Job : VerifyFails(j)
  BY <1>24 DEF VerifyFails, Restore, Step, NoJob
<1>25. CASE \E j \in Job : StopForRestore(j)
  BY <1>25 DEF StopForRestore, StopApiOf, EndProcess, Orphans, NoCall
<1>26. CASE \E j \in Job : RestoreFails(j)
  BY <1>26 DEF RestoreFails, Restore, Step, NoJob, OnExit, StartApi,
      RollbackWouldBeUndone
<1>27. CASE \E j \in Job : DbCommit(j)
  BY <1>27 DEF DbCommit, Restore, Step, NoJob
<1>28. CASE \E j \in Job : RecordRollback(j)
  BY <1>28 DEF RecordRollback, Restore, Step, NoJob
<1>29. CASE \E j \in Job : RevertApi(j)
  BY <1>29 DEF RevertApi, Restore, Step, NoJob
<1>30. CASE \E j \in Job : SkipApi(j)
  BY <1>30 DEF SkipApi, Restore, Step, NoJob
<1>31. CASE \E j \in Job : StartRestored(j)
  BY <1>31 DEF StartRestored, Restore, Step, NoJob, StartApi
<1>32. CASE \E j \in Job : RestoreEnds(j)
  BY <1>32 DEF RestoreEnds, Restore, Step, NoJob
<1>33. CASE \/ (\E s \in Snapshots : Age(s)) \/ UNCHANGED vars
  BY <1>33 DEF Age, vars
<1> QED
  BY <1>1, <1>2, <1>3, <1>4, <1>5, <1>6, <1>7, <1>8, <1>9, <1>10, <1>11, <1>12, <1>13,
     <1>14, <1>15, <1>16, <1>17, <1>18, <1>19, <1>20, <1>21, <1>22, <1>23, <1>24,
     <1>25, <1>26, <1>27, <1>28, <1>29, <1>30, <1>31, <1>32, <1>33 DEF Next, Call,
     Watch, Script, UpdateScript, RestoreScript

\* One script at a time, and the api down while it is in between.
LEMMA AloneKeeps ==
  ASSUME IInv, [Next]_vars
  PROVE  Alone'
<1> USE PanelUpdateAssumption DEF IInv, Typed, Alone, Midway, Unfinished, HalfWay,
        Calls, JobsOK, JobType, None, process, panel, disk, history, restore, ghosts
<1>1. CASE Boot
  BY <1>1 DEF Boot, Larger
<1>2. CASE Crash
  BY <1>2 DEF Crash, EndProcess, Orphans, NoCall, Serves
<1>3. CASE PowerLoss
  BY <1>3 DEF PowerLoss, EndProcess, NoCall, NoJob
<1>4. CASE Spawn
  <2>1. CASE UNCHANGED <<jobs, lone>>
    BY <1>4, <2>1, SpawnIs
  <2>2. CASE lone' => /\ lone /\ \A j \in Job : jobs[j].at = "done"
                      /\ \A j, k \in Unfinished' : j = k
    <3>1. \A j \in Job : jobs'[j].at \notin Midway \/ jobs'[j] = jobs[j]
      BY <1>4, SpawnIs
    <3> QED
      BY <2>2, <3>1
  <2> QED
    BY <1>4, <2>1, <2>2, SpawnIs
<1>5. CASE \E s \in Snapshots : Rollback(s)
  BY <1>5 DEF Rollback, Launch, Serves
<1>6. CASE WatchVerdict
  <2>1. UNCHANGED <<svc, lone>> /\ \A j \in Job : jobs'[j].at = jobs[j].at
    BY <1>6, WatchLeaves
  <2>2. Unfinished' = Unfinished
    BY <2>1
  <2> QED
    BY <2>1, <2>2
<1>7. CASE WatchTimesOut
  BY <1>7 DEF WatchTimesOut, WatchEnds, StampFailed, Orphans
<1>8. CASE \E j \in Job : HandoffFails(j)
  BY <1>8 DEF HandoffFails, WatchEnds, StampFailed, NoJob
<1>9. CASE \E j \in Job : PrepareFails(j)
  BY <1>9 DEF PrepareFails, Update, Step, NoJob, Verdict
<1>10. CASE \E j \in Job : StopForSwap(j)
  BY <1>10 DEF StopForSwap, StopApiOf, EndProcess, Orphans, NoCall
<1>11. CASE \E j \in Job : Swap(j)
  BY <1>11 DEF Swap, Update, Step, NoJob
<1>12. CASE \E j \in Job : SwapFails(j)
  BY <1>12 DEF SwapFails, Update, Step, NoJob, Verdict, StartApi
<1>13. CASE \E j \in Job : StartNew(j)
  BY <1>13 DEF StartNew, Update, Step, NoJob, StartApi
<1>14. CASE \E j \in Job : HealthOk(j)
  BY <1>14 DEF HealthOk, Update, Step, NoJob, Verdict
<1>15. CASE \E j \in Job : HealthFails(j)
  BY <1>15 DEF HealthFails, StopApiOf, EndProcess, Orphans, NoCall
<1>16. CASE \E j \in Job : PutBack(j)
  BY <1>16 DEF PutBack, Update, Step, NoJob, Verdict, StartApi
<1>17. CASE \E j \in Job : VerifyFails(j)
  BY <1>17 DEF VerifyFails, Restore, Step, NoJob
<1>18. CASE \E j \in Job : StopForRestore(j)
  BY <1>18 DEF StopForRestore, StopApiOf, EndProcess, Orphans, NoCall
<1>19. CASE \E j \in Job : RestoreFails(j)
  BY <1>19 DEF RestoreFails, Restore, Step, NoJob, OnExit, StartApi,
      RollbackWouldBeUndone
<1>20. CASE \E j \in Job : DbCommit(j)
  BY <1>20 DEF DbCommit, Restore, Step, NoJob
<1>21. CASE \E j \in Job : RecordRollback(j)
  BY <1>21 DEF RecordRollback, Restore, Step, NoJob
<1>22. CASE \E j \in Job : RevertApi(j)
  BY <1>22 DEF RevertApi, Restore, Step, NoJob
<1>23. CASE \E j \in Job : SkipApi(j)
  BY <1>23 DEF SkipApi, Restore, Step, NoJob
<1>24. CASE \E j \in Job : StartRestored(j)
  BY <1>24 DEF StartRestored, Restore, Step, NoJob, StartApi
<1>25. CASE \E j \in Job : RestoreEnds(j)
  BY <1>25 DEF RestoreEnds, Restore, Step, NoJob
<1>26. CASE \/ CountPending \/ TakeDump \/ InsertRow \/ SnapshotFails \/ ManualSnapshot
            \/ (\E v \in Versions : Reserve(v)) \/ (\E s \in Snapshots : Age(s))
            \/ (\E s \in Snapshots : DeleteSnapshot(s)) \/ UNCHANGED vars
  BY <1>26 DEF CountPending, Release, Hold, NoCall, TakeDump, Snapshot, InsertRow,
      SnapshotFails, NoFile, ManualSnapshot, Serves, Reserve, Age, DeleteSnapshot,
      NoRow, vars
<1> QED
  BY <1>1, <1>2, <1>3, <1>4, <1>5, <1>6, <1>7, <1>8, <1>9, <1>10, <1>11, <1>12, <1>13,
     <1>14, <1>15, <1>16, <1>17, <1>18, <1>19, <1>20, <1>21, <1>22, <1>23, <1>24,
     <1>25, <1>26 DEF Next, Call, Watch, Script, UpdateScript, RestoreScript

\* The reservation covers the call and every script of the api that runs.
LEMMA CallsKeeps ==
  ASSUME IInv, [Next]_vars
  PROVE  Calls'
<1> USE PanelUpdateAssumption DEF IInv, Typed, Calls, Alone, Midway, Unfinished, JobsOK,
        JobType, ProcessOK, None, process, panel, disk, history, restore, ghosts
<1>1. CASE Boot
  BY <1>1 DEF Boot, Larger
<1>2. CASE Crash
  BY <1>2 DEF Crash, EndProcess, Orphans, NoCall, Serves
<1>3. CASE PowerLoss
  BY <1>3 DEF PowerLoss, EndProcess, NoCall, NoJob
<1>4. CASE CountPending
  <2>1. CASE Release
    BY <1>4, <2>1 DEF CountPending, Release, NoCall
  <2>2. CASE call' = [call EXCEPT !.at = "dump"] /\ Hold
    BY <1>4, <2>2 DEF CountPending, Hold
  <2>3. CASE call' = NoCall /\ Hold
    BY <1>4, <2>3 DEF CountPending, Hold, NoCall
  <2> QED
    BY <1>4, <2>1, <2>2, <2>3 DEF CountPending
<1>5. CASE TakeDump
  BY <1>5 DEF TakeDump, Snapshot
<1>6. CASE InsertRow
  BY <1>6 DEF InsertRow
<1>7. CASE SnapshotFails
  BY <1>7 DEF SnapshotFails, Release, NoCall, NoFile
<1>8. CASE Spawn
  BY <1>8, SpawnIs
<1>9. CASE \E v \in Versions : Reserve(v)
  BY <1>9 DEF Reserve, Serves
<1>10. CASE \E s \in Snapshots : Rollback(s)
  BY <1>10 DEF Rollback, Launch, Serves
<1>11. CASE WatchVerdict
  BY <1>11, WatchLeaves
<1>12. CASE WatchTimesOut
  BY <1>12 DEF WatchTimesOut, WatchEnds, StampFailed, Orphans
<1>13. CASE \E j \in Job : HandoffFails(j)
  BY <1>13 DEF HandoffFails, WatchEnds, StampFailed, NoJob
<1>14. CASE \E j \in Job : PrepareFails(j)
  BY <1>14 DEF PrepareFails, Update, Step, NoJob, Verdict
<1>15. CASE \E j \in Job : StopForSwap(j)
  BY <1>15 DEF StopForSwap, StopApiOf, EndProcess, Orphans, NoCall
<1>16. CASE \E j \in Job : Swap(j)
  BY <1>16 DEF Swap, Update, Step, NoJob
<1>17. CASE \E j \in Job : SwapFails(j)
  BY <1>17 DEF SwapFails, Update, Step, NoJob, Verdict, StartApi
<1>18. CASE \E j \in Job : StartNew(j)
  BY <1>18 DEF StartNew, Update, Step, NoJob, StartApi
<1>19. CASE \E j \in Job : HealthOk(j)
  BY <1>19 DEF HealthOk, Update, Step, NoJob, Verdict
<1>20. CASE \E j \in Job : HealthFails(j)
  BY <1>20 DEF HealthFails, StopApiOf, EndProcess, Orphans, NoCall
<1>21. CASE \E j \in Job : PutBack(j)
  BY <1>21 DEF PutBack, Update, Step, NoJob, Verdict, StartApi
<1>22. CASE \E j \in Job : VerifyFails(j)
  BY <1>22 DEF VerifyFails, Restore, Step, NoJob
<1>23. CASE \E j \in Job : StopForRestore(j)
  BY <1>23 DEF StopForRestore, StopApiOf, EndProcess, Orphans, NoCall
<1>24. CASE \E j \in Job : RestoreFails(j)
  BY <1>24 DEF RestoreFails, Restore, Step, NoJob, OnExit, StartApi,
      RollbackWouldBeUndone
<1>25. CASE \E j \in Job : DbCommit(j)
  BY <1>25 DEF DbCommit, Restore, Step, NoJob
<1>26. CASE \E j \in Job : RecordRollback(j)
  BY <1>26 DEF RecordRollback, Restore, Step, NoJob
<1>27. CASE \E j \in Job : RevertApi(j)
  BY <1>27 DEF RevertApi, Restore, Step, NoJob
<1>28. CASE \E j \in Job : SkipApi(j)
  BY <1>28 DEF SkipApi, Restore, Step, NoJob
<1>29. CASE \E j \in Job : StartRestored(j)
  BY <1>29 DEF StartRestored, Restore, Step, NoJob, StartApi
<1>30. CASE \E j \in Job : RestoreEnds(j)
  BY <1>30 DEF RestoreEnds, Restore, Step, NoJob
<1>31. CASE \/ ManualSnapshot \/ (\E s \in Snapshots : Age(s))
            \/ (\E s \in Snapshots : DeleteSnapshot(s)) \/ UNCHANGED vars
  BY <1>31 DEF ManualSnapshot, Snapshot, Serves, Age, DeleteSnapshot, NoFile, NoRow,
      vars
<1> QED
  BY <1>1, <1>2, <1>3, <1>4, <1>5, <1>6, <1>7, <1>8, <1>9, <1>10, <1>11, <1>12, <1>13,
     <1>14, <1>15, <1>16, <1>17, <1>18, <1>19, <1>20, <1>21, <1>22, <1>23, <1>24,
     <1>25, <1>26, <1>27, <1>28, <1>29, <1>30, <1>31 DEF Next, Call, Watch, Script,
     UpdateScript, RestoreScript

\* Only the script that is in between, or nobody, has a restore half done.
LEMMA HalfWayKeeps ==
  ASSUME IInv, [Next]_vars
  PROVE  HalfWay'
<1> USE PanelUpdateAssumption DEF IInv, Typed, HalfWay, Alone, Midway, Unfinished,
        Calls, Restores, JobsOK, JobType, None, process, panel, disk, history, restore,
        ghosts
<1>1. CASE Boot
  BY <1>1 DEF Boot, Larger
<1>2. CASE Crash
  BY <1>2 DEF Crash, EndProcess, Orphans, NoCall, Serves
<1>3. CASE PowerLoss
  BY <1>3 DEF PowerLoss, EndProcess, NoCall, NoJob
<1>4. CASE Spawn
  BY <1>4, SpawnIs
<1>5. CASE \E s \in Snapshots : Rollback(s)
  BY <1>5 DEF Rollback, Launch, Serves
<1>6. CASE WatchVerdict
  BY <1>6, WatchLeaves
<1>7. CASE WatchTimesOut
  BY <1>7 DEF WatchTimesOut, WatchEnds, StampFailed, Orphans
<1>8. CASE \E j \in Job : HandoffFails(j)
  BY <1>8 DEF HandoffFails, WatchEnds, StampFailed, NoJob
<1>9. CASE \E j \in Job : PrepareFails(j)
  BY <1>9 DEF PrepareFails, Update, Step, NoJob, Verdict
<1>10. CASE \E j \in Job : StopForSwap(j)
  BY <1>10 DEF StopForSwap, StopApiOf, EndProcess, Orphans, NoCall
<1>11. CASE \E j \in Job : Swap(j)
  BY <1>11 DEF Swap, Update, Step, NoJob
<1>12. CASE \E j \in Job : SwapFails(j)
  BY <1>12 DEF SwapFails, Update, Step, NoJob, Verdict, StartApi
<1>13. CASE \E j \in Job : StartNew(j)
  BY <1>13 DEF StartNew, Update, Step, NoJob, StartApi
<1>14. CASE \E j \in Job : HealthOk(j)
  BY <1>14 DEF HealthOk, Update, Step, NoJob, Verdict
<1>15. CASE \E j \in Job : HealthFails(j)
  BY <1>15 DEF HealthFails, StopApiOf, EndProcess, Orphans, NoCall
<1>16. CASE \E j \in Job : PutBack(j)
  BY <1>16 DEF PutBack, Update, Step, NoJob, Verdict, StartApi
<1>17. CASE \E j \in Job : VerifyFails(j)
  BY <1>17 DEF VerifyFails, Restore, Step, NoJob
<1>18. CASE \E j \in Job : StopForRestore(j)
  BY <1>18 DEF StopForRestore, StopApiOf, EndProcess, Orphans, NoCall
<1>19. CASE \E j \in Job : RestoreFails(j)
  BY <1>19 DEF RestoreFails, Restore, Step, NoJob, OnExit, StartApi,
      RollbackWouldBeUndone
<1>20. CASE \E j \in Job : DbCommit(j)
  BY <1>20 DEF DbCommit, Restore, Step, NoJob
<1>21. CASE \E j \in Job : RecordRollback(j)
  BY <1>21 DEF RecordRollback, Restore, Step, NoJob
<1>22. CASE \E j \in Job : RevertApi(j)
  BY <1>22 DEF RevertApi, Restore, Step, NoJob
<1>23. CASE \E j \in Job : SkipApi(j)
  BY <1>23 DEF SkipApi, Restore, Step, NoJob
<1>24. CASE \E j \in Job : StartRestored(j)
  BY <1>24 DEF StartRestored, Restore, Step, NoJob, StartApi
<1>25. CASE \E j \in Job : RestoreEnds(j)
  BY <1>25 DEF RestoreEnds, Restore, Step, NoJob
<1>26. CASE \/ CountPending \/ TakeDump \/ InsertRow \/ SnapshotFails \/ ManualSnapshot
            \/ (\E v \in Versions : Reserve(v)) \/ (\E s \in Snapshots : Age(s))
            \/ (\E s \in Snapshots : DeleteSnapshot(s)) \/ UNCHANGED vars
  BY <1>26 DEF CountPending, Release, Hold, NoCall, TakeDump, Snapshot, InsertRow,
      SnapshotFails, NoFile, ManualSnapshot, Serves, Reserve, Age, DeleteSnapshot,
      NoRow, vars
<1> QED
  BY <1>1, <1>2, <1>3, <1>4, <1>5, <1>6, <1>7, <1>8, <1>9, <1>10, <1>11, <1>12, <1>13,
     <1>14, <1>15, <1>16, <1>17, <1>18, <1>19, <1>20, <1>21, <1>22, <1>23, <1>24,
     <1>25, <1>26 DEF Next, Call, Watch, Script, UpdateScript, RestoreScript

\* A restore in between has its snapshot's database in place.
LEMMA RestoresKeeps ==
  ASSUME IInv, [Next]_vars
  PROVE  Restores'
<1> USE PanelUpdateAssumption DEF IInv, Typed, Restores, HalfWay, Alone, Midway,
        Unfinished, Calls, JobsOK, JobType, FilesOK, FileType, None, process, panel,
        disk, history, restore, ghosts
<1>1. CASE Boot
  BY <1>1 DEF Boot, Larger
<1>2. CASE Crash
  BY <1>2 DEF Crash, EndProcess, Orphans, NoCall, Serves
<1>3. CASE PowerLoss
  BY <1>3 DEF PowerLoss, EndProcess, NoCall, NoJob
<1>4. CASE CountPending
  <2>1. UNCHANGED <<db, files, half, lone, jobs>>
    BY <1>4 DEF CountPending
  <2> QED
    BY <2>1
<1>5. CASE TakeDump
  BY <1>5 DEF TakeDump, Snapshot
<1>6. CASE InsertRow
  <2>1. UNCHANGED <<db, files, half, lone, jobs>>
    BY <1>6 DEF InsertRow
  <2> QED
    BY <2>1
<1>7. CASE SnapshotFails
  BY <1>7 DEF SnapshotFails, Release, NoCall, NoFile
<1>8. CASE Spawn
  BY <1>8, SpawnIs
<1>9. CASE ManualSnapshot
  BY <1>9 DEF ManualSnapshot, Snapshot, Serves
<1>10. CASE \E v \in Versions : Reserve(v)
  <2>1. UNCHANGED <<db, files, half, lone, jobs>>
    BY <1>10 DEF Reserve
  <2> QED
    BY <2>1
<1>11. CASE \E s \in Snapshots : Age(s)
  <2>1. UNCHANGED <<db, files, half, lone, jobs>>
    BY <1>11 DEF Age
  <2> QED
    BY <2>1
<1>12. CASE \E s \in Snapshots : DeleteSnapshot(s)
  BY <1>12 DEF DeleteSnapshot, NoFile, NoRow, Serves, Rows
<1>13. CASE \E s \in Snapshots : Rollback(s)
  BY <1>13 DEF Rollback, Launch, Serves
<1>14. CASE WatchVerdict
  <2>1. /\ UNCHANGED <<db, files, half, lone>>
        /\ \A j \in Job : /\ jobs'[j].at = jobs[j].at /\ jobs'[j].kind = jobs[j].kind
                        /\ jobs'[j].snap = jobs[j].snap
    BY <1>14, WatchLeaves
  <2> HIDE DEF Alone, HalfWay, Calls, Unfinished, JobsOK, FilesOK, Typed, SvcOK
  <2> QED
    BY <2>1
<1>15. CASE WatchTimesOut
  BY <1>15 DEF WatchTimesOut, WatchEnds, StampFailed, Orphans
<1>16. CASE \E j \in Job : HandoffFails(j)
  BY <1>16 DEF HandoffFails, WatchEnds, StampFailed, NoJob
<1>17. CASE \E j \in Job : PrepareFails(j)
  BY <1>17 DEF PrepareFails, Update, Step, NoJob, Verdict
<1>18. CASE \E j \in Job : StopForSwap(j)
  BY <1>18 DEF StopForSwap, StopApiOf, EndProcess, Orphans, NoCall
<1>19. CASE \E j \in Job : Swap(j)
  BY <1>19 DEF Swap, Update, Step, NoJob
<1>20. CASE \E j \in Job : SwapFails(j)
  BY <1>20 DEF SwapFails, Update, Step, NoJob, Verdict, StartApi
<1>21. CASE \E j \in Job : StartNew(j)
  BY <1>21 DEF StartNew, Update, Step, NoJob, StartApi
<1>22. CASE \E j \in Job : HealthOk(j)
  BY <1>22 DEF HealthOk, Update, Step, NoJob, Verdict
<1>23. CASE \E j \in Job : HealthFails(j)
  BY <1>23 DEF HealthFails, StopApiOf, EndProcess, Orphans, NoCall
<1>24. CASE \E j \in Job : PutBack(j)
  BY <1>24 DEF PutBack, Update, Step, NoJob, Verdict, StartApi
<1>25. CASE \E j \in Job : VerifyFails(j)
  BY <1>25 DEF VerifyFails, Restore, Step, NoJob
<1>26. CASE \E j \in Job : StopForRestore(j)
  BY <1>26 DEF StopForRestore, StopApiOf, EndProcess, Orphans, NoCall
<1>27. CASE \E j \in Job : RestoreFails(j)
  BY <1>27 DEF RestoreFails, Restore, Step, NoJob, OnExit, StartApi,
      RollbackWouldBeUndone
<1>28. CASE \E j \in Job : DbCommit(j)
  BY <1>28 DEF DbCommit, Restore, Step, NoJob
<1>29. CASE \E j \in Job : RecordRollback(j)
  BY <1>29 DEF RecordRollback, Restore, Step, NoJob
<1>30. CASE \E j \in Job : RevertApi(j)
  BY <1>30 DEF RevertApi, Restore, Step, NoJob
<1>31. CASE \E j \in Job : SkipApi(j)
  BY <1>31 DEF SkipApi, Restore, Step, NoJob
<1>32. CASE \E j \in Job : StartRestored(j)
  BY <1>32 DEF StartRestored, Restore, Step, NoJob, StartApi
<1>33. CASE \E j \in Job : RestoreEnds(j)
  BY <1>33 DEF RestoreEnds, Restore, Step, NoJob
<1>34. CASE UNCHANGED vars
  <2>1. UNCHANGED <<db, files, half, lone, jobs>>
    BY <1>34 DEF vars
  <2> QED
    BY <2>1
<1> QED
  BY <1>1, <1>2, <1>3, <1>4, <1>5, <1>6, <1>7, <1>8, <1>9, <1>10, <1>11, <1>12, <1>13,
     <1>14, <1>15, <1>16, <1>17, <1>18, <1>19, <1>20, <1>21, <1>22, <1>23, <1>24,
     <1>25, <1>26, <1>27, <1>28, <1>29, <1>30, <1>31, <1>32, <1>33, <1>34 DEF Next,
     Call, Watch, Script, UpdateScript, RestoreScript

\* What is installed is no newer than the database where it may boot over it.
LEMMA FitsKeeps ==
  ASSUME IInv, [Next]_vars
  PROVE  Fits'
<1> USE PanelUpdateAssumption DEF IInv, Typed, Fits, HalfWay, Alone, Midway, Unfinished,
        Calls, Restores, Forgets, JobsOK, JobType, FilesOK, FileType, DiskOK, Versions,
        None, process, panel, disk, history, restore, ghosts
<1>1. CASE Boot
  BY <1>1 DEF Boot, Larger
<1>2. CASE Crash
  BY <1>2 DEF Crash, EndProcess, Orphans, NoCall, Serves
<1>3. CASE PowerLoss
  BY <1>3 DEF PowerLoss, EndProcess, NoCall, NoJob
<1>4. CASE TakeDump
  BY <1>4 DEF TakeDump, Snapshot
<1>5. CASE SnapshotFails
  BY <1>5 DEF SnapshotFails, Release, NoCall, NoFile
<1>6. CASE Spawn
  BY <1>6, SpawnIs
<1>7. CASE ManualSnapshot
  BY <1>7 DEF ManualSnapshot, Snapshot, Serves
<1>8. CASE \E s \in Snapshots : DeleteSnapshot(s)
  BY <1>8 DEF DeleteSnapshot, NoFile, NoRow, Serves, Rows
<1>9. CASE \E s \in Snapshots : Rollback(s)
  BY <1>9 DEF Rollback, Launch, Serves
<1>10. CASE \E j \in Job : StopForSwap(j)
  BY <1>10 DEF StopForSwap, StopApiOf, EndProcess, Orphans, NoCall
<1>11. CASE \E j \in Job : Swap(j)
  BY <1>11 DEF Swap, Update, Step, NoJob
<1>12. CASE \E j \in Job : SwapFails(j)
  BY <1>12 DEF SwapFails, Update, Step, NoJob, Verdict, StartApi
<1>13. CASE \E j \in Job : StartNew(j)
  BY <1>13 DEF StartNew, Update, Step, NoJob, StartApi
<1>14. CASE \E j \in Job : HealthFails(j)
  BY <1>14 DEF HealthFails, StopApiOf, EndProcess, Orphans, NoCall
<1>15. CASE \E j \in Job : PutBack(j)
  BY <1>15 DEF PutBack, Update, Step, NoJob, Verdict, StartApi
<1>16. CASE \E j \in Job : StopForRestore(j)
  BY <1>16 DEF StopForRestore, StopApiOf, EndProcess, Orphans, NoCall
<1>17. CASE \E j \in Job : RestoreFails(j)
  BY <1>17 DEF RestoreFails, Restore, Step, NoJob, OnExit, StartApi,
      RollbackWouldBeUndone
<1>18. CASE \E j \in Job : DbCommit(j)
  BY <1>18 DEF DbCommit, Restore, Step, NoJob
<1>19. CASE \E j \in Job : RevertApi(j)
  <2>1. PICK j \in Job : RevertApi(j)
    BY <1>19
  <2>2. jobs[j].at = "recorded" /\ UNCHANGED <<svc, db, files, lone, torn, restored>>
    BY <2>1 DEF RevertApi, Restore, Step
  <2>3. lone => svc = "stopped" /\ db = files[jobs[j].snap].db
    BY <2>2
  <2>4. jobs[j].snap \in Snapshots
    BY <2>1, <2>2 DEF Tarballs, Meant, JobsOK, JobType, RevertApi, Restore, Step
  <2>5. lone => binary' <= db
    BY <2>1, <2>3, <2>4 DEF RevertApi
  <2> QED
    BY <2>2, <2>3, <2>5
<1>20. CASE \E j \in Job : StartRestored(j)
  BY <1>20 DEF StartRestored, Restore, Step, NoJob, StartApi
<1>21. CASE \/ CountPending \/ InsertRow \/ (\E v \in Versions : Reserve(v))
            \/ (\E s \in Snapshots : Age(s)) \/ WatchVerdict \/ WatchTimesOut
            \/ (\E j \in Job : HandoffFails(j)) \/ (\E j \in Job : PrepareFails(j))
            \/ (\E j \in Job : HealthOk(j)) \/ (\E j \in Job : VerifyFails(j))
            \/ (\E j \in Job : RecordRollback(j)) \/ (\E j \in Job : SkipApi(j))
            \/ (\E j \in Job : RestoreEnds(j)) \/ UNCHANGED vars
  BY <1>21 DEF CountPending, Release, Hold, NoCall, InsertRow, Reserve, Serves, Age,
      WatchVerdict, WatchEnds, StampFailed, Orphans, WatchTimesOut, HandoffFails,
      NoJob, PrepareFails, Update, Step, Verdict, HealthOk, VerifyFails, Restore,
      RecordRollback, SkipApi, RestoreEnds, vars
<1> QED
  BY <1>1, <1>2, <1>3, <1>4, <1>5, <1>6, <1>7, <1>8, <1>9, <1>10, <1>11, <1>12, <1>13,
     <1>14, <1>15, <1>16, <1>17, <1>18, <1>19, <1>20, <1>21 DEF Next, Call, Watch,
     Script, UpdateScript, RestoreScript

\* An update at the new release has forgotten the rollback.
LEMMA ForgetsKeeps ==
  ASSUME IInv, [Next]_vars
  PROVE  Forgets'
<1> USE PanelUpdateAssumption DEF IInv, Typed, Forgets, HalfWay, Alone, Midway,
        Unfinished, Calls, JobsOK, JobType, None, process, panel, disk, history,
        restore, ghosts
<1>1. CASE Crash
  BY <1>1 DEF Crash, EndProcess, Orphans, NoCall, Serves
<1>2. CASE PowerLoss
  BY <1>2 DEF PowerLoss, EndProcess, NoCall, NoJob
<1>3. CASE Spawn
  BY <1>3, SpawnIs
<1>4. CASE \E s \in Snapshots : Rollback(s)
  BY <1>4 DEF Rollback, Launch, Serves
<1>5. CASE WatchVerdict
  BY <1>5, WatchLeaves
<1>6. CASE WatchTimesOut
  BY <1>6 DEF WatchTimesOut, WatchEnds, StampFailed, Orphans
<1>7. CASE \E j \in Job : HandoffFails(j)
  BY <1>7 DEF HandoffFails, WatchEnds, StampFailed, NoJob
<1>8. CASE \E j \in Job : PrepareFails(j)
  BY <1>8 DEF PrepareFails, Update, Step, NoJob, Verdict
<1>9. CASE \E j \in Job : StopForSwap(j)
  BY <1>9 DEF StopForSwap, StopApiOf, EndProcess, Orphans, NoCall
<1>10. CASE \E j \in Job : Swap(j)
  BY <1>10 DEF Swap, Update, Step, NoJob
<1>11. CASE \E j \in Job : SwapFails(j)
  BY <1>11 DEF SwapFails, Update, Step, NoJob, Verdict, StartApi
<1>12. CASE \E j \in Job : StartNew(j)
  BY <1>12 DEF StartNew, Update, Step, NoJob, StartApi
<1>13. CASE \E j \in Job : HealthOk(j)
  BY <1>13 DEF HealthOk, Update, Step, NoJob, Verdict
<1>14. CASE \E j \in Job : HealthFails(j)
  BY <1>14 DEF HealthFails, StopApiOf, EndProcess, Orphans, NoCall
<1>15. CASE \E j \in Job : PutBack(j)
  BY <1>15 DEF PutBack, Update, Step, NoJob, Verdict, StartApi
<1>16. CASE \E j \in Job : VerifyFails(j)
  BY <1>16 DEF VerifyFails, Restore, Step, NoJob
<1>17. CASE \E j \in Job : StopForRestore(j)
  BY <1>17 DEF StopForRestore, StopApiOf, EndProcess, Orphans, NoCall
<1>18. CASE \E j \in Job : RestoreFails(j)
  BY <1>18 DEF RestoreFails, Restore, Step, NoJob, OnExit, StartApi,
      RollbackWouldBeUndone
<1>19. CASE \E j \in Job : DbCommit(j)
  BY <1>19 DEF DbCommit, Restore, Step, NoJob
<1>20. CASE \E j \in Job : RecordRollback(j)
  BY <1>20 DEF RecordRollback, Restore, Step, NoJob
<1>21. CASE \E j \in Job : RevertApi(j)
  BY <1>21 DEF RevertApi, Restore, Step, NoJob
<1>22. CASE \E j \in Job : SkipApi(j)
  BY <1>22 DEF SkipApi, Restore, Step, NoJob
<1>23. CASE \E j \in Job : StartRestored(j)
  BY <1>23 DEF StartRestored, Restore, Step, NoJob, StartApi
<1>24. CASE \E j \in Job : RestoreEnds(j)
  BY <1>24 DEF RestoreEnds, Restore, Step, NoJob
<1>25. CASE \/ Boot \/ CountPending \/ TakeDump \/ InsertRow \/ SnapshotFails
            \/ ManualSnapshot \/ (\E v \in Versions : Reserve(v))
            \/ (\E s \in Snapshots : Age(s)) \/ (\E s \in Snapshots : DeleteSnapshot(s))
            \/ UNCHANGED vars
  BY <1>25 DEF Boot, CountPending, Release, Hold, NoCall, TakeDump, Snapshot,
      InsertRow, SnapshotFails, NoFile, ManualSnapshot, Serves, Reserve, Age,
      DeleteSnapshot, NoRow, vars
<1> QED
  BY <1>1, <1>2, <1>3, <1>4, <1>5, <1>6, <1>7, <1>8, <1>9, <1>10, <1>11, <1>12, <1>13,
     <1>14, <1>15, <1>16, <1>17, <1>18, <1>19, <1>20, <1>21, <1>22, <1>23, <1>24,
     <1>25 DEF Next, Call, Watch, Script, UpdateScript, RestoreScript

\* Only Boot could migrate a restored database forward.
LEMMA RollbackHoldsKeeps ==
  ASSUME IInv, [Next]_vars
  PROVE  RollbackHolds'
<1> USE PanelUpdateAssumption DEF IInv, Typed, RollbackHolds, HalfWay, Fits, Restores,
        Alone, Midway, Unfinished, DiskOK, Versions, JobsOK, JobType, None, process,
        panel, disk, history, restore, ghosts
<1>1. CASE Boot
  <2>1. svc = "starting" /\ db' = Larger(db, binary) /\ UNCHANGED <<lone, torn, restored>>
    BY <1>1 DEF Boot
  <2>2. lone => ~half
    BY <2>1
  <2>3. lone /\ ~torn /\ restored # None => binary <= db
    BY <2>2 DEF GhostsOK
  <2>4. lone /\ ~torn /\ restored # None => db' = db
    BY <2>1, <2>3 DEF Larger
  <2> QED
    BY <2>1, <2>4
<1>2. CASE PowerLoss
  BY <1>2 DEF PowerLoss, EndProcess, NoCall, NoJob
<1>3. CASE Spawn
  BY <1>3, SpawnIs
<1>4. CASE \E s \in Snapshots : Rollback(s)
  BY <1>4 DEF Rollback, Launch, Serves
<1>5. CASE \E j \in Job : Swap(j)
  BY <1>5 DEF Swap, Update, Step, NoJob
<1>6. CASE \E j \in Job : DbCommit(j)
  BY <1>6 DEF DbCommit, Restore, Step, NoJob
<1>7. CASE \/ Crash \/ CountPending \/ TakeDump \/ InsertRow \/ SnapshotFails
           \/ ManualSnapshot \/ (\E v \in Versions : Reserve(v))
           \/ (\E s \in Snapshots : Age(s)) \/ (\E s \in Snapshots : DeleteSnapshot(s))
           \/ WatchVerdict \/ WatchTimesOut \/ (\E j \in Job : HandoffFails(j))
           \/ (\E j \in Job : PrepareFails(j)) \/ (\E j \in Job : StopForSwap(j))
           \/ (\E j \in Job : SwapFails(j)) \/ (\E j \in Job : StartNew(j))
           \/ (\E j \in Job : HealthOk(j)) \/ (\E j \in Job : HealthFails(j))
           \/ (\E j \in Job : PutBack(j)) \/ (\E j \in Job : VerifyFails(j))
           \/ (\E j \in Job : StopForRestore(j)) \/ (\E j \in Job : RestoreFails(j))
           \/ (\E j \in Job : RecordRollback(j)) \/ (\E j \in Job : RevertApi(j))
           \/ (\E j \in Job : SkipApi(j)) \/ (\E j \in Job : StartRestored(j))
           \/ (\E j \in Job : RestoreEnds(j)) \/ UNCHANGED vars
  BY <1>7 DEF Crash, EndProcess, Orphans, NoCall, Serves, CountPending, Release,
      Hold, TakeDump, Snapshot, InsertRow, SnapshotFails, NoFile, ManualSnapshot,
      Reserve, Age, DeleteSnapshot, NoRow, WatchVerdict, WatchEnds, StampFailed,
      WatchTimesOut, HandoffFails, NoJob, PrepareFails, Update, Step, Verdict,
      StopForSwap, StopApiOf, SwapFails, StartApi, StartNew, HealthOk, HealthFails,
      PutBack, VerifyFails, Restore, StopForRestore, RestoreFails, OnExit,
      RollbackWouldBeUndone, RecordRollback, RevertApi, SkipApi, StartRestored,
      RestoreEnds, vars
<1> QED
  BY <1>1, <1>2, <1>3, <1>4, <1>5, <1>6, <1>7 DEF Next, Call, Watch, Script,
     UpdateScript, RestoreScript

-----------------------------------------------------------------------------
LEMMA TypeParts == Typed <=> TypeOK
  BY DEF Typed, TypeOK, SvcOK, DiskOK, ProcessOK, RowsOK, TakenOK, FilesOK, FileType,
         JobsOK, JobType, GhostsOK

LEMMA Initially == Init => IInv
<1> SUFFICES ASSUME Init PROVE IInv
  OBVIOUS
<1> USE DEF Init
<1>1. 1 \in Versions /\ None \notin Versions /\ None \in Versions \cup {None}
  BY PanelUpdateAssumption DEF Versions, None
<1>2. /\ [s \in Snapshots |-> NoRow] \in RowsType
      /\ [s \in Snapshots |-> NoFile] \in [Snapshots -> FileType]
  BY NoneTyped DEF RowsType
<1>3. NoCall.at = "none" /\ NoJob.at = "done" /\ NoJob \in JobType
  BY NoneTyped DEF NoCall, NoJob
<1>4. SvcOK /\ DiskOK /\ RowsOK /\ FilesOK
  BY <1>1, <1>2 DEF SvcOK, DiskOK, RowsOK, FilesOK, None
<1>5. ProcessOK
  BY <1>1 DEF ProcessOK, NoCall, None
<1>6. JobsOK /\ \A j \in Job : jobs[j].at = "done"
  BY <1>3 DEF JobsOK
<1>7. TakenOK /\ GhostsOK
  <2>1. MaxSnapshots \in Nat /\ MaxFaults \in Nat
    BY PanelUpdateAssumption
  <2>2. TakenOK
    BY <2>1 DEF TakenOK
  <2>3. faults \in 0 .. MaxFaults /\ restored \in Versions \cup {None}
    BY <2>1
  <2>4. half \in BOOLEAN /\ lone \in BOOLEAN /\ torn \in BOOLEAN
    OBVIOUS
  <2> QED
    BY <2>2, <2>3, <2>4 DEF GhostsOK
<1>8. Typed
  BY <1>4, <1>5, <1>6, <1>7 DEF Typed
<1>9. \A s \in Snapshots : files[s] = NoFile /\ files[s].bin <= files[s].db
  BY DEF NoFile, None
<1>10. Tarballs
  BY <1>3, <1>6, <1>9 DEF Tarballs, Made, Meant, Asked, Kept
<1>11. Alone /\ Calls /\ HalfWay /\ Restores /\ Forgets
  BY <1>3, <1>6 DEF Alone, Calls, Unfinished, Midway, HalfWay, Restores, Forgets
<1>12. Fits /\ RollbackHolds
  BY <1>9 DEF Fits, RollbackHolds, None
<1> QED
  BY <1>8, <1>10, <1>11, <1>12 DEF IInv

LEMMA StepKeeps == IInv /\ [Next]_vars => IInv'
<1> SUFFICES ASSUME IInv, [Next]_vars PROVE IInv'
  OBVIOUS
<1>1. Typed'
  <2>1. Typed /\ Tarballs
    BY DEF IInv
  <2>2. SvcOK' /\ DiskOK' /\ ProcessOK' /\ RowsOK'
    BY <2>1, SvcTyped, DiskTyped, ProcessTyped, RowsTyped
  <2>3. TakenOK' /\ FilesOK' /\ JobsOK' /\ GhostsOK'
    BY <2>1, TakenTyped, FilesTyped, JobsTyped, GhostsTyped
  <2> QED
    BY <2>2, <2>3 DEF Typed
<1>2. Tarballs'
  BY MadeKeeps, MeantKeeps, AskedKeeps, KeptKeeps DEF Tarballs
<1>3. Alone' /\ Calls' /\ HalfWay' /\ Restores'
  BY AloneKeeps, CallsKeeps, HalfWayKeeps, RestoresKeeps
<1> QED
  BY <1>1, <1>2, <1>3, FitsKeeps, ForgetsKeeps, RollbackHoldsKeeps DEF IInv

\* The strengthening holds in every behaviour.
THEOREM UpdateInvariant == Spec => []IInv
  BY Initially, StepKeeps, PTL DEF Spec

\* Service, disk, memory, rows, tarballs and scripts have their types.
THEOREM UpdateTyped == Spec => []TypeOK
<1>1. IInv => TypeOK
  BY TypeParts DEF IInv
<1> QED
  BY <1>1, UpdateInvariant, PTL

\* restore-snapshot.sh's on_exit: what a rollback put back stays put back.
THEOREM RollbackKept == Spec => []RollbackHolds
<1>1. IInv => RollbackHolds
  BY DEF IInv
<1> QED
  BY <1>1, UpdateInvariant, PTL

\* UpdateState::InFlight: no script is started beside one that the api still has.
LEMMA StepGuards ==
  ASSUME IInv, [Next]_vars, NEW j \in Job, NEW k \in Job,
         lone, jobs[j].at = "done", jobs'[j].at # "done", jobs[k].at # "done"
  PROVE  ~jobs[k].mine
<1> USE PanelUpdateAssumption DEF IInv, Typed, JobsOK
<1>1. SUFFICES ASSUME jobs[k].mine PROVE FALSE
  OBVIOUS
<1>2. inFlight /\ call.at = "none"
  BY <1>1 DEF Calls, Unfinished
<1>3. CASE Spawn
  BY <1>2, <1>3, SpawnIs
<1>4. CASE \E s \in Snapshots : Rollback(s)
  BY <1>2, <1>4 DEF Rollback
<1>5. CASE WatchVerdict
  BY <1>5, WatchLeaves
<1>6. CASE Crash \/ WatchTimesOut
  BY <1>6, OrphansAre DEF Crash, WatchTimesOut
<1>7. CASE \/ Boot \/ CountPending \/ TakeDump \/ InsertRow \/ SnapshotFails
           \/ ManualSnapshot \/ (\E v \in Versions : Reserve(v))
           \/ (\E s \in Snapshots : Age(s))
           \/ (\E s \in Snapshots : DeleteSnapshot(s)) \/ UNCHANGED vars
  <2>1. jobs' = jobs
    BY <1>7 DEF Boot, CountPending, TakeDump, InsertRow, SnapshotFails,
        ManualSnapshot, Reserve, Age, DeleteSnapshot, vars
  <2> QED
    BY <2>1
<1>8. CASE PowerLoss
  BY <1>8 DEF PowerLoss, NoJob
<1>9. CASE \E i \in Job : StopForSwap(i) \/ HealthFails(i) \/ StopForRestore(i)
  <2>1. PICK i \in Job : StopForSwap(i) \/ HealthFails(i) \/ StopForRestore(i)
    BY <1>9
  <2>2. j # i => jobs'[j].at = jobs[j].at
    BY <2>1, OrphansAre DEF StopForSwap, HealthFails, StopForRestore, StopApiOf, Orphans,
           JobType
  <2>3. jobs[i].at # "done"
    BY <2>1 DEF StopForSwap, HealthFails, StopForRestore, StopApiOf
  <2> QED
    BY <2>2, <2>3
<1>10. CASE \E i \in Job : \/ HandoffFails(i) \/ PrepareFails(i) \/ Swap(i)
                           \/ SwapFails(i) \/ StartNew(i) \/ HealthOk(i) \/ PutBack(i)
                           \/ VerifyFails(i) \/ RestoreFails(i) \/ DbCommit(i)
                           \/ RecordRollback(i) \/ RevertApi(i) \/ SkipApi(i)
                           \/ StartRestored(i) \/ RestoreEnds(i)
  <2>1. PICK i \in Job : \/ HandoffFails(i) \/ PrepareFails(i) \/ Swap(i)
                         \/ SwapFails(i) \/ StartNew(i) \/ HealthOk(i) \/ PutBack(i)
                         \/ VerifyFails(i) \/ RestoreFails(i) \/ DbCommit(i)
                         \/ RecordRollback(i) \/ RevertApi(i) \/ SkipApi(i)
                         \/ StartRestored(i) \/ RestoreEnds(i)
    BY <1>10
  <2>2. jobs[i].at # "done" /\ (j # i => jobs'[j].at = jobs[j].at)
    BY <2>1 DEF HandoffFails, PrepareFails, Swap, SwapFails, StartNew, HealthOk,
        PutBack, VerifyFails, RestoreFails, DbCommit, RecordRollback, RevertApi,
        SkipApi, StartRestored, RestoreEnds, Update, Restore, Step
  <2> QED
    BY <2>2
<1> QED
  BY <1>3, <1>4, <1>5, <1>6, <1>7, <1>8, <1>9, <1>10
     DEF Next, Call, Watch, Script, UpdateScript, RestoreScript

\* A second update or rollback waits for the one the api has on its hands.
THEOREM GuardKept == Spec => GuardHolds
<1>1. IInv /\ [Next]_vars =>
        [\A j, k \in Job :
           /\ lone /\ jobs[j].at = "done" /\ jobs'[j].at # "done"
           /\ jobs[k].at # "done"
           => ~jobs[k].mine]_vars
  BY StepGuards
<1> QED
  BY <1>1, UpdateInvariant, PTL DEF Spec, GuardHolds

-----------------------------------------------------------------------------
(* What the panel says of the last update.  A row is denied when it reads    *)
(* rolled back: its outcome is the release it came from, and another one was *)
(* meant.  It belies the binary b when it is the last one with an outcome,   *)
(* nobody doubts it and the release that it says was rolled back is b.       *)

Denied(row) == row.to # None /\ row.to = row.from /\ row.target \notin {row.from, None}
Belies(rs, doubts, b) ==
  \E n \in Snapshots \ doubts :
    /\ Denied(rs[n]) /\ rs[n].target = b
    /\ \A t \in Snapshots : t > n => rs[t].to = None

\* The same, of what is still so when finalize_pending_on_startup has run.
BeliesAtBoot(rs, doubts, b) ==
  \E n \in Snapshots \ doubts :
    /\ Denied(rs[n]) /\ rs[n].target = b
    /\ \A t \in Snapshots : t > n => rs[t].to = None /\ rs[t].target = None

\* An update goes to a newer release than the one it comes from, in the rows as in
\* what the tarballs have of them.
Ascends(row) == row.target # None => row.from # None /\ row.target > row.from
RowsRise == \A s \in Snapshots : Ascends(rows[s])
FilesRise ==
  \A s \in Snapshots : Ascends(files[s]) /\ \A t \in Snapshots : Ascends(files[s].rows[t])
CallRises == call.at # "none" => call.target > running

\* A snapshot that is still to be taken is nobody's yet.
Known ==
  /\ \A s \in Snapshots : s > taken => rows[s] = NoRow
  /\ \A s, t \in Snapshots : t > taken => files[s].rows[t] = NoRow
  /\ \A j \in Unfinished : jobs[j].snap <= taken
  /\ call.snap <= taken

\* An api that is up is the one installed, and what it waits for is the update that
\* runs, before it has stopped anything.
Serving ==
  /\ watched # None => svc = "up"
  /\ lone /\ svc = "up" => running = binary
  /\ lone /\ watched # None =>
       \A j \in Unfinished :
         jobs[j].kind = "update" /\ jobs[j].at = "prepare" /\ jobs[j].snap = watched

Updating == {j \in Unfinished : jobs[j].kind = "update"}

\* The row of the update that is being asked for is the newest one with a release
\* to go to, unless it has been deleted, which puts all the older ones in doubt.
Asks ==
  call.at \in {"insert", "spawn"} =>
    /\ \A t \in Snapshots : t >= call.snap => rows[t].to = None
    /\ call.at = "insert" => rows[call.snap] = NoRow
    /\ call.at = "spawn" =>
         IF rows[call.snap] = NoRow THEN \A t \in Rows : t < call.snap => t \in unsure
         ELSE rows[call.snap].target = call.target
    /\ lone => \A j \in Updating : jobs[j].snap < call.snap

\* update.sh goes up from what is installed, and back to it.
Climbs ==
  lone => \A j \in Updating :
    /\ jobs[j].snap # None
    /\ jobs[j].at \in {"prepare", "stopped", "swapped", "health", "undo"}
    /\ jobs[j].at \in {"prepare", "stopped"} => binary < jobs[j].target
    /\ jobs[j].at = "stopped" => bak = binary
    /\ jobs[j].at \in {"swapped", "health", "undo"} => binary = jobs[j].target /\ bak < binary

\* As long as update.sh runs for snapshot s to release v: its row is not denied
\* without a doubt; without a row all the older ones are in doubt; and a newer row
\* that is denied was for a release beyond v.
Marked(s, v) ==
  /\ s \in Rows => /\ rows[s].target = v
                   /\ rows[s].to = None \/ s \in unsure \/ rows[s].to # rows[s].from
  /\ s \notin Rows => \A t \in Rows : t < s => t \in unsure
  /\ \A t \in Snapshots \ unsure : t > s /\ Denied(rows[t]) => rows[t].target > v
Marks == lone => \A j \in Updating : Marked(jobs[j].snap, jobs[j].target)

\* No row belies what runs, nor what will when the panel comes up, nor what a
\* restore will leave, nor what was installed when a tarball was made.
HonestUp == lone /\ ~torn /\ svc = "up" => ~Belies(rows, unsure, binary)
HonestDown == lone /\ ~torn /\ svc # "up" /\ ~half => ~BeliesAtBoot(rows, unsure, binary)
HonestRestore ==
  lone /\ ~torn => \A j \in Job :
    jobs[j].at \in {"committed", "recorded"} =>
      ~BeliesAtBoot(rows, unsure, files[jobs[j].snap].bin)
HonestFiles ==
  lone /\ ~torn => \A s \in Snapshots :
    files[s] # NoFile => ~BeliesAtBoot(files[s].rows, unsure, files[s].bin)

Reporting ==
  /\ RowsRise /\ FilesRise /\ CallRises /\ Known /\ Serving /\ Asks
  /\ Climbs /\ Marks /\ HonestUp /\ HonestDown /\ HonestRestore /\ HonestFiles

-----------------------------------------------------------------------------
(* Who writes what.                                                         *)

\* The rows and what is in doubt.
LEMMA RowsWritten ==
  ASSUME [Next]_vars
  PROVE  \/ Boot \/ InsertRow \/ ManualSnapshot
         \/ (\E s \in Snapshots : DeleteSnapshot(s)) \/ WatchVerdict \/ WatchTimesOut
         \/ (\E j \in Job : HandoffFails(j)) \/ (\E j \in Job : DbCommit(j))
         \/ (\E j \in Job : RecordRollback(j)) \/ UNCHANGED <<rows, unsure>>
<1>1. CASE \/ Crash \/ PowerLoss \/ CountPending \/ TakeDump \/ SnapshotFails \/ Spawn
           \/ (\E v \in Versions : Reserve(v)) \/ (\E s \in Snapshots : Age(s))
           \/ (\E s \in Snapshots : Rollback(s)) \/ (\E j \in Job : PrepareFails(j))
           \/ (\E j \in Job : StopForSwap(j)) \/ (\E j \in Job : Swap(j))
           \/ (\E j \in Job : SwapFails(j)) \/ (\E j \in Job : StartNew(j))
           \/ (\E j \in Job : HealthOk(j)) \/ (\E j \in Job : HealthFails(j))
           \/ (\E j \in Job : PutBack(j)) \/ (\E j \in Job : VerifyFails(j))
           \/ (\E j \in Job : StopForRestore(j)) \/ (\E j \in Job : RestoreFails(j))
           \/ (\E j \in Job : RevertApi(j)) \/ (\E j \in Job : SkipApi(j))
           \/ (\E j \in Job : StartRestored(j)) \/ (\E j \in Job : RestoreEnds(j))
           \/ UNCHANGED vars
  BY <1>1 DEF Crash, EndProcess, Orphans, NoCall, Serves, PowerLoss, NoJob,
      CountPending, Release, Hold, TakeDump, Snapshot, SnapshotFails, NoFile, Spawn,
      Launch, Reserve, Age, Rollback, PrepareFails, Update, Step, Verdict,
      StopForSwap, StopApiOf, Swap, SwapFails, StartApi, StartNew, HealthOk,
      HealthFails, PutBack, VerifyFails, Restore, StopForRestore, RestoreFails,
      OnExit, RollbackWouldBeUndone, RevertApi, SkipApi, StartRestored, RestoreEnds,
      vars, panel, process, disk, history, restore, ghosts
<1> QED
  BY <1>1
     DEF Next, Call, Watch, Script, UpdateScript, RestoreScript

\* The tarballs.
LEMMA FilesWritten ==
  ASSUME [Next]_vars
  PROVE  \/ TakeDump \/ ManualSnapshot \/ SnapshotFails
         \/ (\E s \in Snapshots : DeleteSnapshot(s)) \/ UNCHANGED files
<1>1. CASE \/ Boot \/ Crash \/ PowerLoss \/ CountPending \/ InsertRow \/ Spawn
           \/ (\E v \in Versions : Reserve(v)) \/ (\E s \in Snapshots : Age(s))
           \/ (\E s \in Snapshots : Rollback(s)) \/ WatchVerdict \/ WatchTimesOut
           \/ (\E j \in Job : HandoffFails(j)) \/ (\E j \in Job : PrepareFails(j))
           \/ (\E j \in Job : StopForSwap(j)) \/ (\E j \in Job : Swap(j))
           \/ (\E j \in Job : SwapFails(j)) \/ (\E j \in Job : StartNew(j))
           \/ (\E j \in Job : HealthOk(j)) \/ (\E j \in Job : HealthFails(j))
           \/ (\E j \in Job : PutBack(j)) \/ (\E j \in Job : VerifyFails(j))
           \/ (\E j \in Job : StopForRestore(j)) \/ (\E j \in Job : RestoreFails(j))
           \/ (\E j \in Job : DbCommit(j)) \/ (\E j \in Job : RecordRollback(j))
           \/ (\E j \in Job : RevertApi(j)) \/ (\E j \in Job : SkipApi(j))
           \/ (\E j \in Job : StartRestored(j)) \/ (\E j \in Job : RestoreEnds(j))
           \/ UNCHANGED vars
  BY <1>1 DEF Boot, Crash, EndProcess, Orphans, NoCall, Serves, PowerLoss, NoJob,
      CountPending, Release, Hold, InsertRow, Spawn, Launch, Reserve, Age, Rollback,
      WatchVerdict, WatchEnds, StampFailed, WatchTimesOut, HandoffFails,
      PrepareFails, Update, Step, Verdict, StopForSwap, StopApiOf, Swap, SwapFails,
      StartApi, StartNew, HealthOk, HealthFails, PutBack, VerifyFails, Restore,
      StopForRestore, RestoreFails, OnExit, RollbackWouldBeUndone, DbCommit,
      RecordRollback, RevertApi, SkipApi, StartRestored, RestoreEnds, vars, panel,
      process, disk, history, restore, ghosts
<1> QED
  BY <1>1
     DEF Next, Call, Watch, Script, UpdateScript, RestoreScript

\* The call.
LEMMA CallWritten ==
  ASSUME [Next]_vars
  PROVE  \/ Crash \/ PowerLoss \/ (\E j \in Job : StopForSwap(j))
         \/ (\E j \in Job : HealthFails(j)) \/ (\E j \in Job : StopForRestore(j))
         \/ CountPending \/ TakeDump \/ InsertRow \/ SnapshotFails \/ Spawn
         \/ (\E v \in Versions : Reserve(v)) \/ UNCHANGED call
<1>1. CASE \/ Boot \/ ManualSnapshot \/ (\E s \in Snapshots : Age(s))
           \/ (\E s \in Snapshots : DeleteSnapshot(s))
           \/ (\E s \in Snapshots : Rollback(s)) \/ WatchVerdict \/ WatchTimesOut
           \/ (\E j \in Job : HandoffFails(j)) \/ (\E j \in Job : PrepareFails(j))
           \/ (\E j \in Job : Swap(j)) \/ (\E j \in Job : SwapFails(j))
           \/ (\E j \in Job : StartNew(j)) \/ (\E j \in Job : HealthOk(j))
           \/ (\E j \in Job : PutBack(j)) \/ (\E j \in Job : VerifyFails(j))
           \/ (\E j \in Job : RestoreFails(j)) \/ (\E j \in Job : DbCommit(j))
           \/ (\E j \in Job : RecordRollback(j)) \/ (\E j \in Job : RevertApi(j))
           \/ (\E j \in Job : SkipApi(j)) \/ (\E j \in Job : StartRestored(j))
           \/ (\E j \in Job : RestoreEnds(j)) \/ UNCHANGED vars
  BY <1>1 DEF Boot, ManualSnapshot, Snapshot, Serves, Age, DeleteSnapshot, NoFile,
      NoRow, Rollback, Launch, WatchVerdict, WatchEnds, StampFailed, Orphans,
      WatchTimesOut, HandoffFails, NoJob, PrepareFails, Update, Step, Verdict, Swap,
      SwapFails, StartApi, StartNew, HealthOk, PutBack, VerifyFails, Restore,
      RestoreFails, OnExit, RollbackWouldBeUndone, DbCommit, RecordRollback,
      RevertApi, SkipApi, StartRestored, RestoreEnds, vars, panel, process, disk,
      history, restore, ghosts
<1> QED
  BY <1>1
     DEF Next, Call, Watch, Script, UpdateScript, RestoreScript

\* What the api waits for.
LEMMA WatchedWritten ==
  ASSUME [Next]_vars
  PROVE  \/ Crash \/ PowerLoss \/ (\E j \in Job : StopForSwap(j))
         \/ (\E j \in Job : HealthFails(j)) \/ (\E j \in Job : StopForRestore(j))
         \/ Spawn \/ WatchVerdict \/ WatchTimesOut \/ (\E j \in Job : HandoffFails(j))
         \/ UNCHANGED watched
<1>1. CASE \/ Boot \/ CountPending \/ TakeDump \/ InsertRow \/ SnapshotFails
           \/ ManualSnapshot \/ (\E v \in Versions : Reserve(v))
           \/ (\E s \in Snapshots : Age(s)) \/ (\E s \in Snapshots : DeleteSnapshot(s))
           \/ (\E s \in Snapshots : Rollback(s)) \/ (\E j \in Job : PrepareFails(j))
           \/ (\E j \in Job : Swap(j)) \/ (\E j \in Job : SwapFails(j))
           \/ (\E j \in Job : StartNew(j)) \/ (\E j \in Job : HealthOk(j))
           \/ (\E j \in Job : PutBack(j)) \/ (\E j \in Job : VerifyFails(j))
           \/ (\E j \in Job : RestoreFails(j)) \/ (\E j \in Job : DbCommit(j))
           \/ (\E j \in Job : RecordRollback(j)) \/ (\E j \in Job : RevertApi(j))
           \/ (\E j \in Job : SkipApi(j)) \/ (\E j \in Job : StartRestored(j))
           \/ (\E j \in Job : RestoreEnds(j)) \/ UNCHANGED vars
  BY <1>1 DEF Boot, CountPending, Release, Hold, NoCall, TakeDump, Snapshot,
      InsertRow, SnapshotFails, NoFile, ManualSnapshot, Serves, Reserve, Age,
      DeleteSnapshot, NoRow, Rollback, Launch, PrepareFails, Update, Step, NoJob,
      Verdict, Swap, SwapFails, StartApi, StartNew, HealthOk, PutBack, VerifyFails,
      Restore, RestoreFails, OnExit, RollbackWouldBeUndone, DbCommit,
      RecordRollback, RevertApi, SkipApi, StartRestored, RestoreEnds, vars, panel,
      process, disk, history, restore, ghosts
<1> QED
  BY <1>1
     DEF Next, Call, Watch, Script, UpdateScript, RestoreScript

\* The binary.
LEMMA BinaryWritten ==
  ASSUME [Next]_vars
  PROVE  \/ (\E j \in Job : Swap(j)) \/ (\E j \in Job : PutBack(j))
         \/ (\E j \in Job : RevertApi(j)) \/ UNCHANGED binary
<1>1. CASE \/ Boot \/ Crash \/ PowerLoss \/ CountPending \/ TakeDump \/ InsertRow
           \/ SnapshotFails \/ Spawn \/ ManualSnapshot
           \/ (\E v \in Versions : Reserve(v)) \/ (\E s \in Snapshots : Age(s))
           \/ (\E s \in Snapshots : DeleteSnapshot(s))
           \/ (\E s \in Snapshots : Rollback(s)) \/ WatchVerdict \/ WatchTimesOut
           \/ (\E j \in Job : HandoffFails(j)) \/ (\E j \in Job : PrepareFails(j))
           \/ (\E j \in Job : StopForSwap(j)) \/ (\E j \in Job : SwapFails(j))
           \/ (\E j \in Job : StartNew(j)) \/ (\E j \in Job : HealthOk(j))
           \/ (\E j \in Job : HealthFails(j)) \/ (\E j \in Job : VerifyFails(j))
           \/ (\E j \in Job : StopForRestore(j)) \/ (\E j \in Job : RestoreFails(j))
           \/ (\E j \in Job : DbCommit(j)) \/ (\E j \in Job : RecordRollback(j))
           \/ (\E j \in Job : SkipApi(j)) \/ (\E j \in Job : StartRestored(j))
           \/ (\E j \in Job : RestoreEnds(j)) \/ UNCHANGED vars
  BY <1>1 DEF Boot, Crash, EndProcess, Orphans, NoCall, Serves, PowerLoss, NoJob,
      CountPending, Release, Hold, TakeDump, Snapshot, InsertRow, SnapshotFails,
      NoFile, Spawn, Launch, ManualSnapshot, Reserve, Age, DeleteSnapshot, NoRow,
      Rollback, WatchVerdict, WatchEnds, StampFailed, WatchTimesOut, HandoffFails,
      PrepareFails, Update, Step, Verdict, StopForSwap, StopApiOf, SwapFails,
      StartApi, StartNew, HealthOk, HealthFails, VerifyFails, Restore,
      StopForRestore, RestoreFails, OnExit, RollbackWouldBeUndone, DbCommit,
      RecordRollback, SkipApi, StartRestored, RestoreEnds, vars, panel, process,
      disk, history, restore, ghosts
<1> QED
  BY <1>1
     DEF Next, Call, Watch, Script, UpdateScript, RestoreScript

\* The one beside it.
LEMMA BakWritten ==
  ASSUME [Next]_vars
  PROVE  \/ (\E j \in Job : StopForSwap(j)) \/ (\E j \in Job : HealthOk(j))
         \/ (\E j \in Job : PutBack(j)) \/ UNCHANGED bak
<1>1. CASE \/ Boot \/ Crash \/ PowerLoss \/ CountPending \/ TakeDump \/ InsertRow
           \/ SnapshotFails \/ Spawn \/ ManualSnapshot
           \/ (\E v \in Versions : Reserve(v)) \/ (\E s \in Snapshots : Age(s))
           \/ (\E s \in Snapshots : DeleteSnapshot(s))
           \/ (\E s \in Snapshots : Rollback(s)) \/ WatchVerdict \/ WatchTimesOut
           \/ (\E j \in Job : HandoffFails(j)) \/ (\E j \in Job : PrepareFails(j))
           \/ (\E j \in Job : Swap(j)) \/ (\E j \in Job : SwapFails(j))
           \/ (\E j \in Job : StartNew(j)) \/ (\E j \in Job : HealthFails(j))
           \/ (\E j \in Job : VerifyFails(j)) \/ (\E j \in Job : StopForRestore(j))
           \/ (\E j \in Job : RestoreFails(j)) \/ (\E j \in Job : DbCommit(j))
           \/ (\E j \in Job : RecordRollback(j)) \/ (\E j \in Job : RevertApi(j))
           \/ (\E j \in Job : SkipApi(j)) \/ (\E j \in Job : StartRestored(j))
           \/ (\E j \in Job : RestoreEnds(j)) \/ UNCHANGED vars
  BY <1>1 DEF Boot, Crash, EndProcess, Orphans, NoCall, Serves, PowerLoss, NoJob,
      CountPending, Release, Hold, TakeDump, Snapshot, InsertRow, SnapshotFails,
      NoFile, Spawn, Launch, ManualSnapshot, Reserve, Age, DeleteSnapshot, NoRow,
      Rollback, WatchVerdict, WatchEnds, StampFailed, WatchTimesOut, HandoffFails,
      PrepareFails, Update, Step, Verdict, Swap, SwapFails, StartApi, StartNew,
      HealthFails, StopApiOf, VerifyFails, Restore, StopForRestore, RestoreFails,
      OnExit, RollbackWouldBeUndone, DbCommit, RecordRollback, RevertApi, SkipApi,
      StartRestored, RestoreEnds, vars, panel, process, disk, history, restore,
      ghosts
<1> QED
  BY <1>1
     DEF Next, Call, Watch, Script, UpdateScript, RestoreScript

\* The service comes up with Boot, and goes with its process.
LEMMA ServiceWritten ==
  ASSUME [Next]_vars
  PROVE  \/ Boot \/ Crash \/ PowerLoss \/ (\E j \in Job : StopForSwap(j))
         \/ (\E j \in Job : HealthFails(j)) \/ (\E j \in Job : StopForRestore(j))
         \/ (UNCHANGED running /\ (svc' = svc \/ (svc = "stopped" /\ svc' = "starting")))
<1>1. CASE \/ (\E j \in Job : SwapFails(j)) \/ (\E j \in Job : PutBack(j))
           \/ (\E j \in Job : StartNew(j))
  BY <1>1 DEF SwapFails, Update, Step, NoJob, Verdict, StartApi, PutBack, StartNew,
      panel, process, disk, history, restore, ghosts
<1>2. CASE \/ (\E j \in Job : RestoreFails(j)) \/ (\E j \in Job : StartRestored(j))
  BY <1>2 DEF RestoreFails, Restore, Step, NoJob, OnExit, StartApi,
      RollbackWouldBeUndone, StartRestored, panel, process, disk, history, restore,
      ghosts
<1>3. CASE \/ CountPending \/ TakeDump \/ InsertRow \/ SnapshotFails \/ Spawn
           \/ ManualSnapshot \/ (\E v \in Versions : Reserve(v))
           \/ (\E s \in Snapshots : Age(s)) \/ (\E s \in Snapshots : DeleteSnapshot(s))
           \/ (\E s \in Snapshots : Rollback(s)) \/ WatchVerdict \/ WatchTimesOut
           \/ (\E j \in Job : HandoffFails(j)) \/ (\E j \in Job : PrepareFails(j))
           \/ (\E j \in Job : Swap(j)) \/ (\E j \in Job : HealthOk(j))
           \/ (\E j \in Job : VerifyFails(j)) \/ (\E j \in Job : DbCommit(j))
           \/ (\E j \in Job : RecordRollback(j)) \/ (\E j \in Job : RevertApi(j))
           \/ (\E j \in Job : SkipApi(j)) \/ (\E j \in Job : RestoreEnds(j))
           \/ UNCHANGED vars
  BY <1>3 DEF CountPending, Release, Hold, NoCall, TakeDump, Snapshot, InsertRow,
      SnapshotFails, NoFile, Spawn, Launch, ManualSnapshot, Serves, Reserve, Age,
      DeleteSnapshot, NoRow, Rollback, WatchVerdict, WatchEnds, StampFailed,
      Orphans, WatchTimesOut, HandoffFails, NoJob, PrepareFails, Update, Step,
      Verdict, Swap, HealthOk, VerifyFails, Restore, DbCommit, RecordRollback,
      RevertApi, SkipApi, RestoreEnds, vars, panel, process, disk, history, restore,
      ghosts
<1> QED
  BY <1>1, <1>2, <1>3
     DEF Next, Call, Watch, Script, UpdateScript, RestoreScript

\* A script goes on, or ends: what it is for does not change.
Moves(j) ==
  \/ jobs'[j].at = jobs[j].at
  \/ StopForSwap(j) \/ Swap(j) \/ DbCommit(j)
  \/ /\ jobs[j].kind = "update"
     /\ jobs[j].at \in {"swapped", "health", "undo"} /\ jobs'[j].at \in {"swapped", "health", "undo"}
  \/ /\ jobs[j].kind = "restore"
     /\ \/ jobs[j].at = "committed" /\ jobs'[j].at = "recorded"
        \/ jobs'[j].at \in {"stopped", "reverted", "health"}
JobsGoOn ==
  \A j \in Job :
    \/ jobs'[j].at = "done"
    \/ /\ jobs[j].at # "done" /\ jobs'[j].kind = jobs[j].kind
       /\ jobs'[j].target = jobs[j].target /\ jobs'[j].snap = jobs[j].snap
       /\ Moves(j)

\* The script that stops the api goes on, the others stay where they are.
LEMMA Stops ==
  ASSUME JobsOK, NEW j \in Job, NEW kind, NEW from, NEW to, StopApiOf(j, kind, from, to)
  PROVE  /\ jobs[j].kind = kind /\ jobs[j].at = from /\ jobs'[j].at = to
         /\ \A i \in Job : /\ i # j => jobs'[i].at = jobs[i].at
                         /\ jobs'[i].kind = jobs[i].kind
                         /\ jobs'[i].target = jobs[i].target
                         /\ jobs'[i].snap = jobs[i].snap
  BY DEF StopApiOf, Orphans, JobsOK, JobType

\* The scripts.
LEMMA JobsWritten ==
  ASSUME Typed, [Next]_vars
  PROVE  \/ Spawn \/ (\E s \in Snapshots : Rollback(s)) \/ JobsGoOn
<1> USE DEF Typed, JobsOK, JobType, JobsGoOn, Moves
<1>1. CASE \/ Crash
  BY <1>1 DEF Crash, EndProcess, Orphans, NoCall, Serves, panel, process, disk,
      history, restore, ghosts
<1>2. CASE \/ PowerLoss
  BY <1>2 DEF PowerLoss, EndProcess, NoCall, NoJob, panel, process, disk, history,
      restore, ghosts
<1>3. CASE \/ WatchVerdict \/ WatchTimesOut
  BY <1>3 DEF WatchVerdict, WatchEnds, StampFailed, Orphans, WatchTimesOut, panel,
      process, disk, history, restore, ghosts
<1>4. CASE \E j \in Job : HandoffFails(j)
  BY <1>4 DEF HandoffFails, WatchEnds, StampFailed, NoJob, panel, process, disk,
      history, restore, ghosts
<1>5. CASE \E j \in Job : PrepareFails(j)
  BY <1>5 DEF PrepareFails, Update, Step, NoJob, Verdict, panel, process, disk,
      history, restore, ghosts
<1>6. CASE \E j \in Job : StopForSwap(j)
  <2>1. PICK j \in Job : StopForSwap(j)
    BY <1>6
  <2>2. StopApiOf(j, "update", "prepare", "stopped")
    BY <2>1 DEF StopForSwap
  <2>3. jobs[j].kind = "update" /\ jobs[j].at = "prepare" /\ jobs'[j].at = "stopped"
    BY <2>2, Stops
  <2>4. \A i \in Job : /\ i # j => jobs'[i].at = jobs[i].at
                     /\ jobs'[i].kind = jobs[i].kind /\ jobs'[i].target = jobs[i].target
                     /\ jobs'[i].snap = jobs[i].snap
    BY <2>2, Stops
  <2> HIDE DEF Typed, JobsOK, JobType
  <2> QED
    BY <2>1, <2>3, <2>4
<1>7. CASE \E j \in Job : Swap(j)
  <2>1. PICK j \in Job : Swap(j)
    BY <1>7
  <2>2. /\ jobs[j].at # "done"
        /\ jobs' = [jobs EXCEPT ![j] = [@ EXCEPT !.at = "swapped"]]
    BY <2>1 DEF Swap, Update, Step
  <2> QED
    BY <2>1, <2>2
<1>8. CASE \E j \in Job : SwapFails(j)
  BY <1>8 DEF SwapFails, Update, Step, NoJob, Verdict, StartApi, panel, process,
      disk, history, restore, ghosts
<1>9. CASE \E j \in Job : StartNew(j)
  BY <1>9 DEF StartNew, Update, Step, NoJob, StartApi, panel, process, disk,
      history, restore, ghosts
<1>10. CASE \E j \in Job : HealthOk(j)
  BY <1>10 DEF HealthOk, Update, Step, NoJob, Verdict, panel, process, disk,
      history, restore, ghosts
<1>11. CASE \E j \in Job : HealthFails(j)
  <2>1. PICK j \in Job : HealthFails(j)
    BY <1>11
  <2>2. StopApiOf(j, "update", "health", "undo")
    BY <2>1 DEF HealthFails
  <2>3. jobs[j].kind = "update" /\ jobs[j].at = "health" /\ jobs'[j].at = "undo"
    BY <2>2, Stops
  <2>4. \A i \in Job : /\ i # j => jobs'[i].at = jobs[i].at
                     /\ jobs'[i].kind = jobs[i].kind /\ jobs'[i].target = jobs[i].target
                     /\ jobs'[i].snap = jobs[i].snap
    BY <2>2, Stops
  <2> HIDE DEF Typed, JobsOK, JobType
  <2> QED
    BY <2>1, <2>3, <2>4
<1>12. CASE \E j \in Job : PutBack(j)
  BY <1>12 DEF PutBack, Update, Step, NoJob, Verdict, StartApi, panel, process,
      disk, history, restore, ghosts
<1>13. CASE \E j \in Job : VerifyFails(j)
  BY <1>13 DEF VerifyFails, Restore, Step, NoJob, panel, process, disk, history,
      restore, ghosts
<1>14. CASE \E j \in Job : StopForRestore(j)
  <2>1. PICK j \in Job : StopForRestore(j)
    BY <1>14
  <2>2. StopApiOf(j, "restore", "verify", "stopped")
    BY <2>1 DEF StopForRestore
  <2>3. jobs[j].kind = "restore" /\ jobs[j].at = "verify" /\ jobs'[j].at = "stopped"
    BY <2>2, Stops
  <2>4. \A i \in Job : /\ i # j => jobs'[i].at = jobs[i].at
                     /\ jobs'[i].kind = jobs[i].kind /\ jobs'[i].target = jobs[i].target
                     /\ jobs'[i].snap = jobs[i].snap
    BY <2>2, Stops
  <2> HIDE DEF Typed, JobsOK, JobType
  <2> QED
    BY <2>1, <2>3, <2>4
<1>15. CASE \E j \in Job : RestoreFails(j)
  BY <1>15 DEF RestoreFails, Restore, Step, NoJob, OnExit, StartApi,
      RollbackWouldBeUndone, panel, process, disk, history, restore, ghosts
<1>16. CASE \E j \in Job : DbCommit(j)
  <2>1. PICK j \in Job : DbCommit(j)
    BY <1>16
  <2>2. /\ jobs[j].at # "done"
        /\ jobs' = [jobs EXCEPT ![j] = [@ EXCEPT !.at = "committed"]]
    BY <2>1 DEF DbCommit, Restore, Step
  <2> QED
    BY <2>1, <2>2
<1>17. CASE \E j \in Job : RecordRollback(j)
  <2>1. PICK j \in Job : RecordRollback(j)
    BY <1>17
  <2>2. /\ jobs[j].kind = "restore" /\ jobs[j].at = "committed"
        /\ jobs' = [jobs EXCEPT ![j] = [@ EXCEPT !.at = "recorded"]]
    BY <2>1 DEF RecordRollback, Restore, Step
  <2> QED
    BY <2>2
<1>18. CASE \/ (\E j \in Job : RevertApi(j)) \/ (\E j \in Job : SkipApi(j))
  BY <1>18 DEF RevertApi, Restore, Step, NoJob, SkipApi, panel, process, disk,
      history, restore, ghosts
<1>19. CASE \/ (\E j \in Job : StartRestored(j)) \/ (\E j \in Job : RestoreEnds(j))
  BY <1>19 DEF StartRestored, Restore, Step, NoJob, StartApi, RestoreEnds, panel,
      process, disk, history, restore, ghosts
<1>20. CASE \/ Boot \/ CountPending \/ TakeDump \/ InsertRow \/ SnapshotFails
            \/ ManualSnapshot \/ (\E v \in Versions : Reserve(v))
            \/ (\E s \in Snapshots : Age(s)) \/ (\E s \in Snapshots : DeleteSnapshot(s))
            \/ UNCHANGED vars
  BY <1>20 DEF Boot, CountPending, Release, Hold, NoCall, TakeDump, Snapshot,
      InsertRow, SnapshotFails, NoFile, ManualSnapshot, Serves, Reserve, Age,
      DeleteSnapshot, NoRow, vars, panel, process, disk, history, restore, ghosts
<1> QED
  BY <1>1, <1>2, <1>3, <1>4, <1>5, <1>6, <1>7, <1>8, <1>9, <1>10, <1>11, <1>12,
      <1>13, <1>14, <1>15, <1>16, <1>17, <1>18, <1>19, <1>20
     DEF Next, Call, Watch,
      Script, UpdateScript, RestoreScript

\* What has overlapped, been cut in two or come into doubt stays so.
LEMMA Grows ==
  ASSUME Typed, [Next]_vars
  PROVE  /\ lone' => lone
         /\ ~torn' => ~torn
         /\ unsure \subseteq unsure'
         /\ taken <= taken'
<1> USE PanelUpdateAssumption DEF Typed, TakenOK, GhostsOK, Snapshots, process, panel,
        disk, history, restore, ghosts
<1>1. CASE Boot
  <2>1. unsure \subseteq unsure'
    BY <1>1 DEF Boot, Finalize
  <2> QED
    BY <1>1, <2>1 DEF Boot
<1>2. CASE PowerLoss
  BY <1>2 DEF PowerLoss, EndProcess, NoCall, NoJob
<1>3. CASE TakeDump
  BY <1>3 DEF TakeDump, Snapshot
<1>4. CASE Spawn
  BY <1>4 DEF Spawn, Launch, NoCall
<1>5. CASE ManualSnapshot
  BY <1>5 DEF ManualSnapshot, Snapshot, Serves
<1>6. CASE \E s \in Snapshots : DeleteSnapshot(s)
  BY <1>6 DEF DeleteSnapshot, NoFile, NoRow, Serves
<1>7. CASE \E s \in Snapshots : Rollback(s)
  BY <1>7 DEF Rollback, Launch, Serves
<1>8. CASE WatchVerdict
  BY <1>8 DEF WatchVerdict, WatchEnds, StampFailed, Orphans
<1>9. CASE WatchTimesOut
  BY <1>9 DEF WatchTimesOut, WatchEnds, StampFailed, Orphans
<1>10. CASE \E j \in Job : HandoffFails(j)
  BY <1>10 DEF HandoffFails, WatchEnds, StampFailed, NoJob
<1>11. CASE \E j \in Job : RecordRollback(j)
  BY <1>11 DEF RecordRollback, Restore, Step, NoJob
<1>12. CASE \E j \in Job : DbCommit(j)
  BY <1>12 DEF DbCommit, Restore, Step, NoJob
<1>13. CASE \E j \in Job : StopForSwap(j)
  BY <1>13 DEF StopForSwap, StopApiOf, EndProcess, Orphans, NoCall
<1>14. CASE \E j \in Job : HealthFails(j)
  BY <1>14 DEF HealthFails, StopApiOf, EndProcess, Orphans, NoCall
<1>15. CASE \E j \in Job : StopForRestore(j)
  BY <1>15 DEF StopForRestore, StopApiOf, EndProcess, Orphans, NoCall
<1>16. CASE \E j \in Job : PutBack(j)
  BY <1>16 DEF PutBack, Update, Step, NoJob, Verdict, StartApi
<1>17. CASE \E j \in Job : RestoreFails(j)
  BY <1>17 DEF RestoreFails, Restore, Step, NoJob, OnExit, StartApi,
      RollbackWouldBeUndone
<1>18. CASE \/ Crash \/ CountPending \/ InsertRow \/ SnapshotFails
            \/ (\E v \in Versions : Reserve(v)) \/ (\E s \in Snapshots : Age(s))
            \/ (\E j \in Job : PrepareFails(j)) \/ (\E j \in Job : Swap(j))
            \/ (\E j \in Job : SwapFails(j)) \/ (\E j \in Job : StartNew(j))
            \/ (\E j \in Job : HealthOk(j)) \/ (\E j \in Job : VerifyFails(j))
            \/ (\E j \in Job : RevertApi(j)) \/ (\E j \in Job : SkipApi(j))
            \/ (\E j \in Job : StartRestored(j)) \/ (\E j \in Job : RestoreEnds(j))
            \/ UNCHANGED vars
  BY <1>18 DEF Crash, EndProcess, Orphans, NoCall, Serves, CountPending, Release,
      Hold, InsertRow, SnapshotFails, NoFile, Reserve, Age, PrepareFails, Update,
      Step, NoJob, Verdict, Swap, SwapFails, StartApi, StartNew, HealthOk,
      VerifyFails, Restore, RevertApi, SkipApi, StartRestored, RestoreEnds, vars
<1> QED
  BY <1>1, <1>2, <1>3, <1>4, <1>5, <1>6, <1>7, <1>8, <1>9, <1>10, <1>11, <1>12, <1>13,
     <1>14, <1>15, <1>16, <1>17, <1>18 DEF Next, Call, Watch, Script, UpdateScript,
     RestoreScript

-----------------------------------------------------------------------------
(* What a write to the rows does to what they belie.                         *)

LEMMA Softer ==
  ASSUME NEW rs, NEW d, NEW b, BeliesAtBoot(rs, d, b)
  PROVE  Belies(rs, d, b)
  BY DEF Belies, BeliesAtBoot

LEMMA Doubted ==
  ASSUME NEW rs, NEW d, NEW d2, NEW b, d \subseteq d2
  PROVE  /\ Belies(rs, d2, b) => Belies(rs, d, b)
         /\ BeliesAtBoot(rs, d2, b) => BeliesAtBoot(rs, d, b)
  BY DEF Belies, BeliesAtBoot

\* A row without an outcome where there was none.
LEMMA Added ==
  ASSUME NEW rs \in RowsType, NEW s \in Snapshots, NEW row, NEW d, NEW b,
         row.to = None, rs[s].to = None
  PROVE  LET rs2 == [rs EXCEPT ![s] = row]
         IN  /\ Belies(rs2, d, b) => Belies(rs, d, b)
             /\ rs[s].target = None /\ BeliesAtBoot(rs2, d, b) => BeliesAtBoot(rs, d, b)
<1> DEFINE rs2 == [rs EXCEPT ![s] = row]
<1>1. \A t \in Snapshots : t # s => rs2[t] = rs[t]
  BY DEF RowsType
<1>2. rs2[s] = row
  BY DEF RowsType
<1>3. \A t \in Snapshots : Denied(rs2[t]) => t # s /\ rs2[t] = rs[t]
  BY <1>1, <1>2 DEF Denied
<1>4. \A t \in Snapshots : rs2[t].to = None => rs[t].to = None
  BY <1>1
<1>5. rs[s].target = None => \A t \in Snapshots : rs2[t].target = None => rs[t].target = None
  BY <1>1
<1> HIDE DEF rs2
<1>6. Belies(rs2, d, b) => Belies(rs, d, b)
  BY <1>3, <1>4 DEF Belies
<1>7. rs[s].target = None /\ BeliesAtBoot(rs2, d, b) => BeliesAtBoot(rs, d, b)
  BY <1>3, <1>4, <1>5 DEF BeliesAtBoot
<1> QED
  BY <1>6, <1>7 DEF rs2

\* A row that goes puts the older ones in doubt.
LEMMA Deleted ==
  ASSUME NEW rs \in RowsType, NEW s \in Snapshots, NEW d, NEW d2, NEW b,
         d \subseteq d2, \A t \in Snapshots : rs[t] # NoRow /\ t < s => t \in d2
  PROVE  LET rs2 == [rs EXCEPT ![s] = NoRow]
         IN  Belies(rs2, d2, b) => Belies(rs, d, b)
<1> DEFINE rs2 == [rs EXCEPT ![s] = NoRow]
<1>1. \A t \in Snapshots : t # s => rs2[t] = rs[t]
  BY DEF RowsType
<1>2. rs2[s] = NoRow /\ ~Denied(NoRow)
  BY DEF RowsType, Denied, NoRow
<1>3. \A t \in Snapshots : Denied(rs2[t]) => rs2[t] = rs[t] /\ rs[t] # NoRow /\ t # s
  BY <1>1, <1>2
<1>4. Snapshots \subseteq Nat
  BY PanelUpdateAssumption DEF Snapshots
<1> HIDE DEF rs2
<1>5. ASSUME Belies(rs2, d2, b) PROVE Belies(rs, d, b)
  <2>1. PICK n \in Snapshots \ d2 : /\ Denied(rs2[n]) /\ rs2[n].target = b
                                    /\ \A t \in Snapshots : t > n => rs2[t].to = None
    BY <1>5 DEF Belies
  <2>2. n > s /\ rs[n] = rs2[n] /\ n \notin d
    BY <2>1, <1>3, <1>4
  <2>3. \A t \in Snapshots : t > n => rs[t].to = None
    BY <2>1, <2>2, <1>1, <1>4
  <2> QED
    BY <2>1, <2>2, <2>3 DEF Belies
<1> QED
  BY <1>5 DEF rs2

\* An outcome that is written where it happened: the release that runs.
LEMMA Stamped ==
  ASSUME NEW rs \in RowsType, NEW s \in Snapshots, NEW v \in Versions, NEW d,
         rs[s].to = None
  PROVE  LET rs2 == [rs EXCEPT ![s].to = v]
         IN  Belies(rs2, d, v) => Belies(rs, d, v)
<1> DEFINE rs2 == [rs EXCEPT ![s].to = v]
<1>1. \A t \in Snapshots : t # s => rs2[t] = rs[t]
  BY DEF RowsType
<1>2. rs2[s].to = v /\ rs2[s].from = rs[s].from /\ rs2[s].target = rs[s].target
  BY DEF RowsType, RowType
<1>3. v # None
  BY DEF Versions, None
<1> HIDE DEF rs2
<1>4. ASSUME Belies(rs2, d, v) PROVE Belies(rs, d, v)
  <2>1. PICK n \in Snapshots \ d : /\ Denied(rs2[n]) /\ rs2[n].target = v
                                   /\ \A t \in Snapshots : t > n => rs2[t].to = None
    BY <1>4 DEF Belies
  <2>2. n # s
    BY <2>1, <1>2 DEF Denied
  <2>3. \A t \in Snapshots : t > n => rs[t].to = None
    BY <2>1, <1>1
  <2> QED
    BY <2>1, <2>2, <2>3, <1>1 DEF Belies
<1> QED
  BY <1>4 DEF rs2

\* finalize_pending_on_startup writes the release that boots, or a placeholder, and
\* where it fails the rows before are in doubt.
LEMMA Booted ==
  ASSUME NEW rs \in RowsType, NEW rs2, NEW d, NEW b \in Versions,
         \A s \in Snapshots : Ascends(rs[s]),
         \A s \in Snapshots :
           \/ rs2[s] = rs[s] /\ (rs[s].to # None \/ rs[s].target = None)
           \/ rs2[s] = rs[s] /\ \A t \in Snapshots : rs[t] # NoRow /\ t < s => t \in d
           \/ /\ rs[s].to = None /\ rs[s].target # None
              /\ rs2[s].from = rs[s].from /\ rs2[s].target = rs[s].target
              /\ rs2[s].to \in {b, Abandoned}
  PROVE  Belies(rs2, d, b) => BeliesAtBoot(rs, d, b)
<1>1. b # None /\ Abandoned # None
  BY PanelUpdateAssumption DEF Versions, Abandoned, None
<1>2. ASSUME Belies(rs2, d, b) PROVE BeliesAtBoot(rs, d, b)
  <2>1. PICK n \in Snapshots \ d : /\ Denied(rs2[n]) /\ rs2[n].target = b
                                   /\ \A t \in Snapshots : t > n => rs2[t].to = None
    BY <1>2 DEF Belies
  <2>2. rs[n].from \in Versions \cup {None}
    BY DEF RowsType, RowType
  <2>3. rs2[n] = rs[n]
    BY <2>1, <2>2, PanelUpdateAssumption DEF Denied, Versions, Abandoned, None
  <2>4. rs[n] # NoRow
    BY <2>1, <2>3 DEF Denied, NoRow
  <2>5. \A t \in Snapshots : t > n => rs[t].to = None /\ rs[t].target = None
    BY <2>1, <2>4, <1>1
  <2> QED
    BY <2>1, <2>3, <2>5 DEF BeliesAtBoot
<1> QED
  BY <1>2

-----------------------------------------------------------------------------
(* An update goes up, in every record of it.                                 *)

LEMMA NothingAscends == Ascends(NoRow) /\ Ascends(NoFile)
  BY DEF Ascends, NoRow, NoFile

LEMMA RowsRiseKeeps ==
  ASSUME IInv, Reporting, [Next]_vars
  PROVE  RowsRise'
<1> USE DEF RowsRise, IInv, Typed, RowsOK
<1>1. \A s \in Snapshots : Ascends(rows[s])
  BY DEF Reporting
<1>2. rows \in RowsType
  OBVIOUS
<1>3. ASSUME NEW s \in Snapshots, NEW v, rows' = [rows EXCEPT ![s].to = v]
      PROVE  RowsRise'
  BY <1>1, <1>2, <1>3 DEF Ascends, RowsType, RowType
<1>4. ASSUME NEW s \in Snapshots, NEW row, rows' = [rows EXCEPT ![s] = row], Ascends(row)
      PROVE  RowsRise'
  BY <1>1, <1>2, <1>4 DEF RowsType
<1>5. CASE UNCHANGED rows
  BY <1>1, <1>5
<1> HIDE DEF RowsRise
<1>6. CASE Boot
  <2>1. PICK S \in SUBSET Pending : Finalize(S)
    BY <1>6 DEF Boot
  <2>2. \A s \in Snapshots : rows'[s].from = rows[s].from /\ rows'[s].target = rows[s].target
    BY <1>2, <2>1 DEF Finalize, RowsType, RowType
  <2> QED
    BY <2>2, <1>1 DEF RowsRise, Ascends
<1>7. CASE InsertRow
  <2>1. call.at # "none" /\ call.target > running /\ svc = "up"
    BY <1>7 DEF InsertRow, Reporting, CallRises, Calls
  <2>2. running # None /\ call.snap \in Snapshots
    BY <2>1, <1>7 DEF SvcOK, Tarballs, Asked, ProcessOK, InsertRow
  <2>3. Ascends([from |-> running, to |-> None, target |-> call.target])
    BY <2>1, <2>2 DEF Ascends
  <2> QED
    BY <2>2, <2>3, <1>4, <1>7 DEF InsertRow
<1>8. CASE ManualSnapshot
  <2>1. Ascends([from |-> running, to |-> None, target |-> None])
    BY DEF Ascends
  <2> QED
    BY <2>1, <1>4, <1>8 DEF ManualSnapshot, Snapshot
<1>9. CASE \E s \in Snapshots : DeleteSnapshot(s)
  BY <1>4, <1>9, NothingAscends DEF DeleteSnapshot
<1>10. CASE WatchVerdict \/ WatchTimesOut \/ \E j \in Job : HandoffFails(j)
  <2>1. watched \in Snapshots
    BY <1>10 DEF WatchVerdict, WatchTimesOut, HandoffFails, WatchEnds, ProcessOK
  <2>2. rows' = rows \/ rows' = [rows EXCEPT ![watched].to = running]
    BY <1>10 DEF WatchVerdict, WatchTimesOut, HandoffFails, StampFailed
  <2> QED
    BY <2>1, <2>2, <1>3, <1>5
<1>11. CASE \E j \in Job : DbCommit(j)
  <2>1. PICK j \in Job : DbCommit(j)
    BY <1>11
  <2>2. jobs[j].snap \in Snapshots /\ rows' = files[jobs[j].snap].rows
    BY <2>1 DEF DbCommit, Restore, Step, Tarballs, Meant, JobsOK, JobType
  <2> QED
    BY <2>2 DEF Reporting, FilesRise, RowsRise
<1>12. CASE \E j \in Job : RecordRollback(j)
  <2>1. PICK j \in Job : RecordRollback(j)
    BY <1>12
  <2> DEFINE s == jobs[j].snap
  <2>2. s \in Snapshots /\ Ascends(files[s])
    BY <2>1 DEF RecordRollback, Restore, Step, Tarballs, Meant, JobsOK, JobType,
           Reporting, FilesRise
  <2>3. Ascends([from |-> files[s].from, to |-> None, target |-> files[s].target])
    BY <2>2 DEF Ascends
  <2> QED
    BY <2>1, <2>2, <2>3, <1>4, <1>5 DEF RecordRollback
<1> QED
  BY RowsWritten, <1>5, <1>6, <1>7, <1>8, <1>9, <1>10, <1>11, <1>12

LEMMA FilesRiseKeeps ==
  ASSUME IInv, Reporting, [Next]_vars
  PROVE  FilesRise'
<1> USE DEF IInv, Typed, FilesOK
<1> DEFINE Fine(f) == Ascends(f) /\ \A t \in Snapshots : Ascends(f.rows[t])
<1>1. \A s \in Snapshots : Fine(files[s])
  BY DEF Reporting, FilesRise
<1>2. Fine(NoFile)
  BY NothingAscends DEF NoFile
<1>3. ASSUME NEW s \in Snapshots, NEW f, files' = [files EXCEPT ![s] = f], Fine(f)
      PROVE  FilesRise'
  <2>1. \A t \in Snapshots : files'[t] = f \/ files'[t] = files[t]
    BY <1>3
  <2> QED
    BY <2>1, <1>1, <1>3 DEF FilesRise
<1>4. CASE UNCHANGED files
  BY <1>1, <1>4 DEF FilesRise
<1>5. ASSUME NEW s, NEW target, Snapshot(s, target), target # None => target > running,
             running # None
      PROVE  FilesRise'
  <2> DEFINE f == [bin |-> binary, db |-> db, from |-> running, target |-> target, rows |-> rows]
  <2>1. s \in Snapshots /\ files' = [files EXCEPT ![s] = f]
    BY <1>5 DEF Snapshot
  <2>2. Ascends(f)
    BY <1>5 DEF Ascends
  <2>3. \A t \in Snapshots : Ascends(f.rows[t])
    BY DEF Reporting, RowsRise
  <2> QED
    BY <2>1, <2>2, <2>3, <1>3
<1> HIDE DEF Fine
<1>6. CASE TakeDump
  BY <1>5, <1>6 DEF TakeDump, Reporting, CallRises, Calls, SvcOK
<1>7. CASE ManualSnapshot
  BY <1>5, <1>7 DEF ManualSnapshot, Serves, SvcOK
<1>8. CASE SnapshotFails
  <2>1. call.snap \in Snapshots \/ call.snap = None
    BY DEF ProcessOK
  <2> QED
    BY <2>1, <1>2, <1>3, <1>4, <1>8 DEF SnapshotFails
<1>9. CASE \E s \in Snapshots : DeleteSnapshot(s)
  BY <1>2, <1>3, <1>9 DEF DeleteSnapshot
<1> QED
  BY FilesWritten, <1>4, <1>6, <1>7, <1>8, <1>9

LEMMA CallRisesKeeps ==
  ASSUME IInv, Reporting, [Next]_vars
  PROVE  CallRises'
<1> USE DEF IInv, Typed, CallRises
<1>1. call.at # "none" => call.target > running /\ svc = "up"
  BY DEF Reporting, Calls
<1>2. CASE call'.at = "none"
  BY <1>2
<1>3. CASE (\E v \in Versions : Reserve(v))
  BY <1>3 DEF Reserve
<1>4. CASE /\ call'.at # "none"
           /\ \/ CountPending \/ TakeDump \/ InsertRow
              \/ (UNCHANGED <<call, running>>)
  <2>1. running' = running
    BY <1>4 DEF CountPending, TakeDump, InsertRow
  <2>2. call.at # "none" /\ call'.target = call.target
    <3>1. CASE CountPending
      BY <1>4, <3>1 DEF CountPending, Release, NoCall, ProcessOK
    <3>2. CASE TakeDump \/ InsertRow
      BY <3>2 DEF TakeDump, InsertRow, ProcessOK
    <3> QED
      BY <1>4, <3>1, <3>2
  <2> QED
    BY <2>1, <2>2, <1>1
<1>5. CASE Crash \/ PowerLoss \/ SnapshotFails \/ Spawn
  BY <1>2, <1>5 DEF Crash, PowerLoss, SnapshotFails, Spawn, EndProcess, Release, NoCall
<1>6. CASE \E j \in Job : StopForSwap(j) \/ HealthFails(j) \/ StopForRestore(j)
  BY <1>2, <1>6 DEF StopForSwap, HealthFails, StopForRestore, StopApiOf, EndProcess, NoCall
<1>7. CASE Boot
  BY <1>1, <1>2, <1>7 DEF Boot, process
<1> QED
  BY CallWritten, ServiceWritten, <1>2, <1>3, <1>4, <1>5, <1>6, <1>7

-----------------------------------------------------------------------------
(* The snapshots in use are those taken.                                     *)

LEMMA KnownKeeps ==
  ASSUME IInv, Reporting, [Next]_vars
  PROVE  Known'
<1> USE DEF IInv, Typed
<1>1. /\ \A s \in Snapshots : s > taken => rows[s] = NoRow
      /\ \A s, t \in Snapshots : t > taken => files[s].rows[t] = NoRow
      /\ \A j \in Unfinished : jobs[j].snap <= taken
      /\ call.snap <= taken
  BY DEF Reporting, Known
<1>2. /\ taken \in Nat /\ taken' \in Nat /\ taken <= taken' /\ Snapshots \subseteq Nat
      /\ \A j \in Job : jobs[j].snap \in Nat
      /\ call.snap \in Nat
  <2>1. taken' \in 0 .. MaxSnapshots
    BY TakenTyped DEF TakenOK
  <2> QED
    BY <2>1, Grows, PanelUpdateAssumption
       DEF TakenOK, Snapshots, JobsOK, JobType, ProcessOK, None
<1>3. \A s \in Snapshots : s > taken' => rows'[s] = NoRow
  <2>1. CASE UNCHANGED rows
    BY <2>1, <1>1, <1>2
  <2>2. ASSUME NEW s \in Snapshots, s <= taken', NEW row, rows' = [rows EXCEPT ![s] = row]
        PROVE  \A t \in Snapshots : t > taken' => rows'[t] = NoRow
    <3>1. \A t \in Snapshots : t > taken' => t # s
      BY <1>2, <2>2
    <3> QED
      BY <3>1, <2>2, <1>1, <1>2 DEF RowsOK, RowsType
  <2>3. CASE Boot
    <3>1. PICK S \in SUBSET Pending : Finalize(S)
      BY <2>3 DEF Boot
    <3> QED
      BY <3>1, <1>1, <1>2 DEF Finalize, Pending, Rows
  <2>4. CASE InsertRow
    BY <2>4, <2>2, <1>1, <1>2 DEF InsertRow, Tarballs, Asked, ProcessOK
  <2>5. CASE ManualSnapshot
    <3> DEFINE row == [from |-> running, to |-> None, target |-> None]
    <3>1. taken' \in Snapshots /\ rows' = [rows EXCEPT ![taken'] = row]
      BY <2>5 DEF ManualSnapshot, Snapshot
    <3>2. taken' <= taken'
      BY <1>2
    <3> HIDE DEF row
    <3> QED
      BY <3>1, <3>2, <2>2
  <2>6. CASE \E s \in Snapshots : DeleteSnapshot(s)
    <3>1. PICK s \in Snapshots : DeleteSnapshot(s)
      BY <2>6
    <3>2. s <= taken'
      BY <3>1, <1>1, <1>2 DEF DeleteSnapshot, Rows
    <3> QED
      BY <3>1, <3>2, <2>2 DEF DeleteSnapshot
  <2>7. CASE WatchVerdict \/ WatchTimesOut \/ \E j \in Job : HandoffFails(j)
    <3>1. rows' = rows \/ (watched \in Pending /\ rows' = [rows EXCEPT ![watched].to = running])
      BY <2>7 DEF WatchVerdict, WatchTimesOut, HandoffFails, StampFailed
    <3>2. CASE watched \in Pending /\ rows' = [rows EXCEPT ![watched].to = running]
      <4>1. watched \in Snapshots /\ watched <= taken'
        BY <3>2, <1>1, <1>2 DEF Pending, Rows
      <4> QED
        BY <3>2, <4>1, <2>2
    <3> QED
      BY <3>1, <3>2, <2>1
  <2>8. CASE \E j \in Job : DbCommit(j)
    <3>1. PICK j \in Job : DbCommit(j)
      BY <2>8
    <3>2. jobs[j].snap \in Snapshots /\ rows' = files[jobs[j].snap].rows /\ taken' = taken
      BY <3>1 DEF DbCommit, Restore, Step, Tarballs, Meant, JobsOK, JobType
    <3> QED
      BY <3>2, <1>1
  <2>9. CASE \E j \in Job : RecordRollback(j)
    <3>1. PICK j \in Job : RecordRollback(j)
      BY <2>9
    <3>2. jobs[j].snap \in Snapshots /\ jobs[j].snap <= taken'
      BY <3>1, <1>1, <1>2 DEF RecordRollback, Restore, Step, Tarballs, Meant, JobsOK, JobType,
             Unfinished
    <3> QED
      BY <3>1, <3>2, <2>1, <2>2 DEF RecordRollback
  <2> QED
    BY RowsWritten, <2>1, <2>3, <2>4, <2>5, <2>6, <2>7, <2>8, <2>9
<1>4. \A s, t \in Snapshots : t > taken' => files'[s].rows[t] = NoRow
  <2>1. CASE UNCHANGED files
    BY <2>1, <1>1, <1>2
  <2>2. \A t \in Snapshots : NoFile.rows[t] = NoRow
    BY DEF NoFile
  <2>3. ASSUME NEW s, NEW f, files' = [files EXCEPT ![s] = f],
               \A t \in Snapshots : t > taken => f.rows[t] = NoRow
        PROVE  \A r, t \in Snapshots : t > taken' => files'[r].rows[t] = NoRow
    <3>1. \A r \in Snapshots : files'[r] = files[r] \/ files'[r] = f
      BY <2>3 DEF FilesOK
    <3>2. \A t \in Snapshots : t > taken' => t > taken
      BY <1>2
    <3> QED
      BY <3>1, <3>2, <2>3, <1>1
  <2>4. CASE TakeDump \/ ManualSnapshot
    <3>1. PICK target : Snapshot(taken + 1, target)
      BY <2>4 DEF TakeDump, ManualSnapshot
    <3> DEFINE f == [bin |-> binary, db |-> db, from |-> running, target |-> target,
                     rows |-> rows]
    <3>2. files' = [files EXCEPT ![taken + 1] = f]
      BY <3>1 DEF Snapshot
    <3>3. \A t \in Snapshots : t > taken => f.rows[t] = NoRow
      BY <1>1
    <3> HIDE DEF f
    <3> QED
      BY <3>2, <3>3, <2>3
  <2>5. CASE SnapshotFails
    BY <2>5, <2>1, <2>2, <2>3 DEF SnapshotFails
  <2>6. CASE \E s \in Snapshots : DeleteSnapshot(s)
    BY <2>6, <2>2, <2>3 DEF DeleteSnapshot
  <2> QED
    BY FilesWritten, <2>1, <2>4, <2>5, <2>6
<1>5. \A j \in Unfinished' : jobs'[j].snap <= taken'
  <2>1. CASE JobsGoOn
    BY <2>1, <1>1, <1>2 DEF JobsGoOn, Unfinished
  <2>2. ASSUME NEW job \in JobType, Launch(job), job.snap <= taken
        PROVE  \A j \in Unfinished' : jobs'[j].snap <= taken'
    <3>1. \A j \in Job : jobs'[j] = jobs[j] \/ jobs'[j] = job
      BY <2>2, Launched
    <3>2. job.snap \in Nat
      BY PanelUpdateAssumption DEF JobType, Snapshots, None
    <3> QED
      BY <3>1, <3>2, <2>2, <1>1, <1>2 DEF Unfinished
  <2>3. CASE Spawn
    <3> DEFINE job == [kind |-> "update", at |-> "prepare", target |-> call.target,
                       snap |-> call.snap, mine |-> TRUE]
    <3>1. job \in JobType
      BY DEF ProcessOK, JobType
    <3>2. CASE UNCHANGED jobs
      BY <3>2, <1>1, <1>2 DEF Unfinished
    <3> QED
      BY <2>3, <3>1, <3>2, <2>2, <1>1 DEF Spawn
  <2>4. CASE \E s \in Snapshots : Rollback(s)
    <3>1. PICK s \in Snapshots : Rollback(s)
      BY <2>4
    <3> DEFINE job == [kind |-> "restore", at |-> "verify", target |-> None, snap |-> s, mine |-> TRUE]
    <3>2. job \in JobType
      BY DEF JobType
    <3>3. s <= taken
      BY <3>1, <1>1, <1>2 DEF Rollback, Rows
    <3> QED
      BY <3>1, <3>2, <3>3, <2>2 DEF Rollback
  <2> QED
    BY JobsWritten, <2>1, <2>3, <2>4
<1>6. call'.snap <= taken'
  <2>1. CASE call'.snap \in {None, call.snap}
    BY <2>1, <1>1, <1>2 DEF None
  <2>2. CASE TakeDump
    BY <2>2, <1>2 DEF TakeDump, Snapshot, ProcessOK
  <2>3. CASE Crash \/ PowerLoss \/ SnapshotFails \/ Spawn
    BY <2>1, <2>3 DEF Crash, PowerLoss, SnapshotFails, Spawn, EndProcess, Release, NoCall
  <2>4. CASE \E j \in Job : StopForSwap(j) \/ HealthFails(j) \/ StopForRestore(j)
    BY <2>1, <2>4 DEF StopForSwap, HealthFails, StopForRestore, StopApiOf, EndProcess, NoCall
  <2>5. CASE InsertRow \/ (\E v \in Versions : Reserve(v)) \/ UNCHANGED call
    BY <2>1, <2>5 DEF InsertRow, Reserve, ProcessOK
  <2>6. CASE CountPending
    BY <2>1, <2>6 DEF CountPending, Release, NoCall, ProcessOK
  <2> QED
    BY CallWritten, <2>2, <2>3, <2>4, <2>5, <2>6
<1> QED
  BY <1>3, <1>4, <1>5, <1>6 DEF Known

LEMMA ServingKeeps ==
  ASSUME IInv, Reporting, [Next]_vars
  PROVE  Serving'
<1> USE DEF IInv, Typed
<1>1. /\ watched # None => svc = "up"
      /\ lone /\ svc = "up" => running = binary
      /\ lone /\ watched # None =>
           \A j \in Unfinished :
             jobs[j].kind = "update" /\ jobs[j].at = "prepare" /\ jobs[j].snap = watched
  BY DEF Reporting, Serving
<1>2. CASE svc' # "up" /\ watched' = None
  BY <1>2 DEF Serving
<1>3. CASE Crash \/ PowerLoss
  BY <1>2, <1>3 DEF Crash, PowerLoss, EndProcess
<1>4. CASE \E j \in Job : StopForSwap(j) \/ HealthFails(j) \/ StopForRestore(j)
  BY <1>2, <1>4 DEF StopForSwap, HealthFails, StopForRestore, StopApiOf, EndProcess
<1>5. ASSUME watched' # None, ~(\E j \in Job : StopForSwap(j))
      PROVE  \/ Spawn /\ watched' = call.snap
             \/ UNCHANGED watched /\ watched # None /\ svc = "up" /\ inFlight /\ call.at = "none"
  <2>1. CASE UNCHANGED watched
    BY <1>1, <1>5, <2>1 DEF Calls
  <2>2. CASE Spawn
    BY <2>1, <2>2, <1>5 DEF Spawn
  <2>3. CASE WatchVerdict \/ WatchTimesOut \/ \E j \in Job : HandoffFails(j)
    BY <2>3, <1>5 DEF WatchVerdict, WatchTimesOut, HandoffFails, WatchEnds
  <2>4. CASE Crash \/ PowerLoss \/ \E j \in Job : HealthFails(j) \/ StopForRestore(j)
    BY <2>4, <1>5 DEF Crash, PowerLoss, HealthFails, StopForRestore, StopApiOf, EndProcess
  <2> QED
    BY WatchedWritten, <1>5, <2>1, <2>2, <2>3, <2>4
<1>6. CASE ~(Crash \/ PowerLoss
             \/ \E j \in Job : StopForSwap(j) \/ HealthFails(j) \/ StopForRestore(j))
  <2>1. watched' # None => svc' = "up"
    <3>1. ASSUME watched' # None PROVE svc = "up"
      BY <1>5, <1>6, <3>1 DEF Spawn, Calls
    <3> QED
      BY <3>1, <1>6, ServiceWritten DEF Boot
  <2>2. ASSUME lone', svc' = "up" PROVE running' = binary'
    <3>1. CASE Boot
      BY <3>1 DEF Boot
    <3>2. CASE svc = "up" /\ running' = running
      <4>1. running = binary /\ \A j \in Job : jobs[j].at \notin Midway
        BY <2>2, <3>2, <1>1, Grows DEF Alone
      <4>2. ~\E j \in Job : Swap(j) \/ PutBack(j) \/ RevertApi(j)
        BY <4>1 DEF Swap, PutBack, RevertApi, Update, Restore, Step, Midway
      <4> QED
        BY <3>2, <4>1, <4>2, BinaryWritten
    <3> QED
      BY <1>6, <2>2, <3>1, <3>2, ServiceWritten
  <2>3. ASSUME lone', watched' # None, NEW j \in Unfinished'
        PROVE  jobs'[j].kind = "update" /\ jobs'[j].at = "prepare" /\ jobs'[j].snap = watched'
    <3>1. CASE Spawn /\ watched' = call.snap
      <4> DEFINE job == [kind |-> "update", at |-> "prepare", target |-> call.target,
                         snap |-> call.snap, mine |-> TRUE]
      <4>1. job \in JobType
        BY DEF ProcessOK, JobType
      <4>2. Launch(job)
        BY <3>1, <2>3 DEF Spawn, Calls
      <4>3. jobs'[j] = job
        BY <4>1, <4>2, <2>3, Launched DEF Unfinished
      <4> QED
        BY <4>3, <3>1
    <3>2. CASE UNCHANGED watched /\ watched # None /\ inFlight /\ call.at = "none"
      <4>1. JobsGoOn
        BY <3>2, JobsWritten DEF Spawn, Rollback
      <4>2. /\ j \in Unfinished /\ jobs'[j].kind = jobs[j].kind /\ jobs'[j].snap = jobs[j].snap
            /\ Moves(j)
        BY <4>1, <2>3 DEF JobsGoOn, Unfinished
      <4>3. jobs[j].kind = "update" /\ jobs[j].at = "prepare" /\ jobs[j].snap = watched
        BY <4>2, <3>2, <2>3, <1>1, Grows
      <4>4. jobs'[j].at = jobs[j].at
        <5>1. ~StopForSwap(j)
          BY <1>6, <2>3 DEF Unfinished
        <5>2. ~Swap(j) /\ ~DbCommit(j)
          BY <4>3 DEF Swap, DbCommit, Update, Restore, Step
        <5> QED
          BY <4>2, <4>3, <5>1, <5>2 DEF Moves
      <4> QED
        BY <4>2, <4>3, <4>4, <3>2
    <3> QED
      BY <1>5, <1>6, <2>3, <3>1, <3>2
  <2> QED
    BY <2>1, <2>2, <2>3 DEF Serving
<1> QED
  BY <1>3, <1>4, <1>6

-----------------------------------------------------------------------------
(* The row of an update, from the request to the end of the script.          *)

LEMMA AsksKeeps ==
  ASSUME IInv, Reporting, [Next]_vars
  PROVE  Asks'
<1> USE DEF IInv, Typed
<1>1. SUFFICES ASSUME call'.at \in {"insert", "spawn"}
               PROVE  /\ \A t \in Snapshots : t >= call'.snap => rows'[t].to = None
                      /\ call'.at = "insert" => rows'[call'.snap] = NoRow
                      /\ call'.at = "spawn" =>
                           IF rows'[call'.snap] = NoRow
                           THEN \A t \in Rows' : t < call'.snap => t \in unsure'
                           ELSE rows'[call'.snap].target = call'.target
                      /\ lone' => \A j \in Updating' : jobs'[j].snap < call'.snap
  BY DEF Asks
<1>2. /\ taken \in Nat /\ Snapshots \subseteq Nat /\ \A j \in Job : jobs[j].snap \in Nat
  BY PanelUpdateAssumption DEF TakenOK, Snapshots, JobsOK, JobType, None
<1>3. /\ \A s \in Snapshots : s > taken => rows[s] = NoRow
      /\ \A j \in Unfinished : jobs[j].snap <= taken
      /\ call.snap <= taken
  BY DEF Reporting, Known
<1>4. TakeDump \/ InsertRow \/ UNCHANGED call
  <2>1. CASE Crash \/ PowerLoss \/ SnapshotFails \/ Spawn
    BY <1>1, <2>1 DEF Crash, PowerLoss, SnapshotFails, Spawn, EndProcess, Release, NoCall
  <2>2. CASE \E j \in Job : StopForSwap(j) \/ HealthFails(j) \/ StopForRestore(j)
    BY <1>1, <2>2 DEF StopForSwap, HealthFails, StopForRestore, StopApiOf, EndProcess, NoCall
  <2>3. CASE CountPending \/ \E v \in Versions : Reserve(v)
    BY <1>1, <2>3 DEF CountPending, Reserve, Release, NoCall, ProcessOK
  <2> QED
    BY CallWritten, <2>1, <2>2, <2>3
<1>5. CASE TakeDump
  <2>1. /\ call'.at = "insert" /\ call'.snap = taken + 1 /\ taken + 1 \in Snapshots
        /\ UNCHANGED <<rows, jobs>>
    BY <1>5 DEF TakeDump, Snapshot, ProcessOK
  <2>2. \A t \in Snapshots : t >= taken + 1 => rows'[t] = NoRow
    <3>1. \A t \in Snapshots : t >= taken + 1 => t > taken
      BY <1>2
    <3> QED
      BY <2>1, <3>1, <1>3
  <2>3. \A j \in Updating' : jobs'[j].snap < call'.snap
    BY <2>1, <1>2, <1>3 DEF Updating, Unfinished
  <2>4. NoRow.to = None
    BY DEF NoRow
  <2>5. rows'[call'.snap] = NoRow
    BY <2>1, <2>2, <1>2
  <2>6. \A t \in Snapshots : t >= call'.snap => rows'[t].to = None
    BY <2>1, <2>2, <2>4
  <2> QED
    BY <2>1, <2>3, <2>5, <2>6
<1> DEFINE s == call.snap
<1>6. ASSUME call.at \in {"insert", "spawn"}
      PROVE  /\ s \in Snapshots
             /\ \A t \in Snapshots : t >= s => rows[t].to = None
             /\ call.at = "insert" => rows[s] = NoRow
             /\ call.at = "spawn" =>
                  IF rows[s] = NoRow THEN \A t \in Rows : t < s => t \in unsure
                  ELSE rows[s].target = call.target
             /\ lone => \A j \in Updating : jobs[j].snap < s
  BY <1>6 DEF Reporting, Asks, Tarballs, Asked, ProcessOK
<1>7. CASE InsertRow
  <2> DEFINE row == [from |-> running, to |-> None, target |-> call.target]
  <2>1. /\ call.at = "insert" /\ call'.at = "spawn" /\ call'.snap = s
        /\ call'.target = call.target
        /\ rows' = [rows EXCEPT ![s] = row] /\ UNCHANGED <<jobs, lone>>
    <3>1. /\ call.at = "insert" /\ call' = [call EXCEPT !.at = "spawn"]
          /\ rows' = [rows EXCEPT ![s] = row] /\ UNCHANGED <<jobs, lone>>
      BY <1>7 DEF InsertRow, ghosts
    <3> HIDE DEF row
    <3> QED
      BY <3>1 DEF ProcessOK
  <2>2. rows'[s] = row /\ \A t \in Snapshots : t # s => rows'[t] = rows[t]
    BY <2>1, <1>6 DEF RowsOK, RowsType
  <2>3. row # NoRow /\ row.target = call.target /\ row.to = None
    BY <2>1 DEF NoRow, Tarballs, Asked
  <2>4. \A t \in Snapshots : t >= s => rows'[t].to = None
    BY <2>1, <2>2, <2>3, <1>6
  <2>5. lone' => \A j \in Updating' : jobs'[j].snap < s
    BY <2>1, <1>6 DEF Updating, Unfinished
  <2> QED
    BY <2>1, <2>2, <2>3, <2>4, <2>5
<1>8. CASE UNCHANGED call
  <2>1. call.at \in {"insert", "spawn"} /\ svc = "up" /\ watched = None
    BY <1>1, <1>8 DEF Calls
  <2>2. /\ ~Boot /\ ~WatchVerdict /\ ~WatchTimesOut /\ ~InsertRow
        /\ ~\E j \in Job : HandoffFails(j) \/ DbCommit(j) \/ RecordRollback(j)
    <3>1. ~InsertRow
      BY <1>8, <2>1 DEF InsertRow, ProcessOK
    <3>2. ~\E j \in Job : DbCommit(j) \/ RecordRollback(j)
      BY <2>1 DEF DbCommit, RecordRollback, Restore, Step, Tarballs, Kept
    <3> QED
      BY <3>1, <3>2, <2>1 DEF Boot, WatchVerdict, WatchTimesOut, HandoffFails, WatchEnds
  <2>3. lone' => \A j \in Updating' : jobs'[j].snap < s
    <3>1. CASE JobsGoOn
      BY <3>1, <2>1, <1>6, Grows DEF JobsGoOn, Updating, Unfinished
    <3>2. CASE \E r \in Snapshots : Rollback(r)
      <4>1. PICK r \in Snapshots : Rollback(r)
        BY <3>2
      <4> DEFINE job == [kind |-> "restore", at |-> "verify", target |-> None, snap |-> r,
                         mine |-> TRUE]
      <4>2. job \in JobType /\ Launch(job) /\ job.kind = "restore"
        BY <4>1 DEF Rollback, JobType
      <4> HIDE DEF job
      <4>3. \A j \in Job : jobs'[j] = jobs[j] \/ jobs'[j].kind = "restore"
        BY <4>2, Launched
      <4> QED
        BY <4>3, <2>1, <1>6, Grows DEF Updating, Unfinished
    <3>3. ~Spawn
      BY <1>8, <2>1 DEF Spawn, NoCall
    <3> QED
      BY <3>1, <3>2, <3>3, JobsWritten
  <2>4. CASE UNCHANGED <<rows, unsure>>
    BY <1>8, <2>1, <2>3, <2>4, <1>6 DEF Rows
  <2>5. CASE ManualSnapshot
    <3> DEFINE row == [from |-> running, to |-> None, target |-> None]
    <3>1. taken + 1 \in Snapshots /\ rows' = [rows EXCEPT ![taken + 1] = row]
      BY <2>5 DEF ManualSnapshot, Snapshot
    <3>2. /\ rows'[taken + 1] = row
          /\ \A t \in Snapshots : t # taken + 1 => rows'[t] = rows[t]
      BY <3>1 DEF RowsOK, RowsType
    <3>3. s < taken + 1 /\ row.to = None
      <4>1. s \in Nat /\ s <= taken
        BY <2>1, <1>2, <1>3, <1>6
      <4> QED
        BY <4>1, <1>2
    <3>4. \A t \in Snapshots : t >= s => rows'[t].to = None
      BY <2>1, <3>2, <3>3, <1>6
    <3>5. rows'[s] = rows[s] /\ \A t \in Rows' : t < s => t \in Rows
      <4>1. s \in Snapshots /\ s \in Nat
        BY <2>1, <1>2, <1>6
      <4>2. ASSUME NEW t \in Snapshots, t < s PROVE t # taken + 1
        BY <4>1, <4>2, <3>3, <1>2
      <4>3. s # taken + 1
        BY <4>1, <3>3, <1>2
      <4> QED
        BY <3>2, <4>1, <4>2, <4>3 DEF Rows
    <3> HIDE DEF row
    <3> QED
      BY <1>8, <2>1, <2>3, <3>4, <3>5, <1>6, Grows
  <2>6. CASE \E r \in Snapshots : DeleteSnapshot(r)
    <3>1. PICK r \in Snapshots : DeleteSnapshot(r)
      BY <2>6
    <3>2. /\ rows' = [rows EXCEPT ![r] = NoRow]
          /\ \A t \in Rows : t < r => t \in unsure'
      BY <3>1 DEF DeleteSnapshot
    <3>3. rows'[r] = NoRow /\ \A t \in Snapshots : t # r => rows'[t] = rows[t]
      BY <3>2 DEF RowsOK, RowsType
    <3>4. NoRow.to = None
      BY DEF NoRow
    <3>5. \A t \in Snapshots : t >= s => rows'[t].to = None
      BY <2>1, <3>3, <3>4, <1>6
    <3>6. Rows' \subseteq Rows
      BY <3>3 DEF Rows
    <3>7. rows'[s] = NoRow /\ call.at = "spawn" => \A t \in Rows' : t < s => t \in unsure'
      BY <2>1, <3>2, <3>3, <3>6, <1>6, Grows
    <3>8. rows'[s] # NoRow => rows'[s] = rows[s]
      BY <2>1, <3>3, <1>6
    <3> QED
      BY <1>8, <2>1, <2>3, <3>5, <3>7, <3>8, <1>6
  <2> QED
    BY <2>2, <2>4, <2>5, <2>6, RowsWritten
<1> QED
  BY <1>4, <1>5, <1>7, <1>8

LEMMA ClimbsKeeps ==
  ASSUME IInv, Reporting, [Next]_vars
  PROVE  Climbs'
<1> USE DEF IInv, Typed
<1> DEFINE Fine(j) == /\ jobs[j].snap # None
                      /\ jobs[j].at \in {"prepare", "stopped", "swapped", "health", "undo"}
                      /\ jobs[j].at \in {"prepare", "stopped"} => binary < jobs[j].target
                      /\ jobs[j].at = "stopped" => bak = binary
                      /\ jobs[j].at \in {"swapped", "health", "undo"} =>
                           binary = jobs[j].target /\ bak < binary
<1>1. SUFFICES ASSUME lone', NEW j \in Updating' PROVE Fine(j)'
  BY DEF Climbs
<1>2. lone /\ j \in Job /\ jobs'[j].at # "done" /\ jobs'[j].kind = "update"
  BY <1>1, Grows DEF Updating, Unfinished
<1>3. \A i \in Updating : Fine(i)
  BY <1>2 DEF Reporting, Climbs
<1>4. \A i, k \in Unfinished : i = k
  BY <1>2 DEF Alone
<1>5. CASE JobsGoOn
  <2>1. /\ j \in Updating /\ j \in Unfinished /\ jobs'[j].kind = jobs[j].kind
        /\ jobs'[j].target = jobs[j].target /\ jobs'[j].snap = jobs[j].snap
        /\ Moves(j) /\ Fine(j)
    BY <1>2, <1>3, <1>5 DEF JobsGoOn, Updating, Unfinished
  <2>2. ASSUME NEW i \in Job, HealthOk(i) \/ PutBack(i) PROVE FALSE
    <3>1. jobs[i].at # "done" /\ jobs' = [jobs EXCEPT ![i] = NoJob] /\ NoJob.at = "done"
      BY <2>2 DEF HealthOk, PutBack, Update, Step, NoJob
    <3>2. i = j
      BY <3>1, <1>4, <2>1 DEF Unfinished
    <3> QED
      BY <3>1, <3>2, <1>2 DEF JobsOK
  <2>3. ASSUME NEW i \in Job, StopForSwap(i) \/ Swap(i) \/ RevertApi(i)
        PROVE  i = j /\ ~RevertApi(i)
    BY <1>2, <1>4, <2>1, <2>3
       DEF StopForSwap, Swap, RevertApi, StopApiOf, Update, Restore, Step, Unfinished
  <2>4. CASE StopForSwap(j)
    <3>1. jobs[j].at = "prepare" /\ jobs'[j].at = "stopped"
      BY <2>4, <1>2, Stops DEF StopForSwap
    <3>2. binary' = binary /\ bak' = binary
      BY <2>4 DEF StopForSwap
    <3> QED
      BY <2>1, <3>1, <3>2
  <2>5. CASE Swap(j)
    <3>1. jobs[j].at = "stopped" /\ jobs'[j].at = "swapped"
      BY <2>5, <1>2 DEF Swap, Update, Step, JobsOK
    <3>2. binary' = jobs[j].target /\ bak' = bak
      BY <2>5 DEF Swap
    <3> QED
      BY <2>1, <3>1, <3>2
  <2>6. CASE ~StopForSwap(j) /\ ~Swap(j)
    <3>1. binary' = binary
      BY <2>2, <2>3, <2>6, BinaryWritten
    <3>2. bak' = bak
      BY <2>2, <2>3, <2>6, BakWritten
    <3>3. ~DbCommit(j)
      BY <1>2, <2>1 DEF DbCommit, Restore, Step
    <3>4. \/ jobs'[j].at = jobs[j].at
          \/ /\ jobs[j].at \in {"swapped", "health", "undo"}
             /\ jobs'[j].at \in {"swapped", "health", "undo"}
      BY <1>2, <2>1, <2>6, <3>3 DEF Moves
    <3> QED
      BY <2>1, <3>1, <3>2, <3>4
  <2> QED
    BY <2>4, <2>5, <2>6
<1>6. CASE \E s \in Snapshots : Rollback(s)
  <2>1. PICK s \in Snapshots : Rollback(s)
    BY <1>6
  <2> DEFINE job == [kind |-> "restore", at |-> "verify", target |-> None, snap |-> s,
                     mine |-> TRUE]
  <2>2. job \in JobType /\ Launch(job) /\ job.kind = "restore"
    BY <2>1 DEF Rollback, JobType
  <2> HIDE DEF job
  <2>3. jobs'[j] = jobs[j] \/ jobs'[j] = job
    BY <1>2, <2>2, Launched
  <2>4. \A i \in Job : jobs[i].at = "done"
    BY <1>1, <2>2, Launched
  <2> QED
    BY <1>2, <2>2, <2>3, <2>4
<1>7. CASE Spawn
  <2>1. UNCHANGED <<binary, bak>> /\ call.at = "spawn"
    BY <1>7 DEF Spawn, disk
  <2>2. CASE UNCHANGED jobs
    BY <1>2, <1>3, <2>1, <2>2 DEF Updating, Unfinished
  <2>3. CASE ~UNCHANGED jobs
    <3> DEFINE job == [kind |-> "update", at |-> "prepare", target |-> call.target,
                       snap |-> call.snap, mine |-> TRUE]
    <3>1. job \in JobType /\ Launch(job)
      BY <1>7, <2>3 DEF Spawn, ProcessOK, JobType
    <3>2. jobs'[j] = job
      BY <1>1, <1>2, <3>1, Launched
    <3>3. call.snap # None /\ call.target > running /\ running = binary
      BY <1>2, <2>1 DEF Tarballs, Asked, Reporting, CallRises, Serving, Calls
    <3>4. binary \in Nat /\ call.target \in Nat
      BY PanelUpdateAssumption DEF DiskOK, ProcessOK, Versions, None
    <3> QED
      BY <2>1, <3>2, <3>3, <3>4
  <2> QED
    BY <2>2, <2>3
<1> QED
  BY JobsWritten, <1>5, <1>6, <1>7

\* What a row can say of the update that its script is still at work on.
LEMMA MarksKeeps ==
  ASSUME IInv, Reporting, [Next]_vars
  PROVE  Marks'
<1> USE DEF IInv, Typed
<1>1. SUFFICES ASSUME lone', NEW j \in Updating'
               PROVE  Marked(jobs[j].snap, jobs[j].target)'
  BY DEF Marks
<1>2. lone /\ j \in Job /\ jobs'[j].at # "done" /\ jobs'[j].kind = "update"
  BY <1>1, Grows DEF Updating, Unfinished
<1>3. \A i, k \in Unfinished : i = k
  BY <1>2 DEF Alone
<1>4. /\ taken \in Nat /\ Snapshots \subseteq Nat
      /\ \A s \in Snapshots : s > taken => rows[s] = NoRow
      /\ \A i \in Unfinished : jobs[i].snap <= taken
  BY PanelUpdateAssumption DEF TakenOK, Snapshots, Reporting, Known
<1>5. rows \in RowsType /\ RowsOK /\ unsure \subseteq unsure' /\ NoRow.to = None
  BY Grows DEF RowsOK, NoRow
<1>6. CASE JobsGoOn
  <2> DEFINE s == jobs[j].snap
             v == jobs[j].target
  <2>1. /\ j \in Updating /\ j \in Unfinished /\ jobs[j].kind = "update" /\ jobs[j].at # "done"
        /\ jobs'[j].target = v /\ jobs'[j].snap = s
    BY <1>2, <1>6 DEF JobsGoOn, Updating, Unfinished
  <2>2. s \in Snapshots /\ s \in Nat /\ v \in Versions
    <3>1. s # None /\ v # None
      BY <1>2, <2>1 DEF Reporting, Climbs, Tarballs, Meant
    <3>2. jobs[j] \in JobType
      BY <1>2 DEF JobsOK
    <3> QED
      BY <1>4, <3>1, <3>2 DEF JobType
  <2>3. /\ s \in Rows => /\ rows[s].target = v
                         /\ rows[s].to = None \/ s \in unsure \/ rows[s].to # rows[s].from
        /\ s \notin Rows => \A t \in Rows : t < s => t \in unsure
        /\ \A t \in Snapshots \ unsure : t > s /\ Denied(rows[t]) => rows[t].target > v
    BY <1>2, <2>1 DEF Reporting, Marks, Marked
  <2>4. SUFFICES
          /\ s \in Rows' => /\ rows'[s].target = v
                            /\ rows'[s].to = None \/ s \in unsure' \/ rows'[s].to # rows'[s].from
          /\ s \notin Rows' => \A t \in Rows' : t < s => t \in unsure'
          /\ \A t \in Snapshots \ unsure' : t > s /\ Denied(rows'[t]) => rows'[t].target > v
    BY <2>1 DEF Marked
  <2>5. CASE UNCHANGED <<rows, unsure>>
    BY <2>3, <2>5 DEF Rows
  <2>6. CASE Boot
    <3>0. PICK S \in SUBSET Pending : Finalize(S)
      BY <2>6 DEF Boot
    <3>1. \A t \in Snapshots : rows'[t] =
            IF t \notin S THEN rows[t]
            ELSE [rows[t] EXCEPT !.to = IF t \in aged THEN Abandoned ELSE binary]
      BY <3>0 DEF Finalize
    <3>2. \A t \in S : rows'[t].to = binary /\ binary # v => t \in unsure'
      BY <2>1, <3>0 DEF Finalize, TooEarly
    <3>3. \A t \in Snapshots :
            /\ rows[t] \in RowType /\ (t \notin S => rows'[t] = rows[t])
            /\ t \in S => /\ rows'[t].from = rows[t].from
                                /\ rows'[t].target = rows[t].target
                                /\ rows'[t].to \in {binary, Abandoned}
      <4>1. \A t \in Snapshots : rows[t] \in RowType
        BY <1>5 DEF RowsType
      <4>2. ASSUME NEW t \in S
            PROVE  /\ rows'[t].from = rows[t].from /\ rows'[t].target = rows[t].target
                   /\ rows'[t].to \in {binary, Abandoned}
        <5>1. t \in Snapshots
          BY DEF Pending, Rows
        <5>2. rows'[t] = [rows[t] EXCEPT !.to = IF t \in aged THEN Abandoned ELSE binary]
          BY <3>1, <5>1
        <5> QED
          BY <4>1, <5>1, <5>2 DEF RowType
      <4> QED
        BY <3>1, <4>1, <4>2
    <3>4. Rows' = Rows
      <4>1. \A t \in S : rows[t] # NoRow /\ rows'[t].target # None /\ NoRow.target = None
        BY <3>3 DEF Pending, Rows, NoRow
      <4> QED
        BY <3>3, <4>1 DEF Rows
    <3>5. ASSUME NEW t \in S, t \notin unsure', rows'[t].to = rows'[t].from
          PROVE  rows'[t].target > v
      <4>1. t \in Snapshots /\ rows[t].target # None
        BY <3>5 DEF Pending, Rows
      <4>2. rows[t].from \in Versions \cup {None}
        BY <3>3, <4>1 DEF RowType
      <4>3. Abandoned \notin Versions \cup {None}
        BY PanelUpdateAssumption DEF Versions, Abandoned, None
      <4>4. rows'[t].to = binary /\ rows[t].from = binary
        BY <3>3, <3>5, <4>1, <4>2, <4>3
      <4>5. binary = v
        BY <3>2, <3>5, <4>4
      <4>6. rows[t].target > rows[t].from
        BY <4>1 DEF Reporting, RowsRise, Ascends
      <4> QED
        BY <3>3, <4>1, <4>4, <4>5, <4>6
    <3>6. s \in Rows => rows'[s].target = v
      BY <3>3, <2>3, <2>2
    <3>7. s \in Rows => rows'[s].to = None \/ s \in unsure' \/ rows'[s].to # rows'[s].from
      <4>1. CASE s \in S
        <5>1. rows'[s].target = v
          BY <3>6, <4>1 DEF Pending
        <5>2. ~(v > v)
          BY <2>2 DEF Versions
        <5> QED
          BY <3>5, <4>1, <5>1, <5>2
      <4> QED
        BY <4>1, <3>3, <2>2, <2>3, <1>5
    <3>8. \A t \in Snapshots \ unsure' : t > s /\ Denied(rows'[t]) => rows'[t].target > v
      <4>1. ASSUME NEW t \in Snapshots \ unsure', t > s, Denied(rows'[t])
            PROVE  rows'[t].target > v
        <5>1. rows'[t].to = rows'[t].from
          BY <4>1 DEF Denied
        <5>2. CASE t \in S
          BY <3>5, <4>1, <5>1, <5>2
        <5>3. CASE t \notin S
          BY <3>3, <4>1, <5>3, <2>3, <1>5
        <5> QED
          BY <5>2, <5>3
      <4> QED
        BY <4>1
    <3> QED
      BY <3>4, <3>6, <3>7, <3>8, <2>3, <1>5
  <2>7. ASSUME NEW r \in Snapshots, r > s, NEW row, row.to = None,
               rows' = [rows EXCEPT ![r] = row]
        PROVE  /\ s \in Rows' => /\ rows'[s].target = v
                                 /\ \/ rows'[s].to = None \/ s \in unsure'
                                    \/ rows'[s].to # rows'[s].from
               /\ s \notin Rows' => \A t \in Rows' : t < s => t \in unsure'
               /\ \A t \in Snapshots \ unsure' : t > s /\ Denied(rows'[t]) => rows'[t].target > v
    <3>1. rows'[r] = row /\ \A t \in Snapshots : t # r => rows'[t] = rows[t]
      BY <1>5, <2>7 DEF RowsType
    <3>2. r \in Nat /\ r # s /\ \A t \in Snapshots : t < s => t # r
      BY <1>4, <2>2, <2>7
    <3>3. ~Denied(row)
      BY <2>7 DEF Denied
    <3>4. rows'[s] = rows[s] /\ (s \in Rows' <=> s \in Rows)
      BY <2>2, <3>1, <3>2 DEF Rows
    <3>5. \A t \in Rows' : t < s => t \in Rows
      BY <3>1, <3>2 DEF Rows
    <3>6. \A t \in Snapshots : Denied(rows'[t]) => rows'[t] = rows[t]
      BY <3>1, <3>3
    <3> QED
      BY <3>4, <3>5, <3>6, <2>3, <1>5
  <2>8. CASE InsertRow
    <3> DEFINE row == [from |-> running, to |-> None, target |-> call.target]
    <3>1. rows' = [rows EXCEPT ![call.snap] = row] /\ row.to = None
      BY <2>8 DEF InsertRow
    <3>2. call.snap \in Snapshots /\ s < call.snap
      BY <1>2, <2>1, <2>8 DEF InsertRow, Tarballs, Asked, ProcessOK, Reporting, Asks
    <3>3. call.snap > s
      BY <3>2, <2>2, <1>4
    <3> HIDE DEF row
    <3> QED
      BY <3>1, <3>2, <3>3, <2>7
  <2>9. CASE ManualSnapshot
    <3> DEFINE row == [from |-> running, to |-> None, target |-> None]
    <3>1. taken + 1 \in Snapshots /\ rows' = [rows EXCEPT ![taken + 1] = row] /\ row.to = None
      BY <2>9 DEF ManualSnapshot, Snapshot
    <3>2. taken + 1 > s
      BY <1>4, <2>1, <2>2
    <3> HIDE DEF row
    <3> QED
      BY <3>1, <3>2, <2>7
  <2>10. CASE \E r \in Snapshots : DeleteSnapshot(r)
    <3>1. PICK r \in Snapshots : DeleteSnapshot(r)
      BY <2>10
    <3>2. rows' = [rows EXCEPT ![r] = NoRow] /\ \A t \in Rows : t < r => t \in unsure'
      BY <3>1 DEF DeleteSnapshot
    <3>3. rows'[r] = NoRow /\ \A t \in Snapshots : t # r => rows'[t] = rows[t]
      BY <3>2, <1>5 DEF RowsType
    <3>4. ~Denied(NoRow)
      BY <1>5 DEF Denied
    <3>5. \A t \in Snapshots : Denied(rows'[t]) => rows'[t] = rows[t]
      BY <3>3, <3>4
    <3>6. /\ Rows' \subseteq Rows
          /\ s \in Rows' => rows'[s] = rows[s]
          /\ s \notin Rows' => s = r \/ s \notin Rows
      BY <3>3, <2>2 DEF Rows
    <3> QED
      BY <3>2, <3>5, <3>6, <2>3, <1>5
  <2>11. CASE \E i \in Job : HandoffFails(i)
    BY <2>11, <1>2, <1>3, <2>1 DEF HandoffFails, Unfinished, NoJob, JobsOK
  <2>12. CASE WatchVerdict \/ WatchTimesOut
    <3>1. (watched # None /\ StampFailed) \/ UNCHANGED <<rows, unsure>>
      BY <2>12 DEF WatchVerdict, WatchTimesOut, WatchEnds
    <3>2. CASE watched # None /\ StampFailed
      <4>1. watched = s /\ jobs[j].at = "prepare" /\ svc = "up" /\ running = binary
        BY <1>2, <2>1, <3>2 DEF Reporting, Serving
      <4>2. running # v
        BY <1>2, <2>1, <2>2, <4>1 DEF Reporting, Climbs, DiskOK, Versions
      <4>3. s \in unsure'
        BY <2>1, <3>2, <4>1, <4>2 DEF StampFailed, TooEarly
      <4>4. rows' = rows \/ (s \in Pending /\ rows' = [rows EXCEPT ![s].to = running])
        BY <3>2, <4>1 DEF StampFailed
      <4>5. CASE rows' = rows
        BY <4>5, <2>3, <1>5 DEF Rows
      <4>6. CASE s \in Pending /\ rows' = [rows EXCEPT ![s].to = running]
        <5>1. s \in Rows
          BY <4>6 DEF Pending
        <5>2. /\ \A t \in Snapshots : t # s => rows'[t] = rows[t]
              /\ rows'[s].target = rows[s].target
          BY <4>6, <1>5, <2>2 DEF RowsType, RowType
        <5>3. s \in Rows'
          BY <5>1, <5>2, <2>2, <4>6 DEF Rows, Pending, NoRow
        <5>4. \A t \in Snapshots : t > s => t # s
          BY <2>2
        <5> QED
          BY <4>3, <5>1, <5>2, <5>3, <5>4, <2>3, <1>5
      <4> QED
        BY <4>4, <4>5, <4>6
    <3> QED
      BY <3>1, <3>2, <2>5
  <2>13. CASE \E i \in Job : DbCommit(i) \/ RecordRollback(i)
    BY <2>13, <1>3, <2>1 DEF DbCommit, RecordRollback, Restore, Step, Unfinished
  <2> QED
    BY RowsWritten, <2>5, <2>6, <2>8, <2>9, <2>10, <2>11, <2>12, <2>13
<1>7. CASE \E s \in Snapshots : Rollback(s)
  <2>1. PICK s \in Snapshots : Rollback(s)
    BY <1>7
  <2> DEFINE job == [kind |-> "restore", at |-> "verify", target |-> None, snap |-> s,
                     mine |-> TRUE]
  <2>2. job \in JobType /\ Launch(job) /\ job.kind = "restore"
    BY <2>1 DEF Rollback, JobType
  <2> HIDE DEF job
  <2>3. (jobs'[j] = jobs[j] \/ jobs'[j] = job) /\ \A i \in Job : jobs[i].at = "done"
    BY <1>1, <1>2, <2>2, Launched
  <2> QED
    BY <1>2, <2>2, <2>3
<1>8. CASE Spawn
  <2>1. UNCHANGED <<rows, unsure>> /\ call.at = "spawn"
    BY <1>8 DEF Spawn, history
  <2>2. CASE UNCHANGED jobs
    <3>1. Marked(jobs[j].snap, jobs[j].target) /\ jobs'[j] = jobs[j]
      BY <1>2, <2>2 DEF Reporting, Marks, Updating, Unfinished
    <3> QED
      BY <3>1, <2>1 DEF Marked, Rows
  <2>3. CASE ~UNCHANGED jobs
    <3> DEFINE job == [kind |-> "update", at |-> "prepare", target |-> call.target,
                       snap |-> call.snap, mine |-> TRUE]
    <3>1. job \in JobType /\ Launch(job)
      BY <1>8, <2>3 DEF Spawn, ProcessOK, JobType
    <3>2. jobs'[j] = job
      BY <1>1, <1>2, <3>1, Launched
    <3> DEFINE s == call.snap
    <3>3. /\ s \in Snapshots
          /\ \A t \in Snapshots : t >= s => rows[t].to = None
          /\ IF rows[s] = NoRow THEN \A t \in Rows : t < s => t \in unsure
             ELSE rows[s].target = call.target
      BY <2>1 DEF Reporting, Asks, Tarballs, Asked, ProcessOK
    <3>4. \A t \in Snapshots : t > s => ~Denied(rows[t])
      <4>1. ASSUME NEW t \in Snapshots, t > s PROVE t >= s
        <5>1. t \in Nat /\ s \in Nat
          BY <3>3, <1>4
        <5> QED
          BY <4>1, <5>1
      <4> QED
        BY <3>3, <4>1 DEF Denied
    <3>5. rows[s].to = None
      <4>1. s \in Nat
        BY <3>3, <1>4
      <4>2. s >= s
        BY <4>1
      <4> QED
        BY <3>3, <4>2
    <3>6. Marked(s, call.target)
      BY <3>3, <3>4, <3>5 DEF Marked, Rows
    <3> QED
      BY <2>1, <3>2, <3>6 DEF Marked, Rows
  <2> QED
    BY <2>2, <2>3
<1> QED
  BY JobsWritten, <1>6, <1>7, <1>8

\* What is half done.
LEMMA HalfWritten ==
  ASSUME [Next]_vars
  PROVE  \/ PowerLoss \/ (\E j \in Job : Swap(j)) \/ (\E j \in Job : DbCommit(j))
         \/ (\E j \in Job : RevertApi(j)) \/ UNCHANGED half
<1>1. CASE \/ Boot \/ Crash \/ CountPending \/ TakeDump \/ InsertRow \/ SnapshotFails
           \/ Spawn \/ ManualSnapshot \/ (\E v \in Versions : Reserve(v))
           \/ (\E s \in Snapshots : Age(s)) \/ (\E s \in Snapshots : DeleteSnapshot(s))
           \/ (\E s \in Snapshots : Rollback(s)) \/ WatchVerdict \/ WatchTimesOut
           \/ (\E j \in Job : HandoffFails(j)) \/ (\E j \in Job : PrepareFails(j))
           \/ (\E j \in Job : StopForSwap(j)) \/ (\E j \in Job : SwapFails(j))
           \/ (\E j \in Job : StartNew(j)) \/ (\E j \in Job : HealthOk(j))
           \/ (\E j \in Job : HealthFails(j)) \/ (\E j \in Job : PutBack(j))
           \/ (\E j \in Job : VerifyFails(j)) \/ (\E j \in Job : StopForRestore(j))
           \/ (\E j \in Job : RestoreFails(j)) \/ (\E j \in Job : RecordRollback(j))
           \/ (\E j \in Job : SkipApi(j)) \/ (\E j \in Job : StartRestored(j))
           \/ (\E j \in Job : RestoreEnds(j)) \/ UNCHANGED vars
  BY <1>1 DEF Boot, Crash, EndProcess, Orphans, NoCall, Serves, CountPending,
      Release, Hold, TakeDump, Snapshot, InsertRow, SnapshotFails, NoFile, Spawn,
      Launch, ManualSnapshot, Reserve, Age, DeleteSnapshot, NoRow, Rollback,
      WatchVerdict, WatchEnds, StampFailed, WatchTimesOut, HandoffFails, NoJob,
      PrepareFails, Update, Step, Verdict, StopForSwap, StopApiOf, SwapFails,
      StartApi, StartNew, HealthOk, HealthFails, PutBack, VerifyFails, Restore,
      StopForRestore, RestoreFails, OnExit, RollbackWouldBeUndone, RecordRollback,
      SkipApi, StartRestored, RestoreEnds, vars, panel, process, disk, history,
      restore, ghosts
<1> QED
  BY <1>1
     DEF Next, Call, Watch, Script, UpdateScript, RestoreScript

-----------------------------------------------------------------------------
(* What runs, what will run, what a restore leaves and what a tarball has.    *)

\* The row of an update at work belies nothing up to the release it goes to.
LEMMA MarkedSpares ==
  ASSUME rows \in RowsType, NEW s \in Snapshots, NEW v \in Versions, Marked(s, v),
         NEW b \in Nat, b <= v
  PROVE  ~BeliesAtBoot(rows, unsure, b)
<1> SUFFICES ASSUME BeliesAtBoot(rows, unsure, b) PROVE FALSE
  OBVIOUS
<1>1. PICK n \in Snapshots \ unsure :
        /\ Denied(rows[n]) /\ rows[n].target = b
        /\ \A t \in Snapshots : t > n => rows[t].to = None /\ rows[t].target = None
  BY DEF BeliesAtBoot
<1>2. n \in Rows
  BY <1>1 DEF Denied, Rows, NoRow
<1>3. n \in Nat /\ s \in Nat /\ v \in Nat /\ v # None
  BY PanelUpdateAssumption DEF Snapshots, Versions, None
<1>4. CASE n > s
  BY <1>1, <1>3, <1>4 DEF Marked
<1>5. CASE n = s
  BY <1>1, <1>2, <1>5 DEF Marked, Denied
<1>6. CASE n < s
  <2>1. s \notin Rows
    BY <1>1, <1>3, <1>6 DEF Marked
  <2> QED
    BY <1>1, <1>2, <1>6, <2>1 DEF Marked
<1> QED
  BY <1>3, <1>4, <1>5, <1>6

\* An api that is up is not exchanged.
LEMMA Installed ==
  ASSUME IInv, Reporting, lone, svc = "up", [Next]_vars
  PROVE  binary' = binary
<1>1. \A j \in Job : jobs[j].at \notin Midway
  BY DEF IInv, Alone
<1>2. ~\E j \in Job : Swap(j) \/ PutBack(j) \/ RevertApi(j)
  BY <1>1 DEF Swap, PutBack, RevertApi, Update, Restore, Step, Midway
<1> QED
  BY <1>2, BinaryWritten

LEMMA HonestUpKeeps ==
  ASSUME IInv, Reporting, [Next]_vars
  PROVE  HonestUp'
<1> USE DEF IInv, Typed
<1>1. SUFFICES ASSUME lone', ~torn', svc' = "up", Belies(rows', unsure', binary')
               PROVE  FALSE
  BY DEF HonestUp
<1>2. lone /\ ~torn /\ unsure \subseteq unsure' /\ rows \in RowsType
  BY <1>1, Grows DEF RowsOK
<1>3. Belies(rows', unsure, binary')
  BY <1>1, <1>2, Doubted
<1>4. CASE Boot
  <2>0. PICK S \in SUBSET Pending : Finalize(S)
    BY <1>4 DEF Boot
  <2>1. ~half /\ svc # "up"
    BY <1>2, <1>4 DEF Boot, HalfWay
  <2>2. ~BeliesAtBoot(rows, unsure', binary)
    BY <1>2, <2>1, Doubted DEF Reporting, HonestDown
  <2>3. \A s \in Snapshots : Ascends(rows[s])
    BY DEF Reporting, RowsRise
  <2>4. ASSUME NEW s \in Snapshots
        PROVE  \/ rows'[s] = rows[s] /\ (rows[s].to # None \/ rows[s].target = None)
               \/ /\ rows'[s] = rows[s]
                  /\ \A t \in Snapshots : rows[t] # NoRow /\ t < s => t \in unsure'
               \/ /\ rows[s].to = None /\ rows[s].target # None
                  /\ rows'[s].from = rows[s].from /\ rows'[s].target = rows[s].target
                  /\ rows'[s].to \in {binary, Abandoned}
    <3>1. /\ rows'[s] = IF s \notin S THEN rows[s]
                        ELSE [rows[s] EXCEPT !.to = IF s \in aged THEN Abandoned ELSE binary]
          /\ \A t \in Rows : s \in Pending \ S /\ t < s => t \in unsure'
      BY <2>0 DEF Finalize
    <3>2. s \in Pending <=> rows[s].to = None /\ rows[s].target # None
      BY DEF Pending, Rows, NoRow
    <3>3. rows[s] \in RowType
      BY <1>2 DEF RowsType
    <3> QED
      BY <2>0, <3>1, <3>2, <3>3 DEF RowType, Rows
  <2>5. binary' = binary /\ binary \in Versions
    BY <1>4 DEF Boot, DiskOK
  <2> HIDE DEF IInv, Typed
  <2> QED
    BY <1>1, <1>2, <2>2, <2>3, <2>4, <2>5, Booted
<1>5. CASE svc = "up"
  <2>1. binary' = binary /\ running = binary /\ binary \in Versions
    BY <1>2, <1>5, Installed DEF Reporting, Serving, DiskOK
  <2>2. ~Belies(rows, unsure, binary)
    BY <1>2, <1>5 DEF Reporting, HonestUp
  <2>3. Snapshots \subseteq Nat /\ taken \in Nat /\ NoRow.to = None
        /\ \A s \in Snapshots : s > taken => rows[s] = NoRow
    BY PanelUpdateAssumption DEF Snapshots, TakenOK, NoRow, Reporting, Known
  <2>4. CASE InsertRow
    <3> DEFINE row == [from |-> running, to |-> None, target |-> call.target]
    <3>1. call.snap \in Snapshots /\ rows[call.snap] = NoRow
      BY <2>4 DEF InsertRow, Tarballs, Asked, ProcessOK, Reporting, Asks
    <3>2. rows' = [rows EXCEPT ![call.snap] = row] /\ row.to = None
      BY <2>4 DEF InsertRow
    <3> HIDE DEF row
    <3> QED
      BY <1>2, <1>3, <2>1, <2>2, <2>3, <3>1, <3>2, Added
  <2>5. CASE ManualSnapshot
    <3> DEFINE row == [from |-> running, to |-> None, target |-> None]
    <3>1. taken + 1 \in Snapshots /\ rows' = [rows EXCEPT ![taken + 1] = row] /\ row.to = None
      BY <2>5 DEF ManualSnapshot, Snapshot
    <3>2. rows[taken + 1] = NoRow
      BY <2>3, <3>1
    <3> HIDE DEF row
    <3> QED
      BY <1>2, <1>3, <2>1, <2>2, <2>3, <3>1, <3>2, Added
  <2>6. CASE \E s \in Snapshots : DeleteSnapshot(s)
    <3>1. PICK s \in Snapshots : DeleteSnapshot(s)
      BY <2>6
    <3>2. /\ rows' = [rows EXCEPT ![s] = NoRow]
          /\ \A t \in Snapshots : rows[t] # NoRow /\ t < s => t \in unsure'
      BY <3>1 DEF DeleteSnapshot, Rows
    <3> QED
      BY <1>1, <1>2, <2>1, <2>2, <3>2, Deleted
  <2>7. CASE WatchVerdict \/ WatchTimesOut \/ \E j \in Job : HandoffFails(j)
    <3>1. rows' = rows \/ (watched \in Pending /\ rows' = [rows EXCEPT ![watched].to = binary])
      BY <2>1, <2>7 DEF WatchVerdict, WatchTimesOut, HandoffFails, StampFailed
    <3>2. CASE watched \in Pending /\ rows' = [rows EXCEPT ![watched].to = binary]
      <4>1. watched \in Snapshots /\ rows[watched].to = None
        BY <3>2 DEF Pending, Rows
      <4> QED
        BY <1>2, <1>3, <2>1, <2>2, <3>2, <4>1, Stamped
    <3> QED
      BY <3>1, <3>2, <1>3, <2>1, <2>2
  <2>8. CASE \E j \in Job : DbCommit(j) \/ RecordRollback(j)
    BY <1>2, <1>5, <2>8 DEF DbCommit, RecordRollback, Restore, Step, Alone, Midway
  <2>9. CASE UNCHANGED <<rows, unsure>>
    BY <1>3, <2>1, <2>2, <2>9
  <2> QED
    BY RowsWritten, <1>5, <2>4, <2>5, <2>6, <2>7, <2>8, <2>9 DEF Boot
<1> QED
  <2>1. ~(Crash \/ PowerLoss)
    BY <1>1 DEF Crash, PowerLoss, EndProcess
  <2>2. ~\E j \in Job : StopForSwap(j) \/ HealthFails(j) \/ StopForRestore(j)
    BY <1>1 DEF StopForSwap, HealthFails, StopForRestore, StopApiOf, EndProcess
  <2> QED
    BY <1>1, <1>4, <1>5, <2>1, <2>2, ServiceWritten

LEMMA HonestDownKeeps ==
  ASSUME IInv, Reporting, [Next]_vars
  PROVE  HonestDown'
<1> USE DEF IInv, Typed
<1>1. SUFFICES ASSUME lone', ~torn', svc' # "up", ~half',
                      BeliesAtBoot(rows', unsure', binary')
               PROVE  FALSE
  BY DEF HonestDown
<1>2. lone /\ ~torn /\ unsure \subseteq unsure' /\ rows \in RowsType
  BY <1>1, Grows DEF RowsOK
<1>3. BeliesAtBoot(rows', unsure, binary')
  BY <1>1, <1>2, Doubted
<1>4. CASE UNCHANGED <<rows, binary>> /\ ~half
  <2>1. CASE svc = "up"
    BY <1>2, <1>3, <1>4, <2>1, Softer DEF Reporting, HonestUp
  <2>2. CASE svc # "up"
    BY <1>2, <1>3, <1>4, <2>2 DEF Reporting, HonestDown
  <2> QED
    BY <2>1, <2>2
<1>5. CASE Crash
  BY <1>1, <1>4, <1>5 DEF Crash, disk, history, ghosts, restore
<1>6. CASE PowerLoss
  BY <1>1, <1>4, <1>6 DEF PowerLoss, disk, history, GhostsOK
<1>7. CASE \E j \in Job : StopForSwap(j) \/ HealthFails(j) \/ StopForRestore(j)
  <2>1. UNCHANGED rows
    BY <1>7 DEF StopForSwap, HealthFails, StopForRestore, StopApiOf, history
  <2>2. UNCHANGED binary
    BY <1>7 DEF StopForSwap, HealthFails, StopForRestore, disk
  <2>3. UNCHANGED half
    BY <1>7 DEF StopForSwap, HealthFails, StopForRestore, restore
  <2> QED
    BY <1>1, <1>4, <2>1, <2>2, <2>3
<1>8. CASE /\ ~(Crash \/ PowerLoss)
           /\ ~\E j \in Job : StopForSwap(j) \/ HealthFails(j) \/ StopForRestore(j)
  <2>1. svc # "up" /\ call.at = "none" /\ watched = None /\ ~Boot
    <3>1. svc # "up" /\ ~Boot
      BY <1>1, <1>8, ServiceWritten DEF Boot
    <3> QED
      BY <3>1 DEF Calls, Reporting, Serving
  <2>2. rows' = rows \/ \E j \in Job : DbCommit(j) \/ RecordRollback(j)
    <3>1. ~InsertRow /\ ~ManualSnapshot /\ ~\E s \in Snapshots : DeleteSnapshot(s)
      BY <2>1 DEF InsertRow, ManualSnapshot, DeleteSnapshot, Serves
    <3>2. ~WatchVerdict /\ ~WatchTimesOut /\ ~\E j \in Job : HandoffFails(j)
      BY <2>1 DEF WatchVerdict, WatchTimesOut, HandoffFails, WatchEnds
    <3> QED
      BY <2>1, <3>1, <3>2, RowsWritten
  <2>3. CASE \E j \in Job : DbCommit(j)
    BY <1>1, <2>3 DEF DbCommit
  <2>4. CASE \E j \in Job : RecordRollback(j)
    BY <1>1, <1>2, <2>4 DEF RecordRollback, Restore, Step, Restores, restore
  <2>5. ASSUME NEW j \in Job, jobs[j].kind = "update", jobs[j].at # "done"
        PROVE  /\ jobs[j].snap \in Snapshots /\ jobs[j].target \in Versions
               /\ Marked(jobs[j].snap, jobs[j].target)
    <3>1. j \in Updating
      BY <2>5 DEF Updating, Unfinished
    <3>2. jobs[j].snap # None /\ jobs[j].target # None
      BY <1>2, <2>5, <3>1 DEF Reporting, Climbs, Tarballs, Meant
    <3>3. jobs[j] \in JobType
      BY DEF JobsOK
    <3> QED
      BY <1>2, <3>1, <3>2, <3>3 DEF JobType, Reporting, Marks
  <2>6. CASE rows' = rows /\ \E j \in Job : Swap(j)
    <3>1. PICK j \in Job : Swap(j)
      BY <2>6
    <3>2. jobs[j].kind = "update" /\ jobs[j].at # "done" /\ binary' = jobs[j].target
      BY <3>1 DEF Swap, Update, Step
    <3>3. jobs[j].target \in Nat /\ jobs[j].target <= jobs[j].target
      BY <2>5, <3>2 DEF Versions
    <3> QED
      BY <1>2, <1>3, <2>5, <2>6, <3>2, <3>3, MarkedSpares
  <2>7. CASE rows' = rows /\ \E j \in Job : PutBack(j)
    <3>1. PICK j \in Job : PutBack(j)
      BY <2>7
    <3>2. /\ jobs[j].kind = "update" /\ jobs[j].at = "undo"
          /\ binary' = bak \/ binary' = binary
      BY <3>1 DEF PutBack, Update, Step
    <3>3. binary = jobs[j].target /\ bak < binary
      BY <1>2, <3>2 DEF Reporting, Climbs, Updating, Unfinished
    <3>4. bak \in Nat /\ binary \in Nat
      BY PanelUpdateAssumption DEF DiskOK, Versions, None
    <3>5. binary' \in Nat /\ binary' <= jobs[j].target
      BY <3>2, <3>3, <3>4
    <3> QED
      BY <1>2, <1>3, <2>5, <2>7, <3>2, <3>5, MarkedSpares
  <2>8. CASE rows' = rows /\ \E j \in Job : RevertApi(j)
    BY <1>2, <1>3, <2>8 DEF RevertApi, Restore, Step, Reporting, HonestRestore
  <2>9. CASE rows' = rows /\ ~\E j \in Job : Swap(j) \/ PutBack(j) \/ RevertApi(j) \/ DbCommit(j)
    <3>1. binary' = binary
      BY <2>9, BinaryWritten
    <3>2. ~half
      BY <1>1, <1>8, <2>9, HalfWritten
    <3> QED
      BY <1>4, <2>9, <3>1, <3>2
  <2> QED
    BY <2>2, <2>3, <2>4, <2>6, <2>7, <2>8, <2>9
<1> QED
  BY <1>5, <1>6, <1>7, <1>8

LEMMA HonestRestoreKeeps ==
  ASSUME IInv, Reporting, [Next]_vars
  PROVE  HonestRestore'
<1> USE DEF IInv, Typed
<1>1. SUFFICES ASSUME lone', ~torn', NEW j \in Job, jobs'[j].at \in {"committed", "recorded"},
                      BeliesAtBoot(rows', unsure', files'[jobs'[j].snap].bin)
               PROVE  FALSE
  BY DEF HonestRestore
<1>2. lone /\ ~torn /\ unsure \subseteq unsure' /\ rows \in RowsType
  BY <1>1, Grows DEF RowsOK
<1>3. /\ BeliesAtBoot(rows', unsure, files'[jobs[j].snap].bin)
      /\ DbCommit(j) \/ jobs[j].at \in {"committed", "recorded"}
  <2>1. CASE JobsGoOn
    <3>1. jobs'[j].snap = jobs[j].snap /\ Moves(j)
      BY <1>1, <2>1 DEF JobsGoOn
    <3>2. Swap(j) => jobs' = [jobs EXCEPT ![j] = [@ EXCEPT !.at = "swapped"]]
      BY DEF Swap, Update, Step
    <3>3. ~StopForSwap(j)
      BY <1>1, Stops DEF StopForSwap
    <3>4. ~Swap(j)
      BY <1>1, <3>2 DEF JobsOK, JobType
    <3> QED
      BY <1>1, <1>2, <3>1, <3>3, <3>4, Doubted DEF Moves
  <2>2. CASE Spawn
    <3>1. jobs'[j] = jobs[j]
      BY <1>1, <2>2, SpawnIs
    <3> QED
      BY <1>1, <1>2, <3>1, Doubted
  <2>3. CASE \E s \in Snapshots : Rollback(s)
    <3>1. PICK s \in Snapshots : Rollback(s)
      BY <2>3
    <3> DEFINE job == [kind |-> "restore", at |-> "verify", target |-> None, snap |-> s,
                       mine |-> TRUE]
    <3>2. job \in JobType /\ Launch(job) /\ job.at = "verify"
      BY <3>1 DEF Rollback, JobType
    <3> HIDE DEF job
    <3>3. jobs'[j] = jobs[j]
      BY <1>1, <3>2, Launched
    <3> QED
      BY <1>1, <1>2, <3>3, Doubted
  <2> QED
    BY JobsWritten, <2>1, <2>2, <2>3
<1>4. CASE DbCommit(j)
  <2>1. /\ jobs[j].snap \in Snapshots /\ files[jobs[j].snap] # NoFile /\ files' = files
        /\ rows' = files[jobs[j].snap].rows
    BY <1>4 DEF DbCommit, Restore, Step, Tarballs, Meant, Kept, JobsOK, JobType
  <2> QED
    BY <1>2, <1>3, <2>1 DEF Reporting, HonestFiles
<1>5. CASE jobs[j].at \in {"committed", "recorded"}
  <2>1. /\ svc = "stopped" /\ j \in Unfinished /\ \A i \in Unfinished : i = j
        /\ ~BeliesAtBoot(rows, unsure, files[jobs[j].snap].bin)
    BY <1>2, <1>5 DEF Alone, Midway, Unfinished, Reporting, HonestRestore
  <2>2. call.at = "none" /\ watched = None
    BY <2>1 DEF Calls, Reporting, Serving
  <2>3. ~TakeDump /\ ~ManualSnapshot /\ ~SnapshotFails /\ ~\E s \in Snapshots : DeleteSnapshot(s)
    BY <2>1, <2>2 DEF TakeDump, ManualSnapshot, SnapshotFails, DeleteSnapshot, Serves
  <2>4. files' = files
    BY <2>3, FilesWritten
  <2>5. ~Boot /\ ~InsertRow /\ ~WatchVerdict /\ ~WatchTimesOut /\ ~\E i \in Job : HandoffFails(i)
    BY <2>1, <2>2 DEF Boot, InsertRow, WatchVerdict, WatchTimesOut, HandoffFails, WatchEnds
  <2>6. ~\E i \in Job : DbCommit(i)
    BY <1>5, <2>1 DEF DbCommit, Restore, Step, Unfinished
  <2>7. CASE \E i \in Job : RecordRollback(i)
    <3>1. PICK i \in Job : RecordRollback(i)
      BY <2>7
    <3> DEFINE s == jobs[i].snap
               row == [from |-> files[s].from, to |-> None, target |-> files[s].target]
    <3>2. /\ s \in Snapshots
          /\ rows' = rows \/ (rows[s] = NoRow /\ rows' = [rows EXCEPT ![s] = row])
      BY <3>1 DEF RecordRollback, Restore, Step, Tarballs, Meant, JobsOK, JobType
    <3>3. NoRow.to = None /\ NoRow.target = None /\ row.to = None
      BY DEF NoRow
    <3> HIDE DEF row
    <3> QED
      BY <1>2, <1>3, <2>1, <2>4, <3>2, <3>3, Added
  <2>8. CASE UNCHANGED <<rows, unsure>>
    BY <1>3, <2>1, <2>4, <2>8
  <2> QED
    BY RowsWritten, <2>3, <2>5, <2>6, <2>7, <2>8
<1> QED
  BY <1>3, <1>4, <1>5

LEMMA HonestFilesKeeps ==
  ASSUME IInv, Reporting, [Next]_vars
  PROVE  HonestFiles'
<1> USE DEF IInv, Typed
<1>1. SUFFICES ASSUME lone', ~torn', NEW s \in Snapshots, files'[s] # NoFile,
                      BeliesAtBoot(files'[s].rows, unsure', files'[s].bin)
               PROVE  FALSE
  BY DEF HonestFiles
<1>2. lone /\ ~torn /\ unsure \subseteq unsure'
  BY <1>1, Grows
<1>3. BeliesAtBoot(files'[s].rows, unsure, files'[s].bin)
  BY <1>1, <1>2, Doubted
<1>4. CASE files'[s] = files[s]
  BY <1>1, <1>2, <1>3, <1>4 DEF Reporting, HonestFiles
<1>5. CASE TakeDump \/ ManualSnapshot
  <2>1. PICK target : Snapshot(taken + 1, target)
    BY <1>5 DEF TakeDump, ManualSnapshot
  <2>2. svc = "up"
    BY <1>5 DEF TakeDump, ManualSnapshot, Serves, Calls
  <2> DEFINE f == [bin |-> binary, db |-> db, from |-> running, target |-> target, rows |-> rows]
  <2>3. files' = [files EXCEPT ![taken + 1] = f] /\ f.rows = rows /\ f.bin = binary
    BY <2>1 DEF Snapshot
  <2> HIDE DEF f
  <2>4. files'[s] = f \/ files'[s] = files[s]
    BY <2>3 DEF FilesOK
  <2>5. ~BeliesAtBoot(rows, unsure, binary)
    BY <1>2, <2>2, Softer DEF Reporting, HonestUp
  <2> QED
    BY <1>3, <1>4, <2>3, <2>4, <2>5
<1>6. CASE SnapshotFails
  BY <1>1, <1>4, <1>6 DEF SnapshotFails, FilesOK
<1>7. CASE \E r \in Snapshots : DeleteSnapshot(r)
  BY <1>1, <1>4, <1>7 DEF DeleteSnapshot, FilesOK
<1> QED
  BY FilesWritten, <1>4, <1>5, <1>6, <1>7

-----------------------------------------------------------------------------
(* The report.                                                               *)

LEMMA ReportingStarts == Init => Reporting
<1> SUFFICES ASSUME Init PROVE Reporting
  OBVIOUS
<1> USE DEF Init
<1>1. /\ \A s \in Snapshots : rows[s] = NoRow /\ files[s] = NoFile /\ files[s].rows[s] = NoRow
      /\ \A s, t \in Snapshots : files[s].rows[t] = NoRow
      /\ NoRow.to = None /\ NoRow.target = None
  BY DEF NoRow, NoFile
<1>2. Unfinished = {} /\ Updating = {} /\ \A j \in Job : jobs[j].at = "done"
  BY DEF Unfinished, Updating, NoJob
<1>3. call.at = "none" /\ call.snap = None
  BY DEF NoCall
<1>4. RowsRise /\ FilesRise /\ CallRises
  BY <1>1, <1>3, NothingAscends DEF RowsRise, FilesRise, CallRises
<1>5. Known /\ Serving
  BY <1>1, <1>2, <1>3 DEF Known, Serving, None
<1>6. Asks /\ Climbs /\ Marks
  BY <1>2, <1>3 DEF Asks, Climbs, Marks
<1>7. HonestUp
  BY <1>1 DEF HonestUp, Belies, Denied
<1>8. HonestDown /\ HonestRestore /\ HonestFiles
  BY <1>1, <1>2 DEF HonestDown, HonestRestore, HonestFiles
<1> QED
  BY <1>4, <1>5, <1>6, <1>7, <1>8 DEF Reporting

LEMMA ReportingKeeps == IInv /\ Reporting /\ [Next]_vars => Reporting'
<1> SUFFICES ASSUME IInv, Reporting, [Next]_vars PROVE Reporting'
  OBVIOUS
<1>1. RowsRise' /\ FilesRise' /\ CallRises' /\ Known' /\ Serving' /\ Asks'
  BY RowsRiseKeeps, FilesRiseKeeps, CallRisesKeeps, KnownKeeps, ServingKeeps, AsksKeeps
<1>2. Climbs' /\ Marks' /\ HonestUp' /\ HonestDown' /\ HonestRestore' /\ HonestFiles'
  BY ClimbsKeeps, MarksKeeps, HonestUpKeeps, HonestDownKeeps, HonestRestoreKeeps,
     HonestFilesKeeps
<1> QED
  BY <1>1, <1>2 DEF Reporting

\* A finite set of numbers has a greatest one.
LEMMA Greatest ==
  ASSUME NEW K \in SUBSET Nat, IsFiniteSet(K), K # {}
  PROVE  \E m \in K : \A k \in K : k <= m
<1> DEFINE Above(y) == {x \in K : x > y}
           T == {Above(y) : y \in K}
<1>1. T \subseteq SUBSET K /\ T # {}
  OBVIOUS
<1>2. IsWellFoundedOn(StrictSubsetOrdering(K), SUBSET K)
  BY FS_StrictSubsetOrderingWellFounded, FS_FiniteSubsetsOfFinite
<1>3. PICK U \in T : \A V \in T : <<V, U>> \notin StrictSubsetOrdering(K)
  <2> HIDE DEF T
  <2> QED
    BY <1>1, <1>2, WFMin
<1>4. PICK m \in K : U = Above(m)
  OBVIOUS
<1>5. ASSUME NEW k \in K, k > m
      PROVE  FALSE
  <2>1. Above(k) \subseteq Above(m) /\ Above(k) # Above(m)
    <3>1. \A x \in K : x > k => x > m
      BY <1>5
    <3>2. k \in Above(m) /\ k \notin Above(k)
      BY <1>5
    <3> QED
      BY <3>1, <3>2
  <2>2. <<Above(k), Above(m)>> \in StrictSubsetOrdering(K)
    BY <2>1 DEF StrictSubsetOrdering
  <2> QED
    BY <1>3, <1>4, <2>2
<1> QED
  BY <1>5


\* The newest row with an outcome.
LEMMA NewestIs ==
  ASSUME RowsOK, Finalized # {}
  PROVE  Newest \in Finalized /\ \A t \in Finalized : t <= Newest
<1>1. Finalized \subseteq 1 .. MaxSnapshots
  BY DEF Finalized, Rows, Snapshots
<1>2. IsFiniteSet(Finalized)
  <2>1. MaxSnapshots \in Int /\ 1 \in Int
    BY PanelUpdateAssumption
  <2>2. IsFiniteSet(1 .. MaxSnapshots)
    BY <2>1, FS_Interval
  <2> QED
    BY <1>1, <2>2, FS_Subset
<1>3. \E s \in Finalized : \A t \in Finalized : t <= s
  <2>1. Finalized \in SUBSET Nat
    BY <1>1
  <2> HIDE DEF Finalized
  <2> QED
    BY <1>2, <2>1, Greatest
<1> QED
  BY <1>3 DEF Newest

LEMMA ReportFollows ==
  ASSUME IInv, Reporting
  PROVE  ReportTrue
<1> USE DEF IInv, Typed
<1>1. SUFFICES ASSUME svc = "up", lone, ~torn
               PROVE  /\ Reported.state = "succeeded" => Reported.version = running
                      /\ Reported.state = "rolled_back" /\ Newest \notin unsure =>
                           Reported.version # running
  BY DEF ReportTrue
<1>2. Reported.state = "succeeded" => Reported.version = running
  BY DEF Reported
<1>3. ASSUME Reported.state = "rolled_back", Newest \notin unsure, Reported.version = running
      PROVE  FALSE
  <2> DEFINE s == Newest
  <2>1. /\ Finalized # {} /\ rows[s].to = rows[s].from /\ Attempted(s) # rows[s].from
        /\ Attempted(s) = running
    BY <1>3 DEF Reported
  <2>2. s \in Finalized /\ \A t \in Finalized : t <= s
    BY <2>1, NewestIs
  <2>3. Denied(rows[s]) /\ rows[s].target = running
    BY <2>1, <2>2 DEF Denied, Finalized, Attempted
  <2>4. ASSUME NEW t \in Snapshots, t > s PROVE rows[t].to = None
    <3>1. t \in Nat /\ s \in Nat
      BY <2>2 DEF Snapshots, Finalized, Rows
    <3>2. t \notin Finalized
      BY <2>2, <2>4, <3>1
    <3> QED
      BY <3>2 DEF Finalized, Rows, NoRow
  <2>5. s \in Snapshots
    BY <2>2 DEF Finalized, Rows
  <2> HIDE DEF s
  <2>6. Belies(rows, unsure, running)
    BY <1>3, <2>3, <2>4, <2>5 DEF Belies, s
  <2> QED
    BY <1>1, <2>6 DEF Reporting, HonestUp, Serving
<1> QED
  BY <1>2, <1>3

\* current_state: what the panel says went through is what runs, and what it says
\* was rolled back is not.
THEOREM ReportHonest == Spec => []ReportTrue
<1>1. Init => IInv /\ Reporting
  BY Initially, ReportingStarts
<1>2. (IInv /\ Reporting) /\ [Next]_vars => (IInv /\ Reporting)'
  BY StepKeeps, ReportingKeeps
<1>3. IInv /\ Reporting => ReportTrue
  BY ReportFollows
<1> QED
  BY <1>1, <1>2, <1>3, PTL DEF Spec
-----------------------------------------------------------------------------
(* Who starts a stopped panel.                                              *)

\* The scripts that have stopped the api and have yet to start it, on every way out.
Owes == {j \in Job : jobs[j].at \in {"stopped", "swapped", "undo", "reverted"}}

\* A panel that is stopped is owed a start by a script that is still at work, unless
\* a restore has left it half put back.  Overlapping scripts make no difference.  This
\* is what PanelComesBack needs of every state; the rest of it is fairness.
StoppedIsOwed == svc = "stopped" => half \/ Owes # {}

\* The scripts that owe a start go on owing it.
LEMMA OwedStays ==
  ASSUME StoppedIsOwed, Owes \subseteq Owes', UNCHANGED <<svc, half>>
  PROVE  StoppedIsOwed'
  BY DEF StoppedIsOwed

LEMMA StepOwes ==
  ASSUME JobsOK, NEW j \in Job, NEW kind, NEW from, NEW to, Step(j, kind, from, to)
  PROVE  /\ from \notin {"stopped", "swapped", "undo", "reverted"} => Owes \subseteq Owes'
         /\ to \in {"stopped", "swapped", "undo", "reverted"} => j \in Owes'
  BY DEF Step, Owes, JobsOK, JobType, NoJob

LEMMA StopOwes ==
  ASSUME JobsOK, NEW j \in Job, NEW kind, NEW from, NEW to, StopApiOf(j, kind, from, to),
         to \in {"stopped", "undo"}
  PROVE  j \in Owes'
  BY DEF StopApiOf, Orphans, Owes, JobsOK, JobType

LEMMA OrphansOwe ==
  ASSUME JobsOK, jobs' = Orphans(jobs)
  PROVE  Owes \subseteq Owes'
  BY DEF Orphans, Owes, JobsOK, JobType

LEMMA LaunchOwes ==
  ASSUME JobsOK, NEW job, Launch(job)
  PROVE  Owes \subseteq Owes'
  BY DEF Launch, Unfinished, Owes, JobsOK, JobType

LEMMA OwedKept ==
  ASSUME Typed, StoppedIsOwed, [Next]_vars
  PROVE  StoppedIsOwed'
<1> USE DEF Typed
<1>1. CASE Boot \/ Crash \/ PowerLoss
  BY <1>1 DEF Boot, Crash, PowerLoss, EndProcess, StoppedIsOwed
<1>2. CASE Call
  <2>1. UNCHANGED <<svc, half>>
    BY <1>2 DEF Call, CountPending, TakeDump, InsertRow, SnapshotFails, Spawn,
        ghosts, restore
  <2>2. jobs' = jobs \/ \E job : Launch(job)
    BY <1>2 DEF Call, CountPending, TakeDump, InsertRow, SnapshotFails, Spawn
  <2>3. Owes \subseteq Owes'
    BY <2>2, LaunchOwes DEF Owes
  <2> QED
    BY <2>1, <2>3, OwedStays
<1>3. CASE ManualSnapshot \/ (\E v \in Versions : Reserve(v)) \/ (\E s \in Snapshots : Age(s))
           \/ (\E s \in Snapshots : DeleteSnapshot(s))
  <2>1. UNCHANGED <<svc, half, jobs>>
    BY <1>3 DEF ManualSnapshot, Reserve, Age, DeleteSnapshot, panel, ghosts, restore
  <2> QED
    BY <2>1, OwedStays DEF Owes
<1>4. ASSUME NEW s \in Snapshots, Rollback(s)
      PROVE  StoppedIsOwed'
  <2>1. UNCHANGED <<svc, half>> /\ \E job : Launch(job)
    BY <1>4 DEF Rollback, restore
  <2> QED
    BY <2>1, LaunchOwes, OwedStays
<1>5. CASE Watch
  <2>1. UNCHANGED <<svc, half>>
    BY <1>5 DEF Watch, WatchVerdict, WatchTimesOut, HandoffFails, WatchEnds, ghosts, restore
  <2>2. CASE jobs' = jobs \/ jobs' = Orphans(jobs)
    BY <2>1, <2>2, OrphansOwe, OwedStays DEF Owes
  <2>3. CASE \E j \in Job : HandoffFails(j)
    <3>1. Owes \subseteq Owes'
      BY <2>3 DEF HandoffFails, Owes, JobsOK, JobType
    <3> QED
      BY <2>1, <3>1, OwedStays
  <2> QED
    BY <1>5, <2>2, <2>3 DEF Watch, WatchVerdict, WatchTimesOut
<1>6. ASSUME NEW j \in Job, StopForSwap(j) \/ HealthFails(j) \/ StopForRestore(j)
      PROVE  StoppedIsOwed'
  <2>1. j \in Owes'
    BY <1>6, StopOwes DEF StopForSwap, HealthFails, StopForRestore
  <2> QED
    BY <2>1 DEF StoppedIsOwed
<1>7. ASSUME NEW j \in Job, Swap(j) \/ RevertApi(j)
      PROVE  StoppedIsOwed'
  <2>1. j \in Owes'
    BY <1>7, StepOwes DEF Swap, RevertApi, Update, Restore
  <2> QED
    BY <2>1 DEF StoppedIsOwed
<1>8. ASSUME NEW j \in Job, SwapFails(j) \/ StartNew(j) \/ PutBack(j) \/ StartRestored(j)
      PROVE  StoppedIsOwed'
  BY <1>8 DEF SwapFails, StartNew, PutBack, StartRestored, StartApi, StoppedIsOwed
<1>9. ASSUME NEW j \in Job, PrepareFails(j) \/ HealthOk(j)
      PROVE  StoppedIsOwed'
  <2>1. UNCHANGED <<svc, half>>
    BY <1>9 DEF PrepareFails, HealthOk, restore
  <2>2. Owes \subseteq Owes'
    BY <1>9, StepOwes DEF PrepareFails, HealthOk, Update
  <2> QED
    BY <2>1, <2>2, OwedStays
<1>10. ASSUME NEW j \in Job, VerifyFails(j) \/ RecordRollback(j) \/ SkipApi(j) \/ RestoreEnds(j)
       PROVE  StoppedIsOwed'
  <2>1. UNCHANGED <<svc, half>>
    BY <1>10 DEF VerifyFails, RecordRollback, SkipApi, RestoreEnds, panel, restore
  <2>2. Owes \subseteq Owes'
    BY <1>10, StepOwes DEF VerifyFails, RecordRollback, SkipApi, RestoreEnds, Restore
  <2> QED
    BY <2>1, <2>2, OwedStays
<1>11. ASSUME NEW j \in Job, DbCommit(j)
       PROVE  StoppedIsOwed'
  BY <1>11 DEF DbCommit, StoppedIsOwed
<1>12. ASSUME NEW j \in Job, RestoreFails(j)
       PROVE  StoppedIsOwed'
  <2>1. CASE jobs[j].at \in {"stopped", "reverted"}
    BY <1>12, <2>1 DEF RestoreFails, OnExit, RollbackWouldBeUndone, StartApi, StoppedIsOwed
  <2>2. CASE jobs[j].at = "recorded"
    <3>1. UNCHANGED <<svc, half>>
      BY <1>12, <2>2 DEF RestoreFails, OnExit, RollbackWouldBeUndone, restore
    <3>2. Owes \subseteq Owes'
      BY <1>12, <2>2, StepOwes DEF RestoreFails, Restore
    <3> QED
      BY <3>1, <3>2, OwedStays
  <2> QED
    BY <1>12, <2>1, <2>2 DEF RestoreFails
<1>13. CASE UNCHANGED vars
  BY <1>13 DEF vars, panel, ghosts, restore, StoppedIsOwed, Owes
<1> QED
  BY <1>1, <1>2, <1>3, <1>4, <1>5, <1>6, <1>7, <1>8, <1>9, <1>10, <1>11, <1>12, <1>13
  DEF Next, Script, UpdateScript, RestoreScript

\* update.sh and restore-snapshot.sh: whatever stage fails and whoever overlaps, the
\* script that stopped the api starts it again, or leaves a database that an api would
\* migrate forward.
THEOREM StoppedIsStarted == Spec => []StoppedIsOwed
<1>1. Init => StoppedIsOwed
  BY DEF Init, StoppedIsOwed
<1>2. IInv /\ StoppedIsOwed /\ [Next]_vars => StoppedIsOwed'
  BY OwedKept DEF IInv
<1> QED
  BY <1>1, <1>2, UpdateInvariant, PTL DEF Spec
=============================================================================
