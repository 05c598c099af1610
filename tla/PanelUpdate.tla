---------------------------- MODULE PanelUpdate ----------------------------
(***************************************************************************)
(* The panel replaces itself: start_panel_update and rollback_to_snapshot  *)
(* (backend/src/services/panel_update.rs), the snapshots they take and     *)
(* restore (panel_snapshot.rs), and the two scripts that do the work,      *)
(* scripts/update.sh and scripts/restore-snapshot.sh.  The scripts stop    *)
(* the api that started them and outlive it: what was in its memory, the   *)
(* guard against a second run, is lost halfway, and the api that comes up  *)
(* afterwards has the rows of panel_snapshots and nothing else to go by.   *)
(* A version stands for the schema it migrates the database to.            *)
(***************************************************************************)
EXTENDS Naturals, FiniteSets

CONSTANTS
  MaxVersion,   \* the releases are 1 .. MaxVersion
  MaxSnapshots, \* bound: snapshots taken
  MaxScripts,   \* bound: script runs that are under way together
  MaxFaults     \* bound: crashes of the api, power losses and startups that fail to stamp

ASSUME PanelUpdateAssumption ==
  /\ {MaxVersion, MaxSnapshots, MaxScripts} \subseteq Nat \ {0}
  /\ MaxFaults \in Nat

VARIABLES
  svc,      \* dockpanel-api.service: "up", "starting" or "stopped"
  running,  \* the version of the api process, None without one
  binary,   \* /usr/local/bin/dockpanel-api
  bak,      \* the .bak beside it
  db,       \* the newest migration in the database
  inFlight, \* the process' UpdateState is InFlight
  call,     \* start_panel_update under way: [at, target, snap]
  watched,  \* the snapshot of the update the task behind it waits for
  verdict,  \* last-panel-update.json, as far as that task will read it
  rows,     \* panel_snapshots: [from, to, target], target None when manual
  files,    \* the tarballs: what was in the panel when they were made
  taken,    \* snapshots so far, which are 1 .. taken in the order of created_at
  aged,     \* the snapshots older than IN_FLIGHT_WINDOW_MIN
  jobs,     \* the scripts: [kind, at, target, snap, mine]
  faults,
  \* history: the version the last restore put back, until an update; its api is
  \* still missing; no two
  \* scripts ever overlapped; power was lost between the two halves of a
  \* restore; rows whose outcome was written before it was there, or that a
  \* deletion or a failed stamp of a later one has made the newest
  restored, half, lone, torn, unsure

process  == <<inFlight, call, watched, verdict>>
panel    == <<svc, running, process>>
disk     == <<binary, bak, db>>
history  == <<rows, taken, aged, unsure>>
restore  == <<restored, half>>
ghosts   == <<restore, lone, torn>>
vars == <<panel, disk, history, files, jobs, faults, ghosts>>

None == 0
Abandoned == MaxVersion + 1
Versions == 1 .. MaxVersion
Snapshots == 1 .. MaxSnapshots
Job == 1 .. MaxScripts
NoRow == [from |-> None, to |-> None, target |-> None]
NoFile == [bin |-> None, db |-> None,
           from |-> None, target |-> None, rows |-> [s \in Snapshots |-> NoRow]]
NoCall == [at |-> "none", target |-> None, snap |-> None]
NoJob == [kind |-> "none", at |-> "done", target |-> None, snap |-> None, mine |-> FALSE]

\* A panel that was just installed.
Init ==
  /\ svc = "up" /\ running = 1 /\ binary = 1 /\ bak = None /\ db = 1
  /\ inFlight = FALSE /\ call = NoCall /\ watched = None
  /\ verdict = "none" /\ taken = 0 /\ aged = {} /\ unsure = {}
  /\ rows = [s \in Snapshots |-> NoRow] /\ files = [s \in Snapshots |-> NoFile]
  /\ jobs = [j \in Job |-> NoJob] /\ faults = 0
  /\ restored = None /\ half = FALSE /\ lone = TRUE /\ torn = FALSE

Larger(m, n) == IF m > n THEN m ELSE n
Rows == {s \in Snapshots : rows[s] # NoRow}
Unfinished == {j \in Job : jobs[j].at # "done"}

\* to_version IS NULL AND trigger <> 'manual': an update that has no outcome yet.
Pending == {s \in Rows : rows[s].to = None /\ rows[s].target # None}
PendingNow == Pending \ aged

\* An outcome written while a script is still at work, other than by the api that
\* the script put there.
TooEarly(v) == \E j \in Unfinished : jobs[j].kind = "update" /\ v # jobs[j].target

\* Bound: once two scripts have overlapped, what becomes of them and of the panel
\* is followed, but no request, crash or age that comes on top.
Serves == svc = "up" /\ lone

-----------------------------------------------------------------------------
\* The process goes, and with it the reservation and whoever waits for a script.
EndProcess(state) ==
  /\ svc' = state /\ running' = None
  /\ inFlight' = FALSE /\ call' = NoCall /\ watched' = None /\ verdict' = "none"

Orphans(js) == [j \in Job |-> [js[j] EXCEPT !.mine = FALSE]]

\* systemctl start of the api, from a script.
StartApi == svc' = IF svc = "stopped" THEN "starting" ELSE svc

\* finalize_pending_on_startup stamps the rows of S: each recent one by an UPDATE of
\* its own, the old ones together, none after a read that fails.  A failure is only
\* logged, and leaves the row before it to speak for the last update.
Finalize(S) ==
  /\ S \cap aged \in {{}, Pending \cap aged}
  /\ rows' = [s \in Snapshots |->
       IF s \notin S THEN rows[s]
       ELSE [rows[s] EXCEPT !.to = IF s \in aged THEN Abandoned ELSE binary]]
  /\ unsure' = unsure \cup {s \in S : TooEarly(rows'[s].to)}
                      \cup {t \in Rows : \E s \in Pending \ S : t < s}

\* main: the migrations, then the rows of updates that have no outcome yet.
Boot ==
  /\ svc = "starting"
  /\ svc' = "up" /\ running' = binary
  /\ db' = Larger(db, binary)
  /\ \/ Finalize(Pending) /\ UNCHANGED faults
     \/ /\ faults < MaxFaults /\ faults' = faults + 1
        /\ \E S \in SUBSET Pending : Finalize(S)
  /\ UNCHANGED <<process, binary, bak, files, taken, aged, jobs, ghosts>>

\* The api dies and systemd starts it again (Restart=always).
Crash ==
  /\ Serves /\ faults < MaxFaults
  /\ faults' = faults + 1
  /\ EndProcess("starting")
  /\ jobs' = Orphans(jobs)
  /\ UNCHANGED <<disk, history, files, ghosts>>

\* Power is lost: no trap runs, and the enabled unit starts what is installed.
PowerLoss ==
  /\ faults < MaxFaults
  /\ faults' = faults + 1
  /\ EndProcess("starting")
  /\ jobs' = [j \in Job |-> NoJob]
  /\ torn' = (torn \/ half)
  /\ half' = FALSE /\ restored' = IF torn' THEN None ELSE restored
  /\ UNCHANGED <<disk, history, files, lone>>

\* Fifteen minutes pass; the age of a manual snapshot does not matter.
Age(s) ==
  /\ lone /\ s \in 1 .. taken \ aged /\ files[s].target # None
  /\ \A t \in 1 .. s - 1 : files[t].target # None => t \in aged
  /\ aged' = aged \cup {s}
  /\ UNCHANGED <<panel, disk, rows, files, taken, unsure, jobs, faults, ghosts>>

-----------------------------------------------------------------------------
\* start_panel_update.  apply_update has checked that the release is a newer one.
\* The state and the guard on it are one write lock.
Reserve(v) ==
  /\ Serves /\ v > running /\ call = NoCall
  /\ ~inFlight
  /\ inFlight' = TRUE
  /\ call' = [at |-> "count", target |-> v, snap |-> None]
  /\ UNCHANGED <<svc, running, watched, verdict, disk, history, files, jobs, faults, ghosts>>

Release == inFlight' = FALSE /\ call' = NoCall /\ verdict' = "none"
Hold == UNCHANGED <<inFlight, verdict>>

\* A failing COUNT returns by `?` and keeps the reservation.
CountPending ==
  /\ call.at = "count"
  /\ \/ PendingNow # {} /\ Release
     \/ PendingNow = {} /\ call' = [call EXCEPT !.at = "dump"] /\ Hold
     \/ call' = NoCall /\ Hold
  /\ UNCHANGED <<svc, running, watched, disk, history, files, jobs, faults, ghosts>>

\* build_snapshot_inner: binaries and database as they are; the row of the
\* snapshot itself is not in its dump.
Snapshot(s, target) ==
  /\ s = taken + 1 /\ s \in Snapshots
  /\ taken' = s
  /\ files' = [files EXCEPT ![s] =
       [bin |-> binary, db |-> db,
        from |-> running, target |-> target, rows |-> rows]]

TakeDump ==
  /\ call.at = "dump"
  /\ Snapshot(taken + 1, call.target)
  /\ call' = [call EXCEPT !.at = "insert", !.snap = taken + 1]
  /\ UNCHANGED <<svc, running, inFlight, watched, verdict, disk, rows, aged, unsure, jobs,
                 faults, ghosts>>

InsertRow ==
  /\ call.at = "insert"
  /\ rows' = [rows EXCEPT ![call.snap] =
       [from |-> running, to |-> None, target |-> call.target]]
  /\ call' = [call EXCEPT !.at = "spawn"]
  /\ UNCHANGED <<svc, running, inFlight, watched, verdict, disk, taken, aged, unsure, files,
                 jobs, faults, ghosts>>

SnapshotFails ==
  /\ call.at \in {"dump", "insert"}
  /\ Release
  /\ files' = IF call.snap = None THEN files ELSE [files EXCEPT ![call.snap] = NoFile]
  /\ UNCHANGED <<svc, running, watched, disk, history, jobs, faults, ghosts>>

Launch(job) ==
  \E j \in Job \ Unfinished :
    /\ \A k \in Job \ Unfinished : j <= k
    /\ jobs' = [jobs EXCEPT ![j] = job]
    /\ lone' = (lone /\ Unfinished = {})

\* A spawn that fails returns by `?` and keeps the reservation, too.
Spawn ==
  /\ call.at = "spawn"
  /\ call' = NoCall
  /\ \/ /\ Launch([kind |-> "update", at |-> "prepare", target |-> call.target,
                   snap |-> call.snap, mine |-> TRUE])
        /\ watched' = call.snap /\ UNCHANGED verdict
     \/ verdict' = "none" /\ UNCHANGED <<jobs, lone, watched>>
  /\ UNCHANGED <<svc, running, inFlight, disk, history, files, faults, restore, torn>>

\* POST /api/snapshots: a safety snapshot.
ManualSnapshot ==
  /\ Serves
  /\ Snapshot(taken + 1, None)
  /\ rows' = [rows EXCEPT ![taken + 1] = [from |-> running, to |-> None, target |-> None]]
  /\ UNCHANGED <<panel, disk, aged, unsure, jobs, faults, ghosts>>

\* delete_snapshot and retention_sweep: the file, then the row.
DeleteSnapshot(s) ==
  /\ Serves /\ s \in Rows
  /\ files' = [files EXCEPT ![s] = NoFile]
  /\ rows' = [rows EXCEPT ![s] = NoRow]
  /\ unsure' = unsure \cup {t \in Rows : t < s}
  /\ UNCHANGED <<panel, disk, taken, aged, jobs, faults, ghosts>>

RollbackUnguarded(s) ==
  /\ Serves /\ s \in Rows /\ files[s] # NoFile
  /\ inFlight' = TRUE
  /\ Launch([kind |-> "restore", at |-> "verify", target |-> None, snap |-> s, mine |-> TRUE])
  /\ UNCHANGED <<svc, running, call, watched, verdict, disk, history, files, faults, restore, torn>>

\* rollback_to_snapshot.  A snapshot that spawn_restore refuses gives the
\* reservation back, and nothing happened.
Rollback(s) ==
  /\ Serves /\ s \in Rows /\ files[s] # NoFile
  /\ ~inFlight
  /\ inFlight' = TRUE
  /\ Launch([kind |-> "restore", at |-> "verify", target |-> None, snap |-> s, mine |-> TRUE])
  /\ UNCHANGED <<svc, running, call, watched, verdict, disk, history, files, faults, restore, torn>>

-----------------------------------------------------------------------------
\* The task behind start_panel_update.  The verdict is anybody's who wrote one
\* since the reservation; finalize_failed_update logs an error and goes on.
StampFailed ==
  /\ inFlight' = FALSE
  /\ \/ watched \in Pending /\ rows' = [rows EXCEPT ![watched].to = running]
     \/ rows' = rows
  /\ unsure' = IF TooEarly(running) THEN unsure \cup {watched} ELSE unsure

WatchEnds ==
  /\ watched # None /\ watched' = None /\ verdict' = "none"
  /\ UNCHANGED <<svc, running, call, disk, taken, aged, files, faults, ghosts>>

WatchVerdict ==
  /\ verdict # "none"
  /\ WatchEnds
  /\ \/ verdict = "true" /\ UNCHANGED <<inFlight, rows, unsure, jobs>>
     \/ verdict = "false" /\ StampFailed /\ jobs' = Orphans(jobs)

\* PID1 refuses the unit: the script never ran.
HandoffFails(j) ==
  /\ jobs[j].at = "prepare" /\ jobs[j].snap = watched
  /\ WatchEnds
  /\ StampFailed
  /\ jobs' = [jobs EXCEPT ![j] = NoJob]

\* RESULT_WATCH_SECS without a verdict, which is as long as the window.
WatchTimesOut ==
  /\ watched \in aged
  /\ WatchEnds
  /\ StampFailed
  /\ jobs' = Orphans(jobs)

-----------------------------------------------------------------------------
\* update.sh.  Every way out writes a verdict and starts what it had stopped.
Verdict(v) == verdict' = IF call # NoCall \/ watched # None THEN v ELSE "none"

Step(j, kind, from, to) ==
  /\ jobs[j].kind = kind /\ jobs[j].at = from
  /\ jobs' = [jobs EXCEPT ![j] = IF to = "done" THEN NoJob ELSE [@ EXCEPT !.at = to]]
  /\ UNCHANGED <<taken, aged, unsure, files, faults, lone, torn>>

Update(j, from, to) == Step(j, "update", from, to) /\ UNCHANGED <<db, rows>>

\* A stage before the swap fails: preflight, sync, backup, download.
PrepareFails(j) ==
  /\ Update(j, "prepare", "done")
  /\ Verdict("false")
  /\ UNCHANGED <<svc, running, inFlight, call, watched, binary, bak, restore>>

StopApiOf(j, kind, from, to) ==
  /\ jobs[j].kind = kind /\ jobs[j].at = from
  /\ EndProcess("stopped")
  /\ jobs' = Orphans([jobs EXCEPT ![j].at = to])
  /\ UNCHANGED <<history, files, faults, lone, torn>>

StopForSwap(j) ==
  /\ StopApiOf(j, "update", "prepare", "stopped")
  /\ bak' = binary
  /\ UNCHANGED <<binary, db, restore>>

Swap(j) ==
  /\ Update(j, "stopped", "swapped")
  /\ binary' = jobs[j].target
  /\ restored' = None /\ half' = FALSE
  /\ UNCHANGED <<panel, bak>>

SwapFailsDark(j) ==
  /\ jobs[j].at \in {"stopped", "swapped"}
  /\ Update(j, jobs[j].at, "done")
  /\ Verdict("false")
  /\ UNCHANGED <<svc, running, inFlight, call, watched, binary, bak, restore>>

\* set -e: the trap brings back what is installed by then.
SwapFails(j) ==
  /\ jobs[j].at \in {"stopped", "swapped"}
  /\ Update(j, jobs[j].at, "done")
  /\ StartApi /\ Verdict("false")
  /\ UNCHANGED <<running, inFlight, call, watched, binary, bak, restore>>

StartNew(j) ==
  /\ Update(j, "swapped", "health")
  /\ StartApi
  /\ UNCHANGED <<running, process, binary, bak, restore>>

HealthOk(j) ==
  /\ svc = "up"
  /\ Update(j, "health", "done")
  /\ Verdict("true")
  /\ bak' = None
  /\ UNCHANGED <<svc, running, inFlight, call, watched, binary, restore>>

HealthFails(j) ==
  /\ StopApiOf(j, "update", "health", "undo")
  /\ UNCHANGED <<disk, restore>>

PutBackUnchecked(j) ==
  /\ Update(j, "undo", "done")
  /\ binary' = bak /\ bak' = None
  /\ StartApi /\ Verdict("false")
  /\ UNCHANGED <<running, inFlight, call, watched, restore>>

\* rollback(): mv the .bak back, unless that fails.
PutBack(j) ==
  /\ Update(j, "undo", "done")
  /\ \/ bak # None /\ binary' = bak /\ bak' = None
     \/ UNCHANGED <<binary, bak>>
  /\ StartApi /\ Verdict("false")
  /\ UNCHANGED <<running, inFlight, call, watched, restore>>

UpdateScript(j) ==
  \/ PrepareFails(j) \/ StopForSwap(j) \/ Swap(j) \/ SwapFails(j)
  \/ StartNew(j) \/ HealthOk(j) \/ HealthFails(j) \/ PutBack(j)

-----------------------------------------------------------------------------
\* restore-snapshot.sh
Restore(j, from, to) == Step(j, "restore", from, to) /\ UNCHANGED bak

VerifyFails(j) ==
  /\ Restore(j, "verify", "done")
  /\ UNCHANGED <<panel, binary, db, rows, restore>>

StopForRestore(j) ==
  /\ StopApiOf(j, "restore", "verify", "stopped")
  /\ files[jobs[j].snap] # NoFile
  /\ UNCHANGED <<disk, restore>>

\* db_committed /\ ~api_reverted: the installed api would migrate it forward.
RollbackWouldBeUndone(j) == jobs[j].at \in {"committed", "recorded"}

OnExitStarts(j) == StartApi

\* on_exit
OnExit(j) ==
  IF RollbackWouldBeUndone(j) THEN UNCHANGED svc ELSE StartApi

\* A failed transaction, a binary that cannot be moved, /etc, the agent.
RestoreFails(j) ==
  /\ jobs[j].at \in {"stopped", "recorded", "reverted"}
  /\ Restore(j, jobs[j].at, "done")
  /\ OnExit(j)
  /\ UNCHANGED <<running, process, binary, db, rows, restore>>

\* The schema is dropped and rebuilt in one transaction, panel_snapshots with it.
DbCommit(j) ==
  /\ Restore(j, "stopped", "committed")
  /\ db' = files[jobs[j].snap].db /\ rows' = files[jobs[j].snap].rows
  /\ restored' = db' /\ half' = TRUE
  /\ UNCHANGED <<panel, binary>>

\* The dump is older than the row of its snapshot, which is put back by hand, as
\* far as that works.
RecordRollback(j) ==
  LET s == jobs[j].snap IN
  /\ Restore(j, "committed", "recorded")
  /\ \/ rows' = rows
     \/ /\ rows[s] = NoRow
        /\ rows' = [rows EXCEPT ![s] =
             [from |-> files[s].from, to |-> None, target |-> files[s].target]]
  /\ UNCHANGED <<panel, binary, db, restore>>

RevertApi(j) ==
  /\ Restore(j, "recorded", "reverted")
  /\ binary' = files[jobs[j].snap].bin
  /\ half' = FALSE
  /\ UNCHANGED <<panel, db, rows, restored>>

\* The snapshot carries no api, whose binary was not there when it was taken: the
\* panel is left stopped, whatever the stages that are left come to.
SkipApi(j) ==
  /\ Restore(j, "recorded", "done")
  /\ UNCHANGED <<panel, binary, db, rows, restore>>

StartRestored(j) ==
  /\ Restore(j, "reverted", "health")
  /\ StartApi
  /\ UNCHANGED <<running, process, binary, db, rows, restore>>

\* Healthy or not, the services stay as they are.
RestoreEnds(j) ==
  /\ Restore(j, "health", "done")
  /\ UNCHANGED <<panel, binary, db, rows, restore>>

RestoreScript(j) ==
  \/ VerifyFails(j) \/ StopForRestore(j) \/ RestoreFails(j) \/ DbCommit(j)
  \/ RecordRollback(j) \/ RevertApi(j) \/ SkipApi(j) \/ StartRestored(j)
  \/ RestoreEnds(j)

-----------------------------------------------------------------------------
Call == CountPending \/ TakeDump \/ InsertRow \/ SnapshotFails \/ Spawn
Watch == WatchVerdict \/ WatchTimesOut \/ \E j \in Job : HandoffFails(j)
Script(j) == UpdateScript(j) \/ RestoreScript(j)

Next ==
  \/ Boot \/ Crash \/ PowerLoss \/ Call \/ ManualSnapshot
  \/ \E v \in Versions : Reserve(v)
  \/ \E s \in Snapshots : Age(s) \/ DeleteSnapshot(s) \/ Rollback(s)
  \/ Watch \/ \E j \in Job : Script(j)

Spec == Init /\ [][Next]_vars

\* A script that runs comes to its end, and systemd starts what is to be started.
Fairness == WF_vars(Boot) /\ \A j \in Job : WF_vars(Script(j))
FairSpec == Spec /\ Fairness

-----------------------------------------------------------------------------
\* Type correctness of the service, the files on the disk, the process' memory,
\* the rows, the tarballs and the scripts.
RowType == [from : Versions \cup {None}, to : 0 .. Abandoned, target : Versions \cup {None}]
RowsType == [Snapshots -> RowType]
TypeOK ==
  /\ svc \in {"up", "starting", "stopped"} /\ (running # None <=> svc = "up")
  /\ {running, bak} \subseteq Versions \cup {None} /\ {binary, db} \subseteq Versions
  /\ inFlight \in BOOLEAN /\ verdict \in {"none", "true", "false"}
  /\ call \in [at : {"none", "count", "dump", "insert", "spawn"},
               target : Versions \cup {None}, snap : Snapshots \cup {None}]
  /\ watched \in Snapshots \cup {None} /\ taken \in 0 .. MaxSnapshots /\ aged \subseteq 1 .. taken
  /\ rows \in RowsType
  /\ files \in [Snapshots -> [bin : Versions \cup {None},
                              db : Versions \cup {None}, from : Versions \cup {None},
                              target : Versions \cup {None}, rows : RowsType]]
  /\ jobs \in [Job -> [kind : {"none", "update", "restore"},
                       at : {"done", "prepare", "stopped", "swapped", "health", "undo",
                             "verify", "committed", "recorded", "reverted"},
                       target : Versions \cup {None}, snap : Snapshots \cup {None},
                       mine : BOOLEAN]]
  /\ faults \in 0 .. MaxFaults
  /\ restored \in Versions \cup {None} /\ {half, lone, torn} \subseteq BOOLEAN
  /\ unsure \subseteq Snapshots

\* What a rollback put back stays put back: whatever fails after the restore has
\* committed, no api of a newer release ever comes up over the restored database
\* and migrates it forward, until an update is asked for.  Two scripts at work at
\* once and a loss of power between the two halves of a restore can undo it.
RollbackHolds == lone /\ ~torn /\ restored # None => db = restored

\* A script is started while another one is at work only when the api that
\* guarded the first one is gone, or has given it up.
GuardHolds ==
  [][\A j, k \in Job :
       /\ lone /\ jobs[j].at = "done" /\ jobs'[j].at # "done"
       /\ jobs[k].at # "done"
       => ~jobs[k].mine]_vars

\* current_state: what the panel says of the last update.
Finalized == {s \in Rows : rows[s].to # None}
Newest == CHOOSE s \in Finalized : \A t \in Finalized : t <= s
Attempted(s) == IF rows[s].target = None THEN rows[s].to ELSE rows[s].target
ReportedAsStamped ==
  IF inFlight \/ PendingNow # {} THEN [state |-> "in_flight", version |-> None]
  ELSE IF Finalized = {} THEN [state |-> "idle", version |-> None]
  ELSE LET s == Newest IN
    IF rows[s].to # rows[s].from
    THEN [state |-> "succeeded", version |-> rows[s].to]
    ELSE IF Attempted(s) # rows[s].from
         THEN [state |-> "rolled_back", version |-> Attempted(s)]
         ELSE [state |-> "idle", version |-> None]

Reported ==
  IF inFlight \/ PendingNow # {} THEN [state |-> "in_flight", version |-> None]
  ELSE IF Finalized = {} THEN [state |-> "idle", version |-> None]
  ELSE LET s == Newest IN
    IF rows[s].to = rows[s].from
    THEN IF Attempted(s) # rows[s].from
         THEN [state |-> "rolled_back", version |-> Attempted(s)]
         ELSE [state |-> "idle", version |-> None]
    ELSE IF rows[s].to # running
         THEN [state |-> "rolled_back", version |-> rows[s].to]
         ELSE [state |-> "succeeded", version |-> rows[s].to]

\* The panel never says that an update went through which is not what runs, or
\* that it was rolled back when it is; but for an outcome that somebody wrote
\* while the script was still at work, one that speaks for the last update only
\* because the row of a later one was deleted or could not be stamped at a start,
\* for two scripts at work at once, and for a restore that a loss of power cut in
\* two.
ReportTrue ==
  svc = "up" /\ lone /\ ~torn =>
    /\ Reported.state = "succeeded" => Reported.version = running
    /\ Reported.state = "rolled_back" /\ Newest \notin unsure => Reported.version # running

\* A stopped panel comes back, whatever becomes of the script that stopped it:
\* only a restore whose second half failed leaves it down, on purpose.
PanelComesBack == svc = "stopped" ~> (svc = "up" \/ half)
=============================================================================
