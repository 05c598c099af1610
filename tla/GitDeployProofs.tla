--------------------------- MODULE GitDeployProofs ---------------------------
(***************************************************************************)
(* The build lock of a git deployment, proved for every number of requests *)
(* and images, every window and every budget that satisfies                *)
(* BudgetAssumption.                                                       *)
(***************************************************************************)
EXTENDS GitDeploy, TLAPS

\* Why one build runs at a time: the row of a running build says 'building' and
\* its clock has not run longer than the calls of the build, which fit the window.
IInv == TypeOK /\ OneBuild /\ LockClock /\ InBudget

\* A call that starts within its reach ends within the window, and within the
\* reach of the phase that follows it.
LEMMA ReachFits ==
  ASSUME NEW p \in LockPhase
  PROVE  Reach(p) \in Nat /\ Reach(p) + Budget[p] <= Window
BY ConstantsAssumption, BudgetAssumption DEF Reach, LockPhase, AfterPhase, TimedPhase

LEMMA FieldType ==
  ASSUME NEW r \in TaskRecord
  PROVE  /\ \A b \in BOOLEAN : [r EXCEPT !.revoked = b] \in TaskRecord
         /\ \A i \in Tag : [r EXCEPT !.image = i] \in TaskRecord
BY DEF TaskRecord

LEMMA AtType ==
  ASSUME TypeOK, NEW t \in Task, NEW p \in Phase
  PROVE  At(t, p) \in TaskRecord
BY DEF TypeOK, At, Idle, TaskRecord, Phase, TimedPhase, Tag, AnyDoor

LEMMA WriteStatusType ==
  ASSUME TypeOK, NEW s \in Status, WriteStatus(s)
  PROVE  exists' \in BOOLEAN /\ status' \in Status /\ age' \in 0 .. Window + 1
BY ConstantsAssumption DEF TypeOK, WriteStatus

LEMMA RecordType ==
  ASSUME TypeOK, NEW i \in Tag, NEW ok \in BOOLEAN, Record(i, ok)
  PROVE  history' \in Seq([image : Tag, ok : BOOLEAN])
<1>1. CASE UNCHANGED history
  BY <1>1 DEF TypeOK
<1>2. CASE exists /\ history' = Append(history, [image |-> i, ok |-> ok])
  <2>1. [image |-> i, ok |-> ok] \in [image : Tag, ok : BOOLEAN]
    OBVIOUS
  <2>2. history \in Seq([image : Tag, ok : BOOLEAN])
    BY DEF TypeOK
  <2> QED
    BY <1>2, <2>1, <2>2
<1> QED
  BY <1>1, <1>2 DEF Record

LEMMA SeqElement ==
  ASSUME NEW S, NEW s \in Seq(S), NEW k \in DOMAIN s
  PROVE  s[k] \in S
OBVIOUS

LEMMA HistoryType ==
  ASSUME TypeOK, NEW k \in DOMAIN history
  PROVE  history[k].image \in Tag
<1>1. history \in Seq([image : Tag, ok : BOOLEAN])
  BY DEF TypeOK
<1>2. history[k] \in [image : Tag, ok : BOOLEAN]
  BY <1>1, SeqElement
<1> QED
  BY <1>2

LEMMA RevokeType ==
  ASSUME TypeOK, NEW S
  PROVE  RevokeAllBut(S) \in [Task -> TaskRecord]
BY DEF TypeOK, RevokeAllBut, TaskRecord

LEMMA TaskType ==
  ASSUME TypeOK, NEW t \in Task, NEW r \in TaskRecord, task' = [task EXCEPT ![t] = r]
  PROVE  task' \in [Task -> TaskRecord]
BY DEF TypeOK

LEMMA GotoType ==
  ASSUME TypeOK, NEW t \in Task, NEW p \in Phase, Goto(t, p)
  PROVE  task' \in [Task -> TaskRecord]
BY AtType, TaskType DEF Goto

LEMMA FailType ==
  ASSUME TypeOK, NEW t \in Task, NEW i \in Tag, FailBuild(t, i)
  PROVE  /\ history' \in Seq([image : Tag, ok : BOOLEAN])
         /\ task' \in [Task -> TaskRecord]
         /\ UNCHANGED row
BY RecordType, GotoType DEF FailBuild, Phase, TimedPhase, LockPhase

LEMMA SwapType ==
  ASSUME TypeOK, NEW i, SwapOk(i) \/ SwapFails(i)
  PROVE  container' \in Image \cup {NoImage} /\ up' \in BOOLEAN
BY DEF TypeOK, SwapOk, SwapFails, Deployable, host

\* Every step keeps every variable in its type.
LEMMA TypeStep == TypeOK /\ [Next]_vars => TypeOK'
<1> SUFFICES ASSUME TypeOK, [Next]_vars PROVE TypeOK'
  OBVIOUS
<1> USE DEF Phase, TimedPhase, LockPhase, AfterPhase
<1> DEFINE Rows == exists' \in BOOLEAN /\ status' \in Status /\ age' \in 0 .. Window + 1
                   /\ image' \in Tag
           Hist == history' \in Seq([image : Tag, ok : BOOLEAN])
           Tasks == task' \in [Task -> TaskRecord]
           Hosts == container' \in Image \cup {NoImage} /\ up' \in BOOLEAN
           Rest == removing' \in BOOLEAN /\ edits' \in 0 .. MaxEdits
<1>k. /\ UNCHANGED row => Rows
      /\ UNCHANGED history => Hist
      /\ UNCHANGED task => Tasks
      /\ UNCHANGED host => Hosts
      /\ Untouched => Rest
  BY DEF TypeOK, row, host, Untouched
<1>q. Rows /\ Hist /\ Tasks /\ Hosts /\ Rest => TypeOK'
  BY DEF TypeOK
<1>t. ASSUME NEW t \in Task
      PROVE  task[t] \in TaskRecord /\ task[t].image \in Tag
  BY DEF TypeOK, TaskRecord
<1>1. ASSUME NEW t \in Task, NEW d, NEW i \in Tag, Arrive(t, d, i)
      PROVE  TypeOK'
  <2>1. [Idle EXCEPT !.phase = "admitted", !.door = d, !.image = i] \in TaskRecord
    BY <1>1, ConstantsAssumption DEF Arrive, Idle, TaskRecord
  <2> QED
    BY <1>1, <1>k, <1>q, <2>1, TaskType DEF Arrive
<1>2. ASSUME NEW t \in Task, TakeLock(t)
      PROVE  TypeOK'
  <2>1. Idle \in TaskRecord
    BY DEF Idle, TaskRecord, Tag, AnyDoor
  <2>2. CASE Acquirable
    <3>1. Rows
      BY <1>2, <2>2, WriteStatusType DEF TakeLock, Status, TypeOK
    <3>2. FirstPhase(task[t].door) \subseteq Phase
      BY <1>t DEF FirstPhase, TaskRecord, AnyDoor
    <3>3. Tasks
      BY <1>2, <2>2, <3>2, GotoType DEF TakeLock
    <3> QED
      BY <1>2, <1>k, <1>q, <3>1, <3>3 DEF TakeLock
  <2>3. CASE ~Acquirable
    BY <1>2, <2>1, <2>3, <1>k, <1>q, TaskType DEF TakeLock
  <2> QED
    BY <2>2, <2>3
<1>3. ASSUME NEW t \in Task,
             Backup(t) \/ Clone(t) \/ ComposeCheck(t) \/ PreBuildCheck(t) \/ TlsCheck(t)
               \/ Hook(t) \/ MonitorDone(t)
      PROVE  TypeOK'
  <2>1. NoImage \in Tag
    BY DEF Tag
  <2> QED
    BY <1>3, <1>k, <1>q, <1>t, <2>1, GotoType, FailType
       DEF Backup, Clone, ComposeCheck, PreBuildCheck, TlsCheck, Hook, MonitorDone
<1>4. ASSUME NEW t \in Task, Compose(t)
      PROVE  TypeOK'
  <2>1. NoImage \in Tag /\ ComposeTag \in Tag
    BY DEF Tag
  <2>2. [At(t, "finishOk") EXCEPT !.image = ComposeTag] \in TaskRecord
    BY <2>1, AtType DEF TaskRecord
  <2> QED
    BY <1>4, <1>k, <1>q, <2>1, <2>2, RecordType, TaskType, FailType DEF Compose
<1>5. ASSUME NEW t \in Task, NEW ok \in BOOLEAN, Touch(ok)
      PROVE  Rows
  BY <1>5, ConstantsAssumption DEF Touch, TypeOK
<1>6. ASSUME NEW t \in Task, NEW p \in Phase, NEW ok \in BOOLEAN
      PROVE  Touched(t, p, ok) \in TaskRecord
  <2>1. At(t, p) \in TaskRecord
    BY AtType
  <2>2. (At(t, p).revoked \/ ~ok) \in BOOLEAN
    OBVIOUS
  <2> QED
    BY <2>1, <2>2, FieldType DEF Touched
<1>7. ASSUME NEW t \in Task, Nixpacks(t)
      PROVE  TypeOK'
  <2>1. ASSUME NEW i \in Image, NEW p \in {"tlsCheck", "deploy"}, NEW ok \in BOOLEAN
        PROVE  [Touched(t, p, ok) EXCEPT !.image = i] \in TaskRecord
    BY <1>6 DEF TaskRecord, Tag
  <2> QED
    BY <1>7, <1>k, <1>q, <1>5, <2>1, GotoType, TaskType DEF Nixpacks
<1>8. ASSUME NEW t \in Task, Detect(t)
      PROVE  TypeOK'
  <2>1. NoImage \in Tag
    BY DEF Tag
  <2> QED
    BY <1>8, <1>k, <1>q, <1>5, <1>6, <2>1, FailType, TaskType DEF Detect
<1>9. ASSUME NEW t \in Task, Build(t)
      PROVE  TypeOK'
  <2>1. NoImage \in Tag
    BY DEF Tag
  <2>2. ASSUME NEW i \in Image, NEW p \in {"tlsCheck", "deploy"}
        PROVE  [At(t, p) EXCEPT !.image = i] \in TaskRecord
    BY AtType DEF TaskRecord, Tag
  <2> QED
    BY <1>9, <1>k, <1>q, <2>1, <2>2, FailType, TaskType DEF Build
<1>10. ASSUME NEW t \in Task, Deploy(t)
       PROVE  TypeOK'
  <2>1. NoImage \in Tag
    BY DEF Tag
  <2>2. CASE SwapOk(task[t].image) /\ Record(task[t].image, TRUE)
             /\ Goto(t, "finishOk") /\ UNCHANGED row
    <3>1. Hist
      BY <1>t, <2>2, RecordType
    <3> QED
      BY <1>10, <1>k, <1>q, <2>2, <3>1, SwapType, GotoType DEF Deploy
  <2>3. CASE /\ SwapFails(task[t].image)
             /\ FailBuild(t, IF task[t].door = "scheduled" THEN NoImage ELSE task[t].image)
    BY <1>10, <1>k, <1>q, <1>t, <2>1, <2>3, SwapType, FailType DEF Deploy
  <2> QED
    BY <1>10, <2>2, <2>3 DEF Deploy
<1>11. ASSUME NEW t \in Task, NEW s \in Status, NEW i \in Tag, NEW S \in SUBSET Phase,
              Finish(t, s, i, S)
       PROVE  Rows /\ Tasks
  <2> PICK p \in S :
        \/ /\ WriteStatus(s)
           /\ image' = IF exists THEN i ELSE image
           /\ task' = [(IF exists THEN RevokeAllBut({t}) ELSE task)
                       EXCEPT ![t] = [At(t, p) EXCEPT !.revoked = FALSE]]
        \/ /\ task' = [task EXCEPT ![t] = [At(t, p) EXCEPT !.revoked = FALSE]]
           /\ UNCHANGED row
    BY <1>11 DEF Finish
  <2>1. [At(t, p) EXCEPT !.revoked = FALSE] \in TaskRecord
    BY AtType, FieldType
  <2>2. Tasks
    BY <2>1, RevokeType DEF TypeOK
  <2>3. Rows
    BY WriteStatusType DEF TypeOK, row
  <2> QED
    BY <2>2, <2>3
<1>12. ASSUME NEW t \in Task, FinishOk(t) \/ FinishFail(t)
       PROVE  TypeOK'
  <2>1. AfterFinish(t) \subseteq Phase /\ {"idle"} \subseteq Phase
    BY DEF AfterFinish
  <2>2. image \in Tag
    BY DEF TypeOK
  <2>3. Rows /\ Tasks
    <3>1. CASE FinishOk(t)
      BY <3>1, <1>11, <1>t, <2>1, <2>2 DEF FinishOk, Status
    <3>2. CASE FinishFail(t)
      BY <3>2, <1>11, <1>t, <2>1, <2>2 DEF FinishFail, Status
    <3> QED
      BY <1>12, <3>1, <3>2
  <2> QED
    BY <1>12, <1>k, <1>q, <2>3 DEF FinishOk, FinishFail
<1>13. ASSUME NEW t \in Task, ProbeFails(t)
       PROVE  TypeOK'
  <2>1. ASSUME NEW k \in Previous(task[t].image)
        PROVE  [At(t, "undo") EXCEPT !.image = history[k].image] \in TaskRecord
    <3>1. history[k].image \in Tag
      BY HistoryType DEF Previous
    <3> QED
      BY <3>1, AtType, FieldType
  <2> QED
    BY <1>13, <1>k, <1>q, <2>1, TaskType, GotoType DEF ProbeFails
<1>14. ASSUME NEW t \in Task, Undo(t)
       PROVE  TypeOK'
  BY <1>14, <1>k, <1>q, <1>t, GotoType, RecordType, SwapType DEF Undo
<1>15. ASSUME NEW t \in Task, UndoRecord(t)
       PROVE  TypeOK'
  <2>1. CASE exists /\ image' = task[t].image /\ age' = 0 /\ UNCHANGED <<exists, status>>
    <3>1. exists' \in BOOLEAN /\ status' \in Status
      BY <2>1 DEF TypeOK
    <3> HIDE DEF Rows, Hist, Tasks, Hosts, Rest
    <3>2. Rows
      BY <2>1, <3>1, <1>t, ConstantsAssumption DEF Rows
    <3> QED
      BY <1>15, <1>k, <1>q, <3>2, GotoType DEF UndoRecord, Tasks
  <2>2. CASE UNCHANGED row
    BY <1>15, <2>2, <1>k, <1>q, GotoType DEF UndoRecord
  <2> QED
    BY <1>15, <2>1, <2>2 DEF UndoRecord
<1>16. ASSUME Operator
       PROVE  TypeOK'
  <2>1. ASSUME NEW s \in {"stopped", "running"}, NEW r \in BOOLEAN, Lifecycle(s, r)
        PROVE  TypeOK'
    <3>1. Rows /\ Tasks
      BY <2>1, <1>k, WriteStatusType, RevokeType DEF Lifecycle, Status, TypeOK
    <3> QED
      BY <2>1, <3>1, <1>k, <1>q DEF Lifecycle, TypeOK
  <2>2. CASE Edit
    <3>1. Rows
      BY <2>2, ConstantsAssumption DEF Edit, TypeOK
    <3>2. Rest
      BY <2>2, ConstantsAssumption DEF Edit, TypeOK
    <3> QED
      BY <2>2, <3>1, <3>2, <1>k, <1>q DEF Edit, host
  <2>3. CASE Cleanup
    BY <2>3, <1>k, <1>q DEF Cleanup, host, TypeOK
  <2>4. CASE DeleteRow
    <3>1. Hist
      BY <2>4 DEF DeleteRow
    <3> QED
      BY <2>4, <3>1, <1>k, <1>q DEF DeleteRow, host, TypeOK
  <2> QED
    BY <1>16, <2>1, <2>2, <2>3, <2>4 DEF Operator, Stop, StartUp, Restart
<1>17. ASSUME Environment
       PROVE  TypeOK'
  <2>1. CASE ContainerCrash \/ ContainerRestart
    BY <2>1, <1>k, <1>q DEF ContainerCrash, ContainerRestart, TypeOK
  <2>2. CASE PanelRestart
    <3>1. Tasks
      BY <2>2 DEF PanelRestart, Idle, TaskRecord, Tag, AnyDoor
    <3>2. Hosts
      BY <2>2, <1>k, SwapType DEF PanelRestart
    <3> QED
      BY <2>2, <3>1, <3>2, <1>k, <1>q DEF PanelRestart, TypeOK
  <2>3. CASE Tick
    <3>1. Tasks
      <4>1. ASSUME NEW t \in Task
            PROVE  [task[t] EXCEPT !.spent = @ + 1] \in TaskRecord
        BY <1>t DEF TaskRecord
      <4> DEFINE Later(t) == IF task[t].phase \in TimedPhase
                             THEN [task[t] EXCEPT !.spent = @ + 1] ELSE task[t]
      <4>2. task' = [t \in Task |-> Later(t)]
        BY <2>3 DEF Tick
      <4>3. \A t \in Task : Later(t) \in TaskRecord
        BY <4>1, <1>t
      <4> HIDE DEF Later
      <4> QED
        BY <4>2, <4>3
    <3>2. Rows
      <4>1. /\ age' = IF age > Window THEN age ELSE age + 1
            /\ UNCHANGED <<exists, status, image>>
        BY <2>3 DEF Tick
      <4>2. age \in 0 .. Window + 1
        BY DEF TypeOK
      <4>3. age' \in 0 .. Window + 1
        BY ONLY <4>1, <4>2, ConstantsAssumption
      <4> QED
        BY <4>1, <4>3 DEF TypeOK
    <3> QED
      BY <2>3, <3>1, <3>2, <1>k, <1>q DEF Tick, host, TypeOK
  <2> QED
    BY <1>17, <2>1, <2>2, <2>3 DEF Environment
<1>18. ASSUME NEW t \in Task, Admit(t) \/ AdmitRollback(t)
       PROVE  TypeOK'
  <2>1. NoImage \in Tag /\ \A k \in DOMAIN history : history[k].image \in Tag
    BY HistoryType DEF Tag
  <2> QED
    BY <1>18, <1>1, <2>1 DEF Admit, AdmitRollback
<1>19. CASE UNCHANGED vars
  BY <1>19 DEF vars, row, host, TypeOK
<1> QED
  BY <1>2, <1>3, <1>4, <1>7, <1>8, <1>9, <1>10, <1>12, <1>13, <1>14, <1>15, <1>16, <1>17,
     <1>18, <1>19 DEF Next, TaskStep

LEMMA TypeInit == Init => TypeOK
<1> SUFFICES ASSUME Init PROVE TypeOK
  OBVIOUS
<1>1. Idle \in TaskRecord
  BY DEF Idle, TaskRecord, Tag, Phase, AnyDoor
<1>2. task \in [Task -> TaskRecord]
  BY <1>1 DEF Init
<1>3. history \in Seq([image : Tag, ok : BOOLEAN])
  BY DEF Init
<1>4. age \in 0 .. Window + 1 /\ edits \in 0 .. MaxEdits
  BY ConstantsAssumption DEF Init
<1> QED
  BY <1>2, <1>3, <1>4 DEF Init, TypeOK, Status, Tag

\* Type correctness: the row, the history, the tasks and the container only ever
\* hold what the code can write there.
THEOREM TypeCorrect == Spec => []TypeOK
BY TypeInit, TypeStep, PTL DEF Spec
-----------------------------------------------------------------------------
\* What a step keeps, and what it may do to the set of builds that have the lock:
\* nobody joins a build that has it.
Keeps ==
  /\ OneBuild' /\ LockClock' /\ InBudget'
  /\ Builders = {} \/ Builders' \subseteq Builders

\* A step that changes one task, gives no lock and winds no clock forward.
LEMMA OneTask ==
  ASSUME IInv, TypeOK', NEW t \in Task, NEW r \in TaskRecord,
         task' = [task EXCEPT ![t] = r],
         r.phase \in LockPhase /\ ~r.revoked => t \in Builders,
         r.phase \in TimedPhase => r.spent <= Budget[r.phase],
         exists' => exists /\ status' = status /\ age' <= age,
         exists' /\ r.phase \in LockPhase /\ ~r.revoked => age' <= Reach(r.phase) + r.spent
  PROVE  Keeps
<1>1. \A u \in Task : task'[u] = IF u = t THEN r ELSE task[u]
  BY DEF IInv, TypeOK
<1>2. Builders' \subseteq Builders
  BY <1>1 DEF Builders, Holders
<1>3. OneBuild'
  BY <1>2 DEF IInv, OneBuild
<1>4. InBudget'
  BY <1>1 DEF IInv, InBudget
<1>5. ASSUME NEW u \in Builders', exists'
      PROVE  status' = "building" /\ age' <= Reach(task'[u].phase) + task'[u].spent
  <2>1. u \in Task /\ u \in Builders /\ exists
    BY <1>2, <1>5 DEF Builders, Holders
  <2>2. status = "building" /\ age <= Reach(task[u].phase) + task[u].spent
    BY <2>1 DEF IInv, LockClock
  <2>3. CASE u = t
    BY <1>1, <1>5, <2>1, <2>2, <2>3 DEF Builders, Holders
  <2>4. CASE u # t
    <3>1. task'[u] = task[u] /\ task[u].phase \in LockPhase /\ task[u].spent \in Nat
      BY <1>1, <2>1, <2>4 DEF Builders, Holders, IInv, TypeOK, TaskRecord
    <3>2. Reach(task[u].phase) \in Nat /\ age \in Nat /\ age' \in Nat
      BY <3>1, ReachFits, ConstantsAssumption DEF IInv, TypeOK
    <3> QED
      BY <1>5, <2>2, <3>1, <3>2
  <2> QED
    BY <2>3, <2>4
<1>6. LockClock'
  BY <1>5 DEF LockClock
<1> QED
  BY <1>2, <1>3, <1>4, <1>6 DEF Keeps

\* A task that leaves the pipeline, or never was in it, gives no lock.
LEMMA Leaving ==
  ASSUME IInv, TypeOK', NEW t \in Task, NEW r \in TaskRecord,
         task' = [task EXCEPT ![t] = r], r.phase \notin LockPhase, r.spent = 0,
         UNCHANGED <<exists, status>>, age' <= age
  PROVE  Keeps
<1>1. r.phase \in TimedPhase => r.spent <= Budget[r.phase]
  BY ConstantsAssumption
<1> QED
  BY <1>1, OneTask

\* A build that goes on to a phase its clock can reach.
LEMMA Advance ==
  ASSUME IInv, TypeOK', NEW t \in Holders, NEW r \in TaskRecord,
         task' = [task EXCEPT ![t] = r],
         r.phase \in LockPhase, r.spent = 0, task[t].revoked => r.revoked,
         UNCHANGED row,
         Reach(task[t].phase) + Budget[task[t].phase] <= Reach(r.phase)
  PROVE  Keeps
<1>1. t \in Task /\ task[t].phase \in LockPhase /\ task[t].spent \in Nat
  BY DEF Holders, IInv, TypeOK, TaskRecord
<1>2. Budget[r.phase] \in Nat /\ Budget[task[t].phase] \in Nat
  BY <1>1, ConstantsAssumption DEF TimedPhase
<1>3. Reach(task[t].phase) \in Nat /\ Reach(r.phase) \in Nat
  BY <1>1, ReachFits
<1>4. ~r.revoked => t \in Builders
  BY DEF Builders
<1>5. task[t].spent <= Budget[task[t].phase]
  BY <1>1 DEF IInv, InBudget, TimedPhase
<1>6. exists /\ t \in Builders => age <= Reach(task[t].phase) + task[t].spent
  BY DEF IInv, LockClock
<1>7. age \in Nat
  BY ConstantsAssumption DEF IInv, TypeOK
<1>8. exists' /\ ~r.revoked => age' <= Reach(r.phase) + r.spent
  <2>1. exists' = exists /\ age' = age
    BY DEF row
  <2> QED
    BY <1>1, <1>2, <1>3, <1>4, <1>5, <1>6, <1>7, <2>1
<1> QED
  <2>1. exists' = exists /\ status' = status /\ age' <= age
    BY <1>7 DEF row
  <2>2. r.spent <= Budget[r.phase]
    BY <1>2
  <2> QED
    BY <1>1, <1>4, <1>8, <2>1, <2>2, OneTask

\* A step of nobody's that winds no clock forward.
LEMMA NoTask ==
  ASSUME IInv, TypeOK', UNCHANGED task, exists' => exists /\ status' = status /\ age' <= age
  PROVE  Keeps
<1>1. Builders' = Builders
  BY DEF Builders, Holders
<1>2. OneBuild' /\ InBudget'
  BY <1>1 DEF IInv, OneBuild, InBudget
<1>3. ASSUME NEW u \in Builders, exists'
      PROVE  status' = "building" /\ age' <= Reach(task[u].phase) + task[u].spent
  <2>1. status = "building" /\ age <= Reach(task[u].phase) + task[u].spent
    BY <1>3 DEF IInv, LockClock
  <2>2. task[u].phase \in LockPhase /\ task[u].spent \in Nat
    BY DEF Builders, Holders, IInv, TypeOK, TaskRecord
  <2>3. Reach(task[u].phase) \in Nat /\ age \in Nat /\ age' \in Nat
    BY <2>2, ReachFits, ConstantsAssumption DEF IInv, TypeOK
  <2> QED
    BY <1>3, <2>1, <2>2, <2>3
<1> QED
  BY <1>1, <1>2, <1>3 DEF Keeps, LockClock

\* When every running build has lost its lock there is nothing left to keep.
LEMMA AllRevoked ==
  ASSUME IInv, Builders' = {},
         \A u \in Task : task'[u].phase \in TimedPhase =>
                           task'[u].spent <= Budget[task'[u].phase]
  PROVE  Keeps
BY DEF Keeps, OneBuild, LockClock, InBudget

\* Why the lock works: a row a door can take has no running build behind it.
LEMMA FreeRow == IInv => LockHeldWhileBuilding
<1> SUFFICES ASSUME IInv, exists, NEW t \in Builders, Acquirable
             PROVE  FALSE
  BY DEF LockHeldWhileBuilding
<1>1. t \in Task /\ task[t].phase \in LockPhase /\ task[t].phase \in TimedPhase
  BY DEF Builders, Holders, TimedPhase
<1>2. status = "building" /\ age <= Reach(task[t].phase) + task[t].spent
  BY DEF IInv, LockClock
<1>3. task[t].spent <= Budget[task[t].phase]
  BY <1>1 DEF IInv, InBudget
<1>4. Reach(task[t].phase) \in Nat /\ Reach(task[t].phase) + Budget[task[t].phase] <= Window
  BY <1>1, ReachFits
<1>5. age \in Nat /\ task[t].spent \in Nat /\ Budget[task[t].phase] \in Nat
  BY <1>1, ConstantsAssumption DEF IInv, TypeOK, TaskRecord
<1>6. age <= Window
  BY <1>2, <1>3, <1>4, <1>5, ConstantsAssumption
<1> QED
  BY <1>2, <1>5, <1>6, ConstantsAssumption DEF Acquirable

LEMMA TakeLockKeeps ==
  ASSUME IInv, TypeOK', NEW t \in Task, TakeLock(t)
  PROVE  Keeps
<1>1. CASE Acquirable
  <2>1. exists /\ Builders = {}
    BY <1>1, FreeRow DEF Acquirable, LockHeldWhileBuilding
  <2> PICK p \in FirstPhase(task[t].door) : Goto(t, p)
    BY <1>1 DEF TakeLock
  <2>2. status' = "building" /\ age' = 0
    BY <1>1, <2>1 DEF TakeLock, WriteStatus
  <2>3. p \in {"backup", "clone", "tlsCheck", "deploy", "idle"}
    BY DEF FirstPhase, IInv, TypeOK, TaskRecord, AnyDoor
  <2>4. \A u \in Task : task'[u] = IF u = t THEN At(t, p) ELSE task[u]
    BY DEF Goto, IInv, TypeOK
  <2>5. Builders' \subseteq {t}
    BY <2>1, <2>4 DEF Builders, Holders
  <2>6. At(t, p).spent = 0 /\ At(t, p).phase = p
    BY DEF At, Idle, IInv, TypeOK, TaskRecord
  <2>7. p \in LockPhase => Reach(p) \in Nat /\ Budget[p] \in Nat
    BY ReachFits, ConstantsAssumption DEF TimedPhase
  <2>8. OneBuild'
    BY <2>5 DEF OneBuild
  <2>9. LockClock'
    BY <2>2, <2>4, <2>5, <2>6, <2>7 DEF LockClock, Builders, Holders
  <2>10. InBudget'
    <3>1. p = "idle" \/ p \in LockPhase
      BY <2>3 DEF LockPhase
    <3>2. "idle" \notin TimedPhase
      BY DEF TimedPhase, LockPhase, AfterPhase
    <3> QED
      BY <2>4, <2>6, <2>7, <3>1, <3>2 DEF InBudget, IInv
  <2> QED
    BY <2>1, <2>8, <2>9, <2>10 DEF Keeps
<1>2. CASE ~Acquirable
  <2>1. Idle \in TaskRecord /\ Idle.spent = 0 /\ Idle.phase \notin LockPhase
    BY DEF Idle, TaskRecord, Tag, AnyDoor, Phase, LockPhase
  <2>2. age' <= age
    BY <1>2, ConstantsAssumption DEF TakeLock, row, IInv, TypeOK
  <2> QED
    BY <1>2, <2>1, <2>2, Leaving DEF TakeLock, row
<1> QED
  BY <1>1, <1>2

\* What At makes of a task: a fresh call in phase p, no less revoked than before.
LEMMA AtFacts ==
  ASSUME TypeOK, NEW t \in Task, NEW p \in Phase
  PROVE  /\ At(t, p) \in TaskRecord /\ At(t, p).phase = p /\ At(t, p).spent = 0
         /\ p # "idle" => At(t, p).revoked = task[t].revoked
BY AtType DEF At, Idle, TypeOK, TaskRecord

LEMMA FailKeeps ==
  ASSUME IInv, TypeOK', NEW t \in Holders, NEW i, FailBuild(t, i)
  PROVE  Keeps
<1>1. t \in Task /\ task[t].phase \in LockPhase
  BY DEF Holders
<1>2. "finishFail" \in LockPhase /\ "finishFail" \in Phase
  BY DEF LockPhase, Phase, TimedPhase
<1>3. Reach(task[t].phase) + Budget[task[t].phase] <= Reach("finishFail")
  BY <1>1, ReachFits DEF Reach
<1> DEFINE r == At(t, "finishFail")
<1>4. r \in TaskRecord /\ r.phase = "finishFail" /\ r.spent = 0 /\ r.revoked = task[t].revoked
  BY <1>1, <1>2, AtFacts DEF IInv
<1>5. task' = [task EXCEPT ![t] = r] /\ UNCHANGED row
  BY DEF FailBuild, Goto
<1> HIDE DEF r
<1> QED
  BY <1>1, <1>2, <1>3, <1>4, <1>5, Advance

\* A step that only hands the build on to the next call.
LEMMA GotoKeeps ==
  ASSUME IInv, TypeOK', NEW t \in Holders, NEW p \in LockPhase,
         NEW r \in {At(t, p)} \cup {[At(t, p) EXCEPT !.image = i] : i \in Tag},
         task' = [task EXCEPT ![t] = r], UNCHANGED row,
         Reach(task[t].phase) + Budget[task[t].phase] <= Reach(p)
  PROVE  Keeps
<1>1. t \in Task /\ p \in Phase /\ p # "idle"
  BY DEF Holders, LockPhase, Phase, TimedPhase
<1>2. /\ At(t, p) \in TaskRecord /\ At(t, p).phase = p /\ At(t, p).spent = 0
      /\ At(t, p).revoked = task[t].revoked
  BY <1>1, AtFacts DEF IInv
<1>3. /\ r \in TaskRecord /\ r.phase = p /\ r.spent = 0 /\ r.revoked = task[t].revoked
  BY <1>2 DEF TaskRecord
<1> QED
  BY <1>3, Advance

\* What a phase's calls add to the time since the last write of updated_at.
LEMMA NextReach ==
  /\ Reach("backup") + Budget["backup"] <= Reach("clone")
  /\ Reach("clone") + Budget["clone"] <= Reach("composeCheck")
  /\ \A p \in {"compose", "preBuildCheck", "nixpacks"} :
       Reach("composeCheck") + Budget["composeCheck"] <= Reach(p)
  /\ \A p \in {"preBuildCheck", "nixpacks"} : Reach(p) + Budget[p] <= Reach("detect")
  /\ \A p \in {"tlsCheck", "deploy"} : Reach("build") + Budget["build"] <= Reach(p)
  /\ Reach("tlsCheck") + Budget["tlsCheck"] <= Reach("deploy")
  /\ \A p \in LockPhase : Reach(p) + Budget[p] <= Reach("finishOk")
<1>1. \A p \in LockPhase : Reach(p) + Budget[p] <= Reach("finishOk")
  BY ReachFits DEF Reach
<1> QED
  BY <1>1, ConstantsAssumption DEF Reach, LockPhase, TimedPhase

\* The touch of updated_at: the clock starts again, or the lock counts as lost.
LEMMA TouchKeeps ==
  ASSUME IInv, TypeOK', NEW t \in Holders, NEW p \in {"build", "tlsCheck", "deploy"},
         NEW ok \in BOOLEAN, Touch(ok),
         NEW r \in {Touched(t, p, ok)} \cup {[Touched(t, p, ok) EXCEPT !.image = i] : i \in Tag},
         task' = [task EXCEPT ![t] = r]
  PROVE  Keeps
<1>1. t \in Task /\ p \in Phase /\ p \in LockPhase /\ p \in TimedPhase /\ p # "idle"
  BY DEF Holders, LockPhase, Phase, TimedPhase
<1>2. /\ At(t, p) \in TaskRecord /\ At(t, p).phase = p /\ At(t, p).spent = 0
      /\ At(t, p).revoked = task[t].revoked
  BY <1>1, AtFacts DEF IInv
<1>3. /\ Touched(t, p, ok) \in TaskRecord /\ Touched(t, p, ok).phase = p
      /\ Touched(t, p, ok).spent = 0
      /\ task[t].revoked \/ ~ok => Touched(t, p, ok).revoked
  BY <1>2 DEF Touched, TaskRecord
<1>4. /\ r \in TaskRecord /\ r.phase = p /\ r.spent = 0
      /\ task[t].revoked \/ ~ok => r.revoked
  BY <1>3 DEF TaskRecord
<1>5. Reach(p) \in Nat /\ Budget[p] \in Nat /\ age \in Nat
  BY <1>1, ReachFits, ConstantsAssumption DEF IInv, TypeOK
<1>6. exists' = exists /\ status' = status /\ age' = IF ok /\ exists THEN 0 ELSE age
  BY DEF Touch
<1>7. age' <= age /\ r.spent <= Budget[r.phase]
  BY <1>4, <1>5, <1>6
<1>8. exists' /\ ~r.revoked => age' <= Reach(r.phase) + r.spent
  BY <1>4, <1>5, <1>6
<1>9. ~r.revoked => t \in Builders
  BY <1>4 DEF Builders
<1> QED
  <2>1. exists' => exists /\ status' = status /\ age' <= age
    BY <1>6, <1>7
  <2>2. r.phase \in LockPhase /\ ~r.revoked => t \in Builders
    BY <1>9
  <2>3. r.phase \in TimedPhase => r.spent <= Budget[r.phase]
    BY <1>7
  <2> QED
    BY <1>1, <1>4, <1>8, <2>1, <2>2, <2>3, OneTask

\* The steps of the pipeline up to the final write.
LEMMA PipelineKeeps ==
  ASSUME IInv, TypeOK', NEW t \in Task,
         \/ Backup(t) \/ Clone(t) \/ ComposeCheck(t) \/ Compose(t) \/ PreBuildCheck(t)
         \/ Nixpacks(t) \/ Detect(t) \/ Build(t) \/ TlsCheck(t) \/ Deploy(t)
  PROVE  Keeps
<1>1. ComposeTag \in Tag /\ \A i \in Image : i \in Tag
  BY DEF Tag
<1>2. CASE Backup(t) \/ Clone(t) \/ ComposeCheck(t) \/ PreBuildCheck(t) \/ TlsCheck(t)
  <2>1. t \in Holders
    BY <1>2 DEF Backup, Clone, ComposeCheck, PreBuildCheck, TlsCheck, Holders, LockPhase
  <2>2. CASE \E i : FailBuild(t, i)
    BY <2>1, <2>2, FailKeeps
  <2>3. CASE UNCHANGED row /\ \E p \in LockPhase :
               Goto(t, p) /\ Reach(task[t].phase) + Budget[task[t].phase] <= Reach(p)
    BY <2>1, <2>3, GotoKeeps DEF Goto
  <2> QED
    BY <1>2, <2>2, <2>3, NextReach
       DEF Backup, Clone, ComposeCheck, PreBuildCheck, TlsCheck, LockPhase
<1>3. CASE Compose(t)
  <2>1. t \in Holders /\ task[t].phase \in LockPhase
    BY <1>3 DEF Compose, Holders, LockPhase
  <2>2. "finishOk" \in LockPhase
    BY DEF LockPhase
  <2>3. CASE FailBuild(t, NoImage)
    BY <2>1, <2>3, FailKeeps
  <2>4. CASE /\ task' = [task EXCEPT ![t] = [At(t, "finishOk") EXCEPT !.image = ComposeTag]]
             /\ UNCHANGED row
    BY <1>1, <2>1, <2>2, <2>4, NextReach, GotoKeeps
  <2> QED
    BY <1>3, <2>3, <2>4 DEF Compose
<1>4. CASE Build(t)
  <2>1. t \in Holders /\ task[t].phase = "build"
    BY <1>4 DEF Build, Holders, LockPhase
  <2>2. CASE FailBuild(t, NoImage)
    BY <2>1, <2>2, FailKeeps
  <2>3. ASSUME NEW i \in Image, NEW p \in {"tlsCheck", "deploy"}, UNCHANGED row,
               task' = [task EXCEPT ![t] = [At(t, p) EXCEPT !.image = i]]
        PROVE  Keeps
    <3>1. p \in LockPhase
      BY DEF LockPhase
    <3> QED
      BY <1>1, <2>1, <2>3, <3>1, NextReach, GotoKeeps
  <2> QED
    BY <1>4, <2>2, <2>3 DEF Build
<1>5. CASE Nixpacks(t)
  <2>1. t \in Holders /\ task[t].phase = "nixpacks"
    BY <1>5 DEF Nixpacks, Holders, LockPhase
  <2>2. CASE Goto(t, "detect") /\ UNCHANGED row
    BY <2>1, <2>2, NextReach, GotoKeeps DEF Goto, LockPhase
  <2>3. ASSUME NEW i \in Image, NEW p \in {"tlsCheck", "deploy"}, NEW ok \in BOOLEAN, Touch(ok),
               task' = [task EXCEPT ![t] = [Touched(t, p, ok) EXCEPT !.image = i]]
        PROVE  Keeps
    BY <1>1, <2>1, <2>3, TouchKeeps
  <2> QED
    BY <1>5, <2>2, <2>3 DEF Nixpacks
<1>6. CASE Detect(t)
  <2>1. t \in Holders
    BY <1>6 DEF Detect, Holders, LockPhase
  <2>2. ASSUME NEW ok \in BOOLEAN, Touch(ok), task' = [task EXCEPT ![t] = Touched(t, "build", ok)]
        PROVE  Keeps
    BY <2>1, <2>2, TouchKeeps
  <2> QED
    BY <1>6, <2>1, <2>2, FailKeeps DEF Detect
<1>7. CASE Deploy(t)
  <2>1. t \in Holders /\ task[t].phase \in LockPhase
    BY <1>7 DEF Deploy, Holders, LockPhase
  <2>2. CASE \E i : FailBuild(t, i)
    BY <2>1, <2>2, FailKeeps
  <2>3. CASE Goto(t, "finishOk") /\ UNCHANGED row
    <3>1. "finishOk" \in LockPhase
      BY DEF LockPhase
    <3>2. Reach(task[t].phase) + Budget[task[t].phase] <= Reach("finishOk")
      BY <2>1, NextReach
    <3> QED
      BY <2>1, <2>3, <3>1, <3>2, GotoKeeps DEF Goto
  <2> QED
    BY <1>7, <2>2, <2>3 DEF Deploy
<1> QED
  BY <1>2, <1>3, <1>4, <1>5, <1>6, <1>7

\* The final write: it frees the row, and every other running build loses its lock.
LEMMA FinishKeeps ==
  ASSUME IInv, TypeOK', NEW t \in Task, NEW s, NEW i, NEW S \in SUBSET {"idle", "hook", "monitor"},
         Finish(t, s, i, S)
  PROVE  Keeps
<1> PICK p \in S :
      \/ /\ WriteStatus(s)
         /\ task' = [(IF exists THEN RevokeAllBut({t}) ELSE task)
                     EXCEPT ![t] = [At(t, p) EXCEPT !.revoked = FALSE]]
      \/ /\ task' = [task EXCEPT ![t] = [At(t, p) EXCEPT !.revoked = FALSE]]
         /\ UNCHANGED row
  BY DEF Finish
<1> DEFINE r == [At(t, p) EXCEPT !.revoked = FALSE]
<1>1. r \in TaskRecord /\ r.phase = p /\ r.spent = 0 /\ p \notin LockPhase
  <2>1. p \in Phase /\ p \notin LockPhase
    BY DEF Phase, TimedPhase, AfterPhase, LockPhase
  <2>2. At(t, p) \in TaskRecord /\ At(t, p).phase = p /\ At(t, p).spent = 0
    BY <2>1, AtFacts DEF IInv
  <2> QED
    BY <2>1, <2>2 DEF TaskRecord
<1> HIDE DEF r
<1>2. age \in Nat
  BY ConstantsAssumption DEF IInv, TypeOK
<1>3. CASE exists /\ WriteStatus(s) /\ task' = [RevokeAllBut({t}) EXCEPT ![t] = r]
  <2>1. \A u \in Task : task'[u] = IF u = t THEN r ELSE RevokeAllBut({t})[u]
    BY <1>3 DEF RevokeAllBut
  <2>2. \A u \in Task \ {t} : /\ task'[u].phase = task[u].phase /\ task'[u].spent = task[u].spent
                              /\ u \in Holders => task'[u].revoked
    BY <2>1 DEF RevokeAllBut, IInv, TypeOK, TaskRecord
  <2>3. Builders' = {}
    BY <1>1, <2>1, <2>2 DEF Builders, Holders
  <2>4. p \in TimedPhase => Budget[p] \in Nat
    BY ConstantsAssumption
  <2>5. ASSUME NEW u \in Task, task'[u].phase \in TimedPhase
        PROVE  task'[u].spent <= Budget[task'[u].phase]
    <3>1. CASE u = t
      BY <1>1, <2>1, <2>4, <2>5, <3>1
    <3>2. CASE u # t
      BY <2>2, <2>5, <3>2 DEF IInv, InBudget
    <3> QED
      BY <3>1, <3>2
  <2> QED
    BY <2>3, <2>5, AllRevoked
<1>4. CASE task' = [task EXCEPT ![t] = r] /\ UNCHANGED <<exists, status, age>>
  <2>1. UNCHANGED <<exists, status>> /\ age' <= age
    BY <1>2, <1>4
  <2>2. r \in TaskRecord /\ r.phase \notin LockPhase /\ r.spent = 0
    BY <1>1
  <2> QED
    BY <1>4, <2>1, <2>2, Leaving
<1> QED
  BY <1>3, <1>4 DEF r, WriteStatus, row

\* The hook and the monitor hold no lock.
LEMMA MonitorKeeps ==
  ASSUME IInv, TypeOK', NEW t \in Task,
         Hook(t) \/ MonitorDone(t) \/ ProbeFails(t) \/ Undo(t) \/ UndoRecord(t)
  PROVE  Keeps
<1>1. age \in Nat
  BY ConstantsAssumption DEF IInv, TypeOK
<1>2. UNCHANGED <<exists, status>> /\ age' <= age
  <2>1. UNCHANGED row \/ (UNCHANGED <<exists, status>> /\ age' = 0)
    BY DEF Hook, MonitorDone, ProbeFails, Undo, UndoRecord
  <2> QED
    BY <1>1, <2>1 DEF row
<1>3. ASSUME NEW p \in AfterPhase \cup {"idle"}, Goto(t, p)
      PROVE  Keeps
  <2>1. p \in Phase /\ p \notin LockPhase
    BY DEF Phase, TimedPhase, AfterPhase, LockPhase
  <2> QED
    BY <1>2, <1>3, <2>1, AtFacts, Leaving DEF Goto, IInv
<1>4. CASE ProbeFails(t)
  <2>1. ASSUME NEW k \in Previous(task[t].image),
               task' = [task EXCEPT ![t] = [At(t, "undo") EXCEPT !.image = history[k].image]]
        PROVE  Keeps
    <3>1. history[k].image \in Tag
      BY HistoryType DEF Previous, IInv
    <3>2. "undo" \in Phase /\ "undo" \notin LockPhase
      BY DEF Phase, TimedPhase, AfterPhase, LockPhase
    <3> DEFINE r == [At(t, "undo") EXCEPT !.image = history[k].image]
    <3>3. r \in TaskRecord /\ r.phase = "undo" /\ r.spent = 0
      BY <3>1, <3>2, AtFacts DEF IInv, TaskRecord
    <3> HIDE DEF r
    <3>4. task' = [task EXCEPT ![t] = r]
      BY <2>1 DEF r
    <3> QED
      BY <1>2, <3>2, <3>3, <3>4, Leaving
  <2> QED
    BY <1>3, <1>4, <2>1 DEF ProbeFails
<1>5. CASE Hook(t) \/ MonitorDone(t) \/ Undo(t) \/ UndoRecord(t)
  BY <1>3, <1>5 DEF Hook, MonitorDone, Undo, UndoRecord, AfterPhase
<1> QED
  BY <1>4, <1>5

\* The operator and the environment: only Tick winds a clock, and it winds the
\* calls' clocks with it.
LEMMA OutsideKeeps ==
  ASSUME IInv, TypeOK', Operator \/ Environment
  PROVE  Keeps
<1>1. age \in Nat
  BY ConstantsAssumption DEF IInv, TypeOK
<1>2. ASSUME NEW s, NEW b, Lifecycle(s, b)
      PROVE  Keeps
  <2>1. CASE exists /\ WriteStatus(s) /\ task' = RevokeAllBut({})
    <3>1. \A u \in Task : /\ task'[u].phase = task[u].phase /\ task'[u].spent = task[u].spent
                          /\ u \in Holders => task'[u].revoked
      BY <2>1 DEF RevokeAllBut, IInv, TypeOK, TaskRecord
    <3>2. Builders' = {}
      BY <3>1 DEF Builders, Holders
    <3> QED
      BY <3>1, <3>2, AllRevoked DEF IInv, InBudget
  <2>2. CASE UNCHANGED <<row, task>>
    BY <1>1, <2>2, NoTask DEF row
  <2> QED
    BY <1>2, <2>1, <2>2 DEF Lifecycle
<1>3. CASE Edit \/ Cleanup \/ DeleteRow \/ ContainerCrash \/ ContainerRestart
  <2>1. UNCHANGED task
    BY <1>3 DEF Edit, Cleanup, DeleteRow, ContainerCrash, ContainerRestart
  <2>2. exists' => exists /\ status' = status /\ (age' = 0 \/ age' = age)
    BY <1>3 DEF Edit, Cleanup, DeleteRow, ContainerCrash, ContainerRestart, row
  <2>3. exists' => exists /\ status' = status /\ age' <= age
    BY <1>1, <2>2
  <2> QED
    BY <2>1, <2>3, NoTask
<1>4. CASE PanelRestart
  <2>1. \A u \in Task : task'[u].phase = "idle"
    BY <1>4 DEF PanelRestart, Idle
  <2>2. Builders' = {}
    BY <2>1 DEF Builders, Holders, LockPhase
  <2> QED
    BY <2>1, <2>2, AllRevoked DEF TimedPhase, LockPhase, AfterPhase
<1>5. CASE Tick
  <2> DEFINE Later(t) == IF task[t].phase \in TimedPhase
                         THEN [task[t] EXCEPT !.spent = @ + 1] ELSE task[t]
  <2>1. task' = [t \in Task |-> Later(t)]
    BY <1>5 DEF Tick
  <2>2. ASSUME NEW u \in Task
        PROVE  /\ task'[u].phase = task[u].phase /\ task'[u].revoked = task[u].revoked
               /\ task'[u].spent = IF task[u].phase \in TimedPhase
                                  THEN task[u].spent + 1 ELSE task[u].spent
    <3>1. task[u] \in TaskRecord /\ task'[u] = Later(u)
      BY <2>1 DEF IInv, TypeOK
    <3> HIDE DEF TimedPhase
    <3> QED
      BY <3>1 DEF TaskRecord
  <2>3. Builders' = Builders
    BY <2>2 DEF Builders, Holders
  <2>4. OneBuild'
    BY <2>3 DEF IInv, OneBuild
  <2>5. ASSUME NEW u \in Task, task'[u].phase \in TimedPhase
        PROVE  task'[u].spent <= Budget[task'[u].phase]
    <3>1. task[u].phase \in TimedPhase /\ task[u].spent < Budget[task[u].phase]
      BY <1>5, <2>2, <2>5 DEF Tick
    <3>2. Budget[task[u].phase] \in Nat /\ task[u].spent \in Nat
      BY <3>1, ConstantsAssumption DEF IInv, TypeOK, TaskRecord
    <3> QED
      BY <2>2, <3>1, <3>2
  <2>6. ASSUME NEW u \in Builders, exists'
        PROVE  status' = "building" /\ age' <= Reach(task'[u].phase) + task'[u].spent
    <3>1. exists' = exists /\ status' = status /\ age' <= age + 1
      BY <1>1, <1>5 DEF Tick
    <3>2. status = "building" /\ age <= Reach(task[u].phase) + task[u].spent
      BY <2>6, <3>1 DEF IInv, LockClock
    <3>3. /\ u \in Task /\ task[u].phase \in LockPhase /\ task[u].phase \in TimedPhase
          /\ task[u].spent \in Nat
      BY DEF Builders, Holders, TimedPhase, IInv, TypeOK, TaskRecord
    <3>4. Reach(task[u].phase) \in Nat /\ age' \in Nat
      BY <3>3, ReachFits, ConstantsAssumption DEF TypeOK
    <3>5. task'[u].phase = task[u].phase /\ task'[u].spent = task[u].spent + 1
      BY <2>2, <3>3
    <3> QED
      BY <1>1, <3>1, <3>2, <3>3, <3>4, <3>5
  <2> QED
    BY <2>3, <2>4, <2>5, <2>6 DEF Keeps, LockClock, InBudget
<1> QED
  BY <1>2, <1>3, <1>4, <1>5 DEF Operator, Environment, Stop, StartUp, Restart

LEMMA LockStep == IInv /\ [Next]_vars => IInv' /\ Keeps
<1> SUFFICES ASSUME IInv, [Next]_vars PROVE IInv' /\ Keeps
  OBVIOUS
<1>1. TypeOK'
  BY TypeStep DEF IInv
<1>2. ASSUME NEW t \in Task, NEW d, NEW i \in Tag, Arrive(t, d, i)
      PROVE  Keeps
  <2> DEFINE r == [Idle EXCEPT !.phase = "admitted", !.door = d, !.image = i]
  <2>1. r \in TaskRecord /\ r.phase \notin LockPhase /\ r.spent = 0
    BY <1>2, ConstantsAssumption DEF Arrive, Idle, TaskRecord, Phase, LockPhase
  <2>2. UNCHANGED <<exists, status>> /\ age' <= age
    BY <1>2, ConstantsAssumption DEF Arrive, row, IInv, TypeOK
  <2>3. task' = [task EXCEPT ![t] = r]
    BY <1>2 DEF Arrive
  <2> HIDE DEF r
  <2> QED
    BY <1>1, <2>1, <2>2, <2>3, Leaving
<1>3. ASSUME NEW t \in Task, Admit(t) \/ AdmitRollback(t)
      PROVE  Keeps
  BY <1>2, <1>3, HistoryType DEF Admit, AdmitRollback, IInv, Tag
<1>4. ASSUME NEW t \in Task, FinishOk(t) \/ FinishFail(t)
      PROVE  Keeps
  BY <1>1, <1>4, FinishKeeps DEF FinishOk, FinishFail, AfterFinish
<1>5. ASSUME NEW t \in Task, TaskStep(t)
      PROVE  Keeps
  BY <1>1, <1>4, <1>5, TakeLockKeeps, PipelineKeeps, MonitorKeeps DEF TaskStep
<1>6. Keeps
  <2>1. CASE UNCHANGED vars
    BY <1>1, <2>1, ConstantsAssumption, NoTask DEF vars, row, IInv, TypeOK
  <2> QED
    BY <1>1, <1>3, <1>5, <2>1, OutsideKeeps DEF Next
<1> QED
  BY <1>1, <1>6 DEF IInv, Keeps

LEMMA LockInit == Init => IInv
<1> SUFFICES ASSUME Init PROVE IInv
  OBVIOUS
<1>1. \A t \in Task : task[t].phase = "idle"
  BY DEF Init, Idle
<1> QED
  BY <1>1, TypeInit
     DEF IInv, OneBuild, LockClock, InBudget, Builders, Holders, LockPhase, AfterPhase, TimedPhase

\* The inductive invariant of the build lock.
THEOREM LockInvariant == Spec => []IInv
BY LockInit, LockStep, PTL DEF Spec

\* Builds whose lock nobody gave away never overlap.
THEOREM OneBuildHolds == Spec => []OneBuild
BY LockInvariant, PTL DEF IInv

\* The clock of the row never outruns the calls of the build that holds it.
THEOREM LockClockHolds == Spec => []LockClock
BY LockInvariant, PTL DEF IInv

\* The row of such a build never looks free or abandoned to another door.
THEOREM LockHeld == Spec => []LockHeldWhileBuilding
BY LockInvariant, FreeRow, PTL

\* The lock of the row implements the abstract build slot: each step gives the
\* slot to one build while it is free, takes it from the build that has it, or
\* leaves it alone.
THEOREM SlotRefinement == Spec => SlotImplemented
<1>1. Init => Slot!SlotInit
  BY DEF Init, Idle, Slot!SlotInit, Builders, Holders, LockPhase
<1>2. ASSUME IInv, [Next]_vars
      PROVE  [Slot!SlotNext]_Builders
  <2>1. OneBuild /\ OneBuild' /\ (Builders = {} \/ Builders' \subseteq Builders)
    BY <1>2, LockStep DEF IInv, Keeps
  <2>2. Builders \subseteq Task /\ Builders' \subseteq Task
    BY DEF Builders, Holders
  <2>3. CASE Builders = {} /\ Builders' # {}
    <3> PICK t \in Builders' : Builders' = {t}
      BY <2>1, <2>3 DEF OneBuild
    <3> QED
      BY <2>2, <2>3 DEF Slot!SlotNext, Slot!Start
  <2>4. CASE Builders # {} /\ Builders' # Builders
    <3> PICK t \in Builders : Builders = {t}
      BY <2>1, <2>4 DEF OneBuild
    <3> QED
      BY <2>1, <2>2, <2>4 DEF Slot!SlotNext, Slot!Leave
  <2> QED
    BY <2>3, <2>4
<1> QED
  BY <1>1, <1>2, LockInvariant, PTL DEF Spec, SlotImplemented, Slot!SlotSpec
=============================================================================
