------------------------------ MODULE GitDeploy ------------------------------
(***************************************************************************)
(* One git deployment (backend/src/routes/git_deploys.rs): the row whose   *)
(* `status` column is its build lock, the background tasks that build and  *)
(* deploy it, the monitor that follows a deploy, and the container on the  *)
(* host.  Every door that builds takes the lock with the same conditional  *)
(* UPDATE, which also takes it over when the row has not been written for  *)
(* Window minutes; nothing else tells a live build from a dead one.  Time  *)
(* is therefore part of the model: a Tick is one minute, and each agent    *)
(* call has the budget the code gives it.                                  *)
(***************************************************************************)
EXTENDS Integers, Sequences

CONSTANTS
  Task,           \* requests being served and the background tasks they spawn
  Door,           \* the doors in use, of the five that build
  Image,          \* image tags, one per commit that can be built
  NoImage,        \* no image: '' in the row, or no container on the host
  ComposeTag,     \* the image_tag 'compose' a Compose deploy records
  Window,         \* minutes after which a 'building' row counts as abandoned
  Budget,         \* minutes an agent call may take, by pipeline phase
  MonitorMinutes, \* how long the monitor watches a container that answers
  MaxHistory,     \* bound: history rows past which no build is admitted
  MaxEdits        \* bound: operator writes that refresh updated_at

VARIABLES
  exists,     \* the git_deploys row exists
  status,     \* git_deploys.status
  age,        \* minutes since git_deploys.updated_at, counted to Window + 1
  image,      \* git_deploys.image_tag
  history,    \* git_deploy_history, oldest first
  task,       \* each request or background task
  container,  \* the image the deployment's container runs on the host
  up,         \* that container is running
  removing,   \* a DELETE has torn the container down, the row still stands
  edits       \* operator writes so far

row  == <<exists, status, age, image>>
host == <<container, up>>
vars == <<row, history, task, host, removing, edits>>

AnyDoor == {"manual", "webhook", "approved", "scheduled", "rollback"}

\* The doors whose pipeline is spawn_deploy_task, which ends in the monitor.
Spawned == {"manual", "webhook", "approved"}

\* Phases in which a task relies on the build lock ...
LockPhase == {"backup", "clone", "composeCheck", "compose", "preBuildCheck", "nixpacks",
              "detect", "build", "tlsCheck", "deploy", "finishOk", "finishFail"}
\* ... and phases after it has given the lock back.
AfterPhase == {"hook", "monitor", "undo", "undoRecord"}
TimedPhase == LockPhase \cup AfterPhase
Phase == TimedPhase \cup {"idle", "admitted"}

Status == {"pending", "building", "running", "failed", "stopped"}
Tag == Image \cup {NoImage, ComposeTag}

ASSUME ConstantsAssumption ==
  /\ Door \subseteq AnyDoor
  /\ NoImage \notin Image /\ ComposeTag \notin Image /\ NoImage # ComposeTag
  /\ Window \in Nat
  /\ Budget \in [TimedPhase -> Nat]
  /\ MonitorMinutes \in Nat /\ MaxHistory \in Nat /\ MaxEdits \in Nat

\* The comment on the lock in deploy(): the window is longer than a build may
\* go between two writes of updated_at.  The real numbers, the 60s wait for a
\* permit of a remote agent included: 2+5+2+11+2+2 = 24, 2+5+2+11 = 20 and
\* 11+2+2 = 15 minutes, against 30.
ASSUME BudgetAssumption ==
  /\ Budget["backup"] + Budget["clone"] + Budget["composeCheck"]
       + Budget["preBuildCheck"] + Budget["nixpacks"] + Budget["detect"] <= Window
  /\ Budget["backup"] + Budget["clone"] + Budget["composeCheck"] + Budget["compose"] <= Window
  /\ Budget["build"] + Budget["tlsCheck"] + Budget["deploy"] <= Window
  /\ Budget["finishOk"] = 0 /\ Budget["finishFail"] = 0

\* A task: its phase, the door it came through, the image it builds or deploys,
\* the minutes spent in the phase, and whether its lock was given away under it
\* (read by properties only).
Idle == [phase |-> "idle", door |-> "manual", image |-> NoImage, spent |-> 0, revoked |-> FALSE]

TaskRecord == [phase : Phase, door : AnyDoor, image : Tag, spent : Nat, revoked : BOOLEAN]

\* The builds that run, and those of them whose lock nobody has given away.
Holders  == {t \in Task : task[t].phase \in LockPhase}
Builders == {t \in Holders : ~task[t].revoked}

\* The image tags POST /git/deploy accepts: it refuses '' and 'compose'.
DeployableAny(i) == TRUE

Deployable(i) == i \in Image

Init ==
  /\ exists = TRUE /\ status = "pending" /\ age = 0 /\ image = NoImage
  /\ history = <<>>
  /\ task = [t \in Task |-> Idle]
  /\ container = NoImage /\ up = FALSE
  /\ removing = FALSE /\ edits = 0

-----------------------------------------------------------------------------
\* Helpers: what a statement of a handler or of a task does.

\* Task t goes on to phase p, or is over.
At(t, p) == IF p = "idle" THEN Idle ELSE [task[t] EXCEPT !.phase = p, !.spent = 0]
Goto(t, p) == task' = [task EXCEPT ![t] = At(t, p)]

\* Every running build outside S loses its lock.
RevokeAllBut(S) ==
  [t \in Task |-> IF t \in Holders \ S THEN [task[t] EXCEPT !.revoked = TRUE] ELSE task[t]]

\* UPDATE git_deploys SET status = s, updated_at = NOW(): no row, no effect.
WriteStatus(s) ==
  /\ status' = IF exists THEN s ELSE status
  /\ age' = IF exists THEN 0 ELSE age
  /\ UNCHANGED exists

\* INSERT INTO git_deploy_history.  Without a row the foreign key refuses it;
\* a failed insert is logged and the task goes on.
Record(i, ok) ==
  \/ exists /\ history' = Append(history, [image |-> i, ok |-> ok])
  \/ UNCHANGED history

\* A failed step: the failed history row, then the status write.
FailBuild(t, i) ==
  /\ Record(i, FALSE)
  /\ Goto(t, "finishFail")
  /\ UNCHANGED row

Untouched == UNCHANGED <<removing, edits>>
-----------------------------------------------------------------------------
\* The doors.  A request that a gate refuses changes nothing; one that passes
\* reads the row, resolves the agent and reaches the lock.
Arrive(t, d, i) ==
  /\ task[t].phase = "idle" /\ exists
  /\ d \in Door
  /\ task' = [task EXCEPT ![t] = [Idle EXCEPT !.phase = "admitted", !.door = d, !.image = i]]
  /\ Untouched /\ UNCHANGED <<row, history, host>>

Admit(t) ==
  /\ Len(history) < MaxHistory
  /\ \E d \in Door \ {"rollback"} : Arrive(t, d, NoImage)

\* A rollback names a history row, successful or not, and takes its image.
AdmitRollback(t) ==
  /\ Len(history) <= MaxHistory
  /\ \E k \in DOMAIN history : Arrive(t, "rollback", history[k].image)

\* WHERE status IS DISTINCT FROM 'building' OR updated_at < NOW() - 30 minutes
AcquirableAtOnce == exists
AcquirableWhenFree == exists /\ status # "building"

Acquirable == exists /\ (status # "building" \/ age > Window)

\* A rollback deploys at once.  An approval is marked approved after the lock is
\* taken, and when that write fails the handler returns and leaves the lock.
FirstPhase(d) ==
  CASE d = "rollback" -> {"tlsCheck", "deploy"}
    [] d = "approved" -> {"backup", "clone", "idle"}
    [] OTHER          -> {"backup", "clone"}

\* The conditional UPDATE: the caller that changes no row is refused.
TakeLockUnasked(t) ==
  /\ task[t].phase = "admitted" /\ exists
  /\ WriteStatus("building") /\ UNCHANGED image
  /\ \E p \in FirstPhase(task[t].door) : Goto(t, p)
  /\ Untouched /\ UNCHANGED <<history, host>>

TakeLock(t) ==
  /\ task[t].phase = "admitted"
  /\ IF Acquirable
       THEN /\ WriteStatus("building") /\ UNCHANGED image
            /\ \E p \in FirstPhase(task[t].door) : Goto(t, p)
       ELSE task' = [task EXCEPT ![t] = Idle] /\ UNCHANGED row
  /\ Untouched /\ UNCHANGED <<history, host>>
-----------------------------------------------------------------------------
\* The pipeline, one action per agent call.  A step that finds nothing to do
\* (no domain, no pre-build command, no registered certificate) is skipped.

Backup(t) ==
  /\ task[t].phase = "backup"
  /\ Goto(t, "clone")
  /\ Untouched /\ UNCHANGED <<row, history, host>>

Clone(t) ==
  /\ task[t].phase = "clone"
  /\ \/ Goto(t, "composeCheck") /\ UNCHANGED <<row, history>>
     \/ FailBuild(t, NoImage)
  /\ Untouched /\ UNCHANGED host

\* A compose file is deployed as a stack, unless a gate refuses its images;
\* an answer that is an error counts as no compose file.
ComposeCheck(t) ==
  /\ task[t].phase = "composeCheck"
  /\ \/ \E p \in {"compose", "preBuildCheck", "nixpacks"} : Goto(t, p) /\ UNCHANGED <<row, history>>
     \/ FailBuild(t, NoImage)
  /\ Untouched /\ UNCHANGED host

Compose(t) ==
  /\ task[t].phase = "compose"
  /\ \/ /\ Record(ComposeTag, TRUE)
        /\ task' = [task EXCEPT ![t] = [At(t, "finishOk") EXCEPT !.image = ComposeTag]]
        /\ UNCHANGED row
     \/ FailBuild(t, NoImage)
  /\ Untouched /\ UNCHANGED host

PreBuildCheck(t) ==
  /\ task[t].phase = "preBuildCheck"
  /\ \/ Goto(t, "detect") /\ UNCHANGED <<row, history>>
     \/ FailBuild(t, NoImage)
  /\ Untouched /\ UNCHANGED host

\* UPDATE git_deploys SET build_method = ..., updated_at = NOW() restarts the
\* clock of the lock.  When it fails that is logged and the build goes on, on a
\* clock that may run out: the lock counts as given away.
TouchNothing(ok) == UNCHANGED row

Touch(ok) ==
  /\ age' = IF ok /\ exists THEN 0 ELSE age
  /\ UNCHANGED <<exists, status, image>>
Touched(t, p, ok) == [At(t, p) EXCEPT !.revoked = @ \/ ~ok]

Nixpacks(t) ==
  /\ task[t].phase = "nixpacks"
  /\ \/ \E i \in Image, p \in {"tlsCheck", "deploy"}, ok \in BOOLEAN :
          /\ Touch(ok)
          /\ task' = [task EXCEPT ![t] = [Touched(t, p, ok) EXCEPT !.image = i]]
     \/ Goto(t, "detect") /\ UNCHANGED row
  /\ Untouched /\ UNCHANGED <<history, host>>

Detect(t) ==
  /\ task[t].phase = "detect"
  /\ \/ \E ok \in BOOLEAN :
          /\ Touch(ok)
          /\ task' = [task EXCEPT ![t] = Touched(t, "build", ok)]
          /\ UNCHANGED history
     \/ FailBuild(t, NoImage)
  /\ Untouched /\ UNCHANGED host

Build(t) ==
  /\ task[t].phase = "build"
  /\ \/ \E i \in Image, p \in {"tlsCheck", "deploy"} :
          /\ task' = [task EXCEPT ![t] = [At(t, p) EXCEPT !.image = i]]
          /\ UNCHANGED <<row, history>>
     \/ FailBuild(t, NoImage)
  /\ Untouched /\ UNCHANGED host

TlsCheck(t) ==
  /\ task[t].phase = "tlsCheck"
  /\ \/ Goto(t, "deploy") /\ UNCHANGED <<row, history>>
     \/ FailBuild(t, IF task[t].door = "rollback" THEN task[t].image ELSE NoImage)
  /\ Untouched /\ UNCHANGED host

\* POST /git/deploy on the host: the container is swapped, or the call fails
\* before, during or after the swap (a timeout cuts it off anywhere).
SwapOk(i) == Deployable(i) /\ container' = i /\ up' = TRUE
SwapFails(i) ==
  \/ UNCHANGED host
  \/ Deployable(i) /\ container' \in {i, NoImage} /\ up' = FALSE
  \/ Deployable(i) /\ container' = i /\ up' = TRUE

Deploy(t) ==
  /\ task[t].phase = "deploy"
  /\ \/ /\ SwapOk(task[t].image)
        /\ Record(task[t].image, TRUE)
        /\ Goto(t, "finishOk")
        /\ UNCHANGED row
     \/ /\ SwapFails(task[t].image)
        /\ FailBuild(t, IF task[t].door = "scheduled" THEN NoImage ELSE task[t].image)
  /\ Untouched
-----------------------------------------------------------------------------
\* The last write of the pipeline gives the lock back, whoever holds it by then.
\* Its own failure is logged and leaves 'building' for the window to heal.

\* Only the pipeline of spawn_deploy_task ends in the monitor.
AfterFinish(t) ==
  IF task[t].image = ComposeTag \/ task[t].door = "rollback" THEN {"idle"}
  ELSE IF task[t].door \in Spawned THEN {"hook", "monitor"} ELSE {"hook", "idle"}

Finish(t, s, i, next) ==
  \E p \in next :
    \/ /\ WriteStatus(s)
       /\ image' = IF exists THEN i ELSE image
       /\ task' = [(IF exists THEN RevokeAllBut({t}) ELSE task)
                   EXCEPT ![t] = [At(t, p) EXCEPT !.revoked = FALSE]]
    \/ /\ task' = [task EXCEPT ![t] = [At(t, p) EXCEPT !.revoked = FALSE]]
       /\ UNCHANGED row

FinishOk(t) ==
  /\ task[t].phase = "finishOk"
  /\ Finish(t, "running", IF task[t].image = ComposeTag THEN image ELSE task[t].image,
            AfterFinish(t))
  /\ Untouched /\ UNCHANGED <<history, host>>

FinishFail(t) ==
  /\ task[t].phase = "finishFail"
  /\ Finish(t, "failed", image, {"idle"})
  /\ Untouched /\ UNCHANGED <<history, host>>
-----------------------------------------------------------------------------
\* After the lock: the post-deploy hook, then the auto-rollback monitor.

Hook(t) ==
  /\ task[t].phase = "hook"
  /\ Goto(t, IF task[t].door \in Spawned THEN "monitor" ELSE "idle")
  /\ Untouched /\ UNCHANGED <<row, history, host>>

\* Eight probes of POST /git/logs answered: the monitor stops.  The agent
\* answers it with whatever log it could read, for a dead container as well.
MonitorDone(t) ==
  /\ task[t].phase = "monitor" /\ task[t].spent >= MonitorMinutes
  /\ Goto(t, "idle")
  /\ Untouched /\ UNCHANGED <<row, history, host>>

\* The newest successful history row with another image.
Previous(i) ==
  {k \in DOMAIN history :
     /\ history[k].ok /\ history[k].image # i
     /\ \A j \in DOMAIN history : j > k => ~(history[j].ok /\ history[j].image # i)}

\* A probe fails: the agent did not answer.
ProbeFails(t) ==
  /\ task[t].phase = "monitor"
  /\ IF Previous(task[t].image) # {}
       THEN \E k \in Previous(task[t].image) :
              task' = [task EXCEPT ![t] = [At(t, "undo") EXCEPT !.image = history[k].image]]
       ELSE Goto(t, "idle")
  /\ Untouched /\ UNCHANGED <<row, history, host>>

\* The monitor's own POST /git/deploy, for which it does not take the lock.
Undo(t) ==
  /\ task[t].phase = "undo"
  /\ \/ SwapOk(task[t].image) /\ Record(task[t].image, TRUE) /\ Goto(t, "undoRecord")
     \/ SwapFails(task[t].image) /\ Goto(t, "idle") /\ UNCHANGED history
  /\ Untouched /\ UNCHANGED row

UndoRecord(t) ==
  /\ task[t].phase = "undoRecord"
  /\ Goto(t, "idle")
  /\ \/ /\ exists
        /\ image' = task[t].image /\ age' = 0
        /\ UNCHANGED <<exists, status>>
     \/ UNCHANGED row
  /\ Untouched /\ UNCHANGED <<history, host>>
-----------------------------------------------------------------------------
\* The lifecycle buttons: the agent acts on the container, then the handler
\* writes the status without asking whether a build holds it.
Lifecycle(s, running) ==
  /\ exists /\ container # NoImage
  /\ up' = running /\ UNCHANGED container
  /\ \/ WriteStatus(s) /\ task' = RevokeAllBut({}) /\ UNCHANGED image
     \/ UNCHANGED <<row, task>>
  /\ Untouched /\ UNCHANGED history

Stop    == Lifecycle("stopped", FALSE)
StartUp == Lifecycle("running", TRUE)
Restart == Lifecycle("running", TRUE)

\* update, keygen, schedule and cancel-schedule write updated_at as well, which
\* is the clock of the lock.
Edit ==
  /\ exists /\ edits < MaxEdits
  /\ edits' = edits + 1
  /\ age' = 0
  /\ UNCHANGED <<exists, status, image, history, task, host, removing>>

\* DELETE: tear the container down on the host, then delete the row.  Without
\* the agent's answer the handler stops there, whatever the agent had done.
Cleanup ==
  /\ exists /\ ~removing
  /\ \/ container' = NoImage /\ up' = FALSE /\ removing' \in BOOLEAN
     \/ UNCHANGED <<host, removing>>
  /\ UNCHANGED <<row, history, task, edits>>

DeleteRow ==
  /\ removing /\ exists
  /\ exists' = FALSE /\ history' = <<>> /\ removing' = FALSE
  /\ UNCHANGED <<status, age, image, task, host, edits>>
-----------------------------------------------------------------------------
\* The environment: containers die and are restarted by Docker, the panel
\* process dies with its tasks, and time passes.

ContainerCrash ==
  /\ up /\ up' = FALSE
  /\ UNCHANGED <<row, history, task, container, removing, edits>>

ContainerRestart ==
  /\ ~up /\ container # NoImage /\ up' = TRUE
  /\ UNCHANGED <<row, history, task, container, removing, edits>>

\* Nothing at startup looks at git_deploys: a 'building' row stays as it is.
PanelRestart ==
  /\ \E t \in Task : task[t].phase # "idle"
  /\ task' = [t \in Task |-> Idle]
  /\ \/ UNCHANGED host
     \/ \E t \in Task : task[t].phase \in {"deploy", "undo"} /\ SwapFails(task[t].image)
  /\ removing' = FALSE
  /\ UNCHANGED <<row, history, edits>>

\* A minute passes, unless a call is at the end of its budget: its timeout
\* fires first.
Tick ==
  /\ \A t \in Task : task[t].phase \in TimedPhase => task[t].spent < Budget[task[t].phase]
  /\ age' = IF age > Window THEN age ELSE age + 1
  /\ task' = [t \in Task |-> IF task[t].phase \in TimedPhase
                             THEN [task[t] EXCEPT !.spent = @ + 1] ELSE task[t]]
  /\ UNCHANGED <<exists, status, image, history, host, removing, edits>>
-----------------------------------------------------------------------------
TaskStep(t) ==
  \/ TakeLock(t) \/ Backup(t) \/ Clone(t) \/ ComposeCheck(t) \/ Compose(t)
  \/ PreBuildCheck(t) \/ Nixpacks(t) \/ Detect(t) \/ Build(t) \/ TlsCheck(t) \/ Deploy(t)
  \/ FinishOk(t) \/ FinishFail(t) \/ Hook(t)
  \/ MonitorDone(t) \/ ProbeFails(t) \/ Undo(t) \/ UndoRecord(t)

Operator == Stop \/ StartUp \/ Restart \/ Edit \/ Cleanup \/ DeleteRow

Environment == ContainerCrash \/ ContainerRestart \/ PanelRestart \/ Tick

Next ==
  \/ \E t \in Task : TaskStep(t) \/ Admit(t) \/ AdmitRollback(t)
  \/ Operator
  \/ Environment

Spec == Init /\ [][Next]_vars

\* tokio polls a spawned task whose call has returned or timed out, and time
\* passes.  Nothing makes an operator or a failure happen.
Fairness == WF_vars(Tick) /\ \A t \in Task : WF_vars(TaskStep(t))

FairSpec == Spec /\ Fairness
-----------------------------------------------------------------------------
\* Properties.

TypeOK ==
  /\ exists \in BOOLEAN /\ status \in Status /\ image \in Tag
  /\ age \in 0 .. Window + 1
  /\ history \in Seq([image : Tag, ok : BOOLEAN])
  /\ task \in [Task -> TaskRecord]
  /\ container \in Image \cup {NoImage} /\ up \in BOOLEAN
  /\ removing \in BOOLEAN /\ edits \in 0 .. MaxEdits

\* The most minutes that can have passed since the last write of updated_at when
\* a build enters phase p.
Reach(p) ==
  CASE p = "clone" -> Budget["backup"]
    [] p = "composeCheck" -> Budget["backup"] + Budget["clone"]
    [] p \in {"compose", "preBuildCheck", "nixpacks"} ->
         Budget["backup"] + Budget["clone"] + Budget["composeCheck"]
    [] p = "detect" ->
         Budget["backup"] + Budget["clone"] + Budget["composeCheck"]
           + Budget["preBuildCheck"] + Budget["nixpacks"]
    [] p = "tlsCheck" -> Budget["build"]
    [] p = "deploy" -> Budget["build"] + Budget["tlsCheck"]
    [] p \in {"finishOk", "finishFail"} -> Window
    [] OTHER -> 0

\* The clock of the lock runs no faster than the calls of the build that holds
\* it: every write of updated_at the argument of deploy() relies on is there.
LockClock ==
  \A t \in Builders :
    exists => status = "building" /\ age <= Reach(task[t].phase) + task[t].spent

\* Every call ends within its budget.
InBudget == \A t \in Task : task[t].phase \in TimedPhase => task[t].spent <= Budget[task[t].phase]

\* No two builds of the deployment run at once, whatever the doors they came
\* through and however long their calls take, as long as nobody gives the lock
\* of a running build away.
OneBuild == \A t1, t2 \in Builders : t1 = t2

\* The window is long enough: a build that runs on an untouched lock never has
\* a row that looks free, or abandoned, to the conditional UPDATE of a door.
LockHeldWhileBuilding == exists /\ Builders # {} => ~Acquirable

\* A lock nobody will give back (the panel died, the last write failed, an
\* approval failed after taking it) is taken over in the end, or the row goes.
StrandedLockHeals ==
  exists /\ status = "building" /\ Holders = {} ~> Acquirable \/ ~exists

\* The lock is an implementation of the abstract build slot.
Slot == INSTANCE BuildSlot WITH builders <- Builders
SlotImplemented == Slot!SlotSpec
=============================================================================
