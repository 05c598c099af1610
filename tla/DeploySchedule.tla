--------------------------- MODULE DeploySchedule ---------------------------
(***************************************************************************)
(* The one-time schedule of a git deployment: schedule_deploy and          *)
(* cancel_scheduled_deploy (backend/src/routes/git_deploys.rs) write the   *)
(* column scheduled_deploy_at, and check_schedules                         *)
(* (backend/src/services/deploy_scheduler.rs) acts on it once a minute: it *)
(* selects the row, asks whether the server is there, clears the column    *)
(* and calls trigger_deploy_task, which has gates of its own.  Operators   *)
(* write between any two of these steps.                                   *)
(***************************************************************************)
EXTENDS Naturals

CONSTANTS
  MaxOrders,   \* bound: schedules written
  MaxStrands   \* bound: panel restarts and last writes that fail

ASSUME ScheduleAssumption ==
  MaxOrders \in Nat /\ MaxStrands \in Nat

VARIABLES
  armed,     \* the order in scheduled_deploy_at, 0 when it is NULL
  due,       \* its time has come
  orders,    \* schedules written so far
  runs,      \* how many deploys each order has started
  fate,      \* history: how an order ended that was on the row, other than by its deploy
  pc,        \* where check_schedules is
  picked,    \* the order that stood in the row it selected
  building,  \* git_deploys.status is 'building'
  other,     \* a build through another door runs
  reachable, \* AgentRegistry::for_server finds the server
  strands    \* restarts and failed last writes so far

row    == <<armed, due, orders>>
others == <<other, strands>>
scheduleVars == <<row, runs, fate, pc, picked, building, reachable, others>>

Order == 1 .. MaxOrders

ScheduleInit ==
  /\ armed = 0 /\ due = FALSE /\ orders = 0
  /\ runs = [o \in Order |-> 0]
  /\ pc = "idle" /\ picked = 0
  /\ fate = [o \in Order |-> "none"]
  /\ building = FALSE /\ other = FALSE /\ strands = 0
  /\ reachable = TRUE

\* The orders of O end in this way, those that have not ended yet.
End(O, how) ==
  fate' = [o \in Order |-> IF o \in O /\ fate[o] = "none" THEN how ELSE fate[o]]

-----------------------------------------------------------------------------
\* The operators.  A new time replaces the one that stands.
ScheduleDeploy ==
  /\ orders < MaxOrders /\ orders' = orders + 1
  /\ armed' = orders + 1 /\ due' = FALSE
  /\ End({armed}, "takenBack")
  /\ UNCHANGED <<runs, pc, picked, building, reachable, others>>

CancelScheduled ==
  /\ armed # 0 /\ armed' = 0 /\ due' = FALSE
  /\ End({armed}, "takenBack")
  /\ UNCHANGED <<orders, runs, pc, picked, building, reachable, others>>

-----------------------------------------------------------------------------
\* The scheduler: one task, one deployment after the other, each to its end.
SelectAny ==
  /\ pc = "idle" /\ ~building
  /\ pc' = "selected" /\ picked' = armed
  /\ UNCHANGED <<row, runs, fate, building, reachable, others>>

Select ==
  /\ pc = "idle" /\ armed # 0 /\ due /\ ~building
  /\ pc' = "selected" /\ picked' = armed
  /\ UNCHANGED <<row, runs, fate, building, reachable, others>>

\* An unreachable server leaves the schedule armed, and the loop goes on.
CheckServerReturns ==
  /\ pc = "selected"
  /\ pc' = IF reachable THEN "clear" ELSE "returned"
  /\ UNCHANGED <<row, runs, fate, picked, building, reachable, others>>

CheckServer ==
  /\ pc = "selected"
  /\ pc' = IF reachable THEN "clear" ELSE "idle"
  /\ UNCHANGED <<row, runs, fate, picked, building, reachable, others>>

\* UPDATE ... SET scheduled_deploy_at = NULL WHERE id: whatever it held by then, so
\* an order written since the SELECT is wiped.  A failed write leaves the schedule
\* and deploys nothing.
ClearUnchecked ==
  /\ pc = "clear" /\ pc' = "trigger"
  /\ armed' \in {0, armed} /\ due' = (due /\ armed' # 0)
  /\ UNCHANGED <<orders, runs, fate, picked, building, reachable, others>>

Clear ==
  /\ pc = "clear"
  /\ \/ /\ pc' = "trigger" /\ armed' = 0 /\ due' = FALSE
        /\ End({armed} \ {picked}, "wiped")
     \/ pc' = "idle" /\ UNCHANGED <<armed, due, fate>>
  /\ UNCHANGED <<orders, runs, picked, building, reachable, others>>

\* trigger_deploy_task: the configuration, the server once more, the lock, which an
\* old enough leftover does not keep (GitDeploy).  Each of these may fail or refuse,
\* and so may the gate of incidents before them, which a failing query opens; what
\* is refused is only logged.
Leftover == building /\ ~other /\ pc # "deploying"

Trigger ==
  /\ pc = "trigger"
  /\ \/ /\ reachable /\ (~building \/ Leftover)
        /\ pc' = "deploying" /\ building' = TRUE
        /\ runs' = [runs EXCEPT ![picked] = @ + 1] /\ UNCHANGED fate
     \/ pc' = "idle" /\ End({picked}, "declined") /\ UNCHANGED <<building, runs>>
  /\ UNCHANGED <<row, picked, reachable, others>>

\* A build ends, and its last write frees the status, or fails and leaves it.
LastWrite ==
  \/ building' = FALSE /\ UNCHANGED strands
  \/ strands < MaxStrands /\ strands' = strands + 1 /\ UNCHANGED building

DeployEnds ==
  /\ pc = "deploying" /\ pc' = "after"
  /\ LastWrite
  /\ UNCHANGED <<row, runs, fate, picked, reachable, other>>

\* The hook, the notices and the health check of the site; then the next row.
AfterDeploy ==
  /\ pc = "after" /\ pc' = "idle"
  /\ UNCHANGED <<row, runs, fate, picked, building, reachable, others>>

-----------------------------------------------------------------------------
\* Around them: time, the other doors, the server, the process.
TimeComes ==
  /\ armed # 0 /\ ~due /\ due' = TRUE
  /\ UNCHANGED <<armed, orders, runs, fate, pc, picked, building, reachable, others>>

OtherBuild ==
  /\ ~building \/ Leftover
  /\ ~other /\ building' = TRUE /\ other' = TRUE
  /\ UNCHANGED <<row, runs, fate, pc, picked, reachable, strands>>

OtherEnds ==
  /\ other /\ other' = FALSE
  /\ LastWrite
  /\ UNCHANGED <<row, runs, fate, pc, picked, reachable>>

\* Stop, start and restart write the status whatever it is.
Lifecycle ==
  /\ building /\ building' = FALSE
  /\ UNCHANGED <<row, runs, fate, pc, picked, reachable, others>>

ServerComesAndGoes ==
  /\ reachable' = ~reachable
  /\ UNCHANGED <<row, runs, fate, pc, picked, building, others>>

\* The panel dies with its tasks; the row keeps its status, and an order off the row
\* whose deploy was about to start is gone.
PanelDies ==
  /\ pc # "idle" \/ other
  /\ strands < MaxStrands /\ strands' = strands + 1
  /\ pc' = "idle" /\ other' = FALSE
  /\ End(IF pc = "trigger" THEN {picked} ELSE {}, "cutOff")
  /\ UNCHANGED <<row, runs, picked, building, reachable>>

Scheduler == Select \/ CheckServer \/ Clear \/ Trigger \/ DeployEnds \/ AfterDeploy
Operator == ScheduleDeploy \/ CancelScheduled \/ Lifecycle
Environment == TimeComes \/ OtherBuild \/ OtherEnds \/ ServerComesAndGoes \/ PanelDies

ScheduleNext == Scheduler \/ Operator \/ Environment

ScheduleSpec == ScheduleInit /\ [][ScheduleNext]_scheduleVars

\* The scheduler's interval ticks, calls return, a deploy ends and a time comes.  The
\* UPDATE that clears the schedule, tried again each minute, does not fail for ever.
\* Nothing makes an operator act, a server come back or another build end.
ClearOk == Clear /\ pc' = "trigger"

Fairness ==
  WF_scheduleVars(Scheduler) /\ SF_scheduleVars(ClearOk) /\ WF_scheduleVars(TimeComes)

ScheduleFairSpec == ScheduleSpec /\ Fairness
-----------------------------------------------------------------------------
\* Properties.

ScheduleTypeOK ==
  /\ armed \in 0 .. orders /\ due \in BOOLEAN /\ orders \in 0 .. MaxOrders
  /\ runs \in [Order -> Nat]
  /\ pc \in {"idle", "selected", "clear", "trigger", "deploying", "after"}
  /\ picked \in 0 .. orders /\ (pc # "idle" => picked # 0)
  /\ building \in BOOLEAN /\ other \in BOOLEAN
  /\ fate \in [Order -> {"none", "takenBack", "wiped", "declined", "cutOff"}]
  /\ reachable \in BOOLEAN /\ strands \in 0 .. MaxStrands

\* One schedule is one deploy, whatever fails, restarts or is rescheduled: the
\* comment on the UPDATE calls it the only thing between a one-time deploy and an
\* unbounded redeploy loop.
AtMostOnce == \A o \in Order : runs[o] <= 1

\* An order on the row does not stay there for ever: once the server is there for
\* good, no more builds come through the other doors and no dead build has left a
\* 'building' behind, it is deployed, or it ended in one of four ways: an operator
\* took it back, the UPDATE that clears by id wiped it for an older one, the gates of
\* trigger_deploy_task declined it after it was cleared, or the panel died between
\* the two.  Builds that never stop, or a 'building' nobody frees, may keep the
\* SELECT from it for ever.
Quiet == reachable /\ ~other /\ ~Leftover

OrderTaken == \A o \in Order : <>[]Quiet => (armed = o ~> (runs[o] > 0 \/ fate[o] # "none"))
=============================================================================
