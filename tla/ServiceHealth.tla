--------------------------- MODULE ServiceHealth ---------------------------
(***************************************************************************)
(* A system service of one server, the alert engine that watches it        *)
(* (check_service_health, backend/src/services/alert_engine.rs) and the    *)
(* auto-healer that restarts it (auto_restart_services,                    *)
(* backend/src/services/auto_healer.rs).  The two are tasks of their own   *)
(* that share three tables and nothing else: alert_state, whose row is     *)
(* their hand-over, alerts, which the operator sees, and activity_logs,    *)
(* whose rows are the healer's budget and the engine's reason to keep      *)
(* quiet.  Every statement of a pass is a step.                            *)
(***************************************************************************)
EXTENDS Naturals, Sequences, FiniteSets

CONSTANTS
  Period,    \* minutes from one pass to the next, of both tasks
  Silence,   \* the engine keeps quiet about a service healed this recently
  Cooldown,  \* the healer leaves a service it tried this recently
  Window,    \* the healer counts its attempts over this long
  Attempts,  \* and gives up after so many
  MaxUpsets  \* bound: statements that fail, acts of the operators on alerts,
             \* incidents and settings, and panel restarts, together

ASSUME HealthAssumption ==
  /\ {Period, Silence, Cooldown, Window, Attempts} \subseteq Nat \ {0}
  /\ MaxUpsets \in Nat

VARIABLES
  running,   \* the service runs
  state,     \* alert_state.current_state, "none" without a row
  firing,    \* alerts that stand as 'firing': 0, 1, or 2 for more
  incidents, \* the open incidents about it: service down, healer gave up
  attempts,  \* restarts asked for, oldest first: [age, logged]
  enabled,   \* settings.auto_heal_enabled
  unheard,   \* history: the alert of the last stamp was declined, being switched off
  engine,    \* where the engine's pass is
  healer,    \* where the healer's pass is
  faults, hands, restarts \* the upsets so far

alerting == <<state, firing, incidents>>
settings == <<enabled, unheard>>
bounds   == <<hands, restarts>>
vars == <<running, alerting, attempts, settings, engine, healer, faults, bounds>>

States == {"none", "ok", "firing", "exhausted"}

Init ==
  /\ running = TRUE
  /\ state = "none" /\ firing = 0 /\ incidents = {}
  /\ attempts = <<>> /\ enabled \in BOOLEAN /\ unheard = FALSE
  /\ engine = "todo" /\ healer = "todo"
  /\ faults = 0 /\ hands = 0 /\ restarts = 0

Fine == UNCHANGED faults
MayUpset == faults + hands + restarts < MaxUpsets
Fault == MayUpset /\ faults' = faults + 1
Hand == MayUpset /\ hands' = hands + 1

More(n) == IF n = 2 THEN 2 ELSE n + 1
Fewer(n) == IF n = 2 THEN {1, 2} ELSE {n - 1}

\* SELECT COUNT(*) FROM activity_logs ... AND created_at > NOW() - limit.  A pass
\* starts anywhere in its period, so a row as old as the limit may count or not.
Logged == {i \in DOMAIN attempts : attempts[i].logged}
Counted(limit) ==
  {Cardinality({i \in Logged : attempts[i].age < limit}),
   Cardinality({i \in Logged : attempts[i].age <= limit})}

-----------------------------------------------------------------------------
\* The alert engine.  It passes the service over when the owner is in
\* maintenance, the agent does not answer or the status is neither up nor down.
EngineLook ==
  /\ engine = "todo"
  /\ engine' \in {IF running THEN "up" ELSE "down", "done"}
  /\ UNCHANGED <<running, alerting, attempts, settings, healer, faults, bounds>>

\* A read that fails finds no recent restart, and no state.
EngineQuiet ==
  /\ engine = "down"
  /\ \/ \E n \in Counted(Silence) : Fine /\ engine' = IF n > 0 THEN "done" ELSE "state"
     \/ Fault /\ engine' = "state"
  /\ UNCHANGED <<running, alerting, attempts, settings, healer, bounds>>

EngineDownOnce ==
  /\ engine = "state"
  /\ \/ Fine /\ engine' = IF state = "none" THEN "stamp" ELSE "done"
     \/ Fault /\ engine' = "stamp"
  /\ UNCHANGED <<running, alerting, attempts, settings, healer, bounds>>

EngineDown ==
  /\ engine = "state"
  /\ \/ Fine /\ engine' = IF state = "firing" THEN "done" ELSE "stamp"
     \/ Fault /\ engine' = "stamp"
  /\ UNCHANGED <<running, alerting, attempts, settings, healer, bounds>>

EngineStamp ==
  /\ engine = "stamp" /\ engine' = "fire"
  /\ \/ Fine /\ state' = "firing"
     \/ Fault /\ UNCHANGED state
  /\ unheard' = FALSE
  /\ UNCHANGED <<running, firing, incidents, attempts, enabled, healer, bounds>>

\* fire_alert_with_retry, of which the caller ignores the answer: the row, and an
\* incident unless the owner has a fresh one already; nothing when the rule has the
\* type switched off, as operators switch it at will; nothing after two attempts
\* that fail.  A rule that cannot be read counts as switched on.
EngineFire ==
  /\ engine = "fire" /\ engine' = "done"
  /\ \/ /\ Fine \/ Fault
        /\ firing' = More(firing) /\ incidents' \in {incidents, incidents \cup {"down"}}
        /\ UNCHANGED unheard
     \/ Fine /\ unheard' = TRUE /\ UNCHANGED <<firing, incidents>>
     \/ Fault /\ UNCHANGED <<firing, incidents, unheard>>
  /\ UNCHANGED <<running, state, attempts, enabled, healer, bounds>>

EngineUp ==
  /\ engine = "up"
  /\ \/ Fine /\ engine' = IF state = "firing" THEN "clear" ELSE "done"
     \/ Fault /\ engine' = "done"
  /\ UNCHANGED <<running, alerting, attempts, settings, healer, bounds>>

EngineClear ==
  /\ engine = "clear" /\ engine' = "resolve"
  /\ \/ Fine /\ state' = IF state = "none" THEN "none" ELSE "ok"
     \/ Fault /\ UNCHANGED state
  /\ UNCHANGED <<running, firing, incidents, attempts, settings, healer, bounds>>

\* resolve_alert touches the rows that are 'firing'.
EngineResolve ==
  /\ engine = "resolve" /\ engine' = "done"
  /\ \/ Fine /\ firing' = 0
     \/ Fault /\ UNCHANGED firing
  /\ UNCHANGED <<running, state, incidents, attempts, settings, healer, bounds>>

-----------------------------------------------------------------------------
\* The auto-healer.  First the service it gave up on, if that runs again; the
\* agent may not answer.
HealerStart ==
  /\ healer = "todo"
  /\ \/ ~enabled /\ healer' = "done"
     \/ enabled /\ healer' = "select"
     \/ enabled /\ state = "exhausted" /\ running /\ healer' = "recover"
  /\ UNCHANGED <<running, alerting, attempts, settings, engine, faults, bounds>>

\* The state, then the incident of the alert engine; not the alert, and not the
\* incident the healer opened itself.
HealerRecover ==
  LET cleared == IF state = "exhausted" THEN "none" ELSE state
      left == incidents \ {"down"} IN
  /\ healer = "recover" /\ healer' = "select"
  /\ \/ Fine /\ state' = cleared /\ incidents' = left
     \/ Fault /\ state' \in {state, cleared} /\ incidents' \in {incidents, left}
  /\ UNCHANGED <<running, firing, attempts, settings, engine, bounds>>

\* The alert_state row that fires, if the agent of its server is known.
HealerSelect ==
  /\ healer = "select"
  /\ \/ state = "firing" /\ healer' = "budget"
     \/ healer' = "done"
  /\ UNCHANGED <<running, alerting, attempts, settings, engine, faults, bounds>>

\* A count that fails to be read is a count of none.
HealerBudgetLate ==
  /\ healer = "budget"
  /\ \E n \in Counted(Window) : Fine /\ healer' = IF n > Attempts THEN "giveUp" ELSE "gap"
  /\ UNCHANGED <<running, alerting, attempts, settings, engine, bounds>>

HealerBudget ==
  /\ healer = "budget"
  /\ \/ \E n \in Counted(Window) : Fine /\ healer' = IF n >= Attempts THEN "giveUp" ELSE "gap"
     \/ Fault /\ healer' = "gap"
  /\ UNCHANGED <<running, alerting, attempts, settings, engine, bounds>>

HealerGapSuccess ==
  /\ healer = "gap"
  /\ healer' = IF state = "ok" THEN "done" ELSE "post"
  /\ UNCHANGED <<running, alerting, attempts, settings, engine, faults, bounds>>

HealerGap ==
  /\ healer = "gap"
  /\ \/ \E n \in Counted(Cooldown) : Fine /\ healer' = IF n > 0 THEN "done" ELSE "post"
     \/ Fault /\ healer' = "post"
  /\ UNCHANGED <<running, alerting, attempts, settings, engine, bounds>>

HealerGiveUp ==
  /\ healer = "giveUp" /\ healer' = "exhaust"
  /\ \/ Fine /\ incidents' = incidents \cup {"gaveUp"}
     \/ Fault /\ UNCHANGED incidents
  /\ UNCHANGED <<running, state, firing, attempts, settings, engine, bounds>>

HealerExhaustMisspelt ==
  /\ healer = "exhaust" /\ healer' = "done"
  /\ state' = IF state = "firing" THEN "gave_up" ELSE state
  /\ UNCHANGED <<running, firing, incidents, attempts, settings, engine, faults, bounds>>

HealerExhaust ==
  /\ healer = "exhaust" /\ healer' = "done"
  /\ \/ Fine /\ state = "firing" /\ state' = "exhausted"
     \/ Fine /\ state # "firing" /\ UNCHANGED state
     \/ Fault /\ UNCHANGED state
  /\ UNCHANGED <<running, firing, incidents, attempts, settings, engine, bounds>>

\* The agent restarts the unit.  An answer that is lost says nothing of the unit.
HealerPost ==
  /\ healer = "post"
  /\ \/ healer' = "logOk" /\ running' = TRUE
     \/ healer' = "logFailed" /\ running' \in BOOLEAN
  /\ attempts' = Append(attempts, [age |-> 0, logged |-> FALSE])
  /\ UNCHANGED <<alerting, settings, engine, faults, bounds>>

HealerLog ==
  /\ healer \in {"logOk", "logFailed"}
  /\ healer' = IF healer = "logOk" THEN "clear" ELSE "done"
  /\ \/ Fine /\ attempts' = [attempts EXCEPT ![Len(attempts)].logged = TRUE]
     \/ Fault /\ UNCHANGED attempts
  /\ UNCHANGED <<running, alerting, settings, engine, bounds>>

\* A restart the agent calls a success is one: the state and the alert go.
HealerClear ==
  /\ healer = "clear" /\ healer' = "resolve"
  /\ \/ Fine /\ state' = IF state = "firing" THEN "ok" ELSE state
     \/ Fault /\ UNCHANGED state
  /\ UNCHANGED <<running, firing, incidents, attempts, settings, engine, bounds>>

HealerResolve ==
  /\ healer = "resolve" /\ healer' = "done"
  /\ \/ Fine /\ firing' = 0
     \/ Fault /\ UNCHANGED firing
  /\ UNCHANGED <<running, state, incidents, attempts, settings, engine, bounds>>

-----------------------------------------------------------------------------
\* The service, the operators, the process and the clock.
Crash ==
  /\ running /\ running' = FALSE
  /\ UNCHANGED <<alerting, attempts, settings, engine, healer, faults, bounds>>

StartByHand ==
  /\ ~running /\ running' = TRUE
  /\ UNCHANGED <<alerting, attempts, settings, engine, healer, faults, bounds>>

\* acknowledge() and resolve() of one alert.
HandleAlert ==
  /\ firing > 0 /\ firing' \in Fewer(firing)
  /\ Hand
  /\ UNCHANGED <<running, state, incidents, attempts, settings, engine, healer, faults, restarts>>

\* Resolving the incident of an alert resolves the alerts of its title.
ResolveIncident ==
  /\ \E i \in incidents :
       /\ incidents' = incidents \ {i}
       /\ firing' = IF i = "down" THEN 0 ELSE firing
  /\ Hand
  /\ UNCHANGED <<running, state, attempts, settings, engine, healer, faults, restarts>>

SwitchHealer ==
  /\ enabled' = ~enabled
  /\ Hand
  /\ UNCHANGED <<running, alerting, attempts, unheard, engine, healer, faults, restarts>>

\* Both tasks begin anew; what they had not written is lost.
PanelRestart ==
  /\ MayUpset /\ restarts' = restarts + 1
  /\ engine' = "todo" /\ healer' = "todo"
  /\ UNCHANGED <<running, alerting, attempts, settings, faults, hands>>

\* Both tasks tick alike and end a pass within its period.  The rows too old to
\* count, the first ones, are forgotten.
Aged == [i \in DOMAIN attempts |-> [attempts[i] EXCEPT !.age = @ + Period]]

Tick ==
  /\ engine = "done" /\ healer = "done"
  /\ engine' = "todo" /\ healer' = "todo"
  /\ \E first \in 1 .. Len(attempts) + 1 :
       /\ \A i \in DOMAIN attempts : Aged[i].age <= Window <=> i >= first
       /\ attempts' = SubSeq(Aged, first, Len(attempts))
  /\ UNCHANGED <<running, alerting, settings, faults, bounds>>

Engine ==
  \/ EngineLook \/ EngineQuiet \/ EngineDown \/ EngineStamp \/ EngineFire
  \/ EngineUp \/ EngineClear \/ EngineResolve

Healer ==
  \/ HealerStart \/ HealerRecover \/ HealerSelect \/ HealerBudget \/ HealerGap
  \/ HealerGiveUp \/ HealerExhaust \/ HealerPost \/ HealerLog \/ HealerClear \/ HealerResolve

Operator == StartByHand \/ HandleAlert \/ ResolveIncident \/ SwitchHealer

Next == Engine \/ Healer \/ Operator \/ Crash \/ PanelRestart \/ Tick

Spec == Init /\ [][Next]_vars

\* Both tasks run, time passes, and the agent is not out of reach for ever, of
\* either task.
EngineSees == EngineLook /\ engine' # "done"
HealerSees == HealerSelect /\ healer' # "done"

Fairness ==
  /\ WF_vars(Engine) /\ WF_vars(Healer) /\ WF_vars(Tick)
  /\ SF_vars(EngineSees) /\ SF_vars(HealerSees)

FairSpec == Spec /\ Fairness
-----------------------------------------------------------------------------
\* Properties.

TypeOK ==
  /\ {running, enabled, unheard} \subseteq BOOLEAN
  /\ state \in States /\ firing \in 0 .. 2 /\ incidents \subseteq {"down", "gaveUp"}
  /\ attempts \in Seq([age : 0 .. Window, logged : BOOLEAN])
  /\ engine \in {"todo", "down", "state", "up", "stamp", "fire", "clear", "resolve", "done"}
  /\ healer \in {"todo", "recover", "select", "budget", "gap", "giveUp", "exhaust", "post",
                 "logOk", "logFailed", "clear", "resolve", "done"}
  /\ {faults, hands, restarts} \subseteq 0 .. MaxUpsets /\ faults + hands + restarts <= MaxUpsets

\* In any window the healer restarts a service no more often than its budget,
\* save once more for each statement that failed and each restart of the panel:
\* the rows it counts are its own, whatever the engine, the operators and the
\* service do in between.
HealBudget ==
  Cardinality({i \in DOMAIN attempts : attempts[i].age < Window}) <= Attempts + faults + restarts

\* And two of its restarts are a cooldown apart.
HealGap ==
  faults + restarts = 0 =>
    \A i \in 1 .. Len(attempts) - 1 : attempts[i].age - attempts[i + 1].age >= Cooldown

\* A service that is down comes up, or is told of (an alert fires or an incident is
\* open), or the healer tries it again; or an operator or a restart of the panel
\* has been at it; or the type of the alert was switched off when the engine would
\* have told of it, which its stamp then keeps from being told later, too.
Declined == state = "firing" /\ unheard
Handled ==
  running \/ firing > 0 \/ incidents # {} \/ healer = "post" \/ hands + restarts > 0 \/ Declined

\* The comment on fire_alert_with_retry: a stamp written after a failed fire
\* "silences the condition permanently".  No failure of a statement does.
DownIsHandled == ~running ~> Handled

\* What remains of it: as long as every statement succeeds and the type of the alert
\* is not switched off when it is to be fired, no order of the steps of the engine,
\* the healer and the service leaves the service down unseen.
DownIsSeen == ~running ~> (Handled \/ faults > 0)
=============================================================================
