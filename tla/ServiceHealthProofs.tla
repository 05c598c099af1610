------------------------ MODULE ServiceHealthProofs ------------------------
(***************************************************************************)
(* The budget and the cooldown of the auto-healer, for any periods, any    *)
(* budget and any number of upsets.  A restart the healer has no row of is *)
(* paid for by the statement that failed or the panel that died after it,  *)
(* and while the healer works no time passes, so what it has counted still *)
(* stands when it restarts the service.                                    *)
(***************************************************************************)
EXTENDS ServiceHealth, FiniteSetTheorems, TLAPS

Attempt == [age : 0 .. Window, logged : BOOLEAN]
Recent == {i \in DOMAIN attempts : attempts[i].age < Window}
Unlogged == DOMAIN attempts \ Logged
Logging == healer \in {"logOk", "logFailed"}
Upsets == faults + restarts

\* TypeOK in three parts, for the provers.
FlagsOK ==
  /\ running \in BOOLEAN /\ enabled \in BOOLEAN /\ unheard \in BOOLEAN
  /\ state \in States /\ firing \in 0 .. 2 /\ incidents \subseteq {"down", "gaveUp"}
  /\ engine \in {"todo", "down", "state", "up", "stamp", "fire", "clear", "resolve", "done"}
  /\ healer \in {"todo", "recover", "select", "budget", "gap", "giveUp", "exhaust", "post",
                 "logOk", "logFailed", "clear", "resolve", "done"}

UpsetsOK ==
  /\ faults \in 0 .. MaxUpsets /\ hands \in 0 .. MaxUpsets /\ restarts \in 0 .. MaxUpsets
  /\ faults + hands + restarts <= MaxUpsets

AttemptsOK == attempts \in Seq(Attempt)

\* The oldest attempt is the first, and the one that is being logged the last.
Sorted ==
  /\ \A i, j \in DOMAIN attempts : i < j => attempts[i].age >= attempts[j].age
  /\ Logging => attempts # <<>> /\ ~attempts[Len(attempts)].logged

\* Every attempt without a row has its upset, but the one that is being logged.
Accounted == Cardinality(Unlogged) <= Upsets + (IF Logging THEN 1 ELSE 0)

\* What the healer has counted before it restarts the service.
Room == healer \in {"gap", "post"} => Cardinality(Recent) + 1 <= Attempts + Upsets
Apart == healer = "post" /\ Upsets = 0 => \A i \in DOMAIN attempts : attempts[i].age >= Cooldown

Budgeted == AttemptsOK /\ Sorted /\ Accounted /\ Room /\ Apart /\ HealBudget /\ HealGap

IInv == FlagsOK /\ UpsetsOK /\ Budgeted

-----------------------------------------------------------------------------
\* The attempts are finitely many.
LEMMA Sizes ==
  ASSUME AttemptsOK
  PROVE  /\ IsFiniteSet(DOMAIN attempts)
         /\ \A S \in SUBSET DOMAIN attempts : IsFiniteSet(S) /\ Cardinality(S) \in Nat
<1>1. DOMAIN attempts = 1 .. Len(attempts) /\ Len(attempts) \in Nat
  BY DEF AttemptsOK
<1>2. IsFiniteSet(DOMAIN attempts)
  BY <1>1, FS_Interval
<1> QED
  BY <1>2, FS_Subset, FS_CardinalityType

LEMMA Initially == Init => IInv
<1> SUFFICES ASSUME Init
             PROVE  IInv
  OBVIOUS
<1>1. attempts = <<>> /\ healer = "todo" /\ Recent = {} /\ Unlogged = {}
  BY DEF Init, Recent, Unlogged
<1>2. Cardinality(Recent) = 0 /\ Cardinality(Unlogged) = 0 /\ Upsets = 0
  BY <1>1, FS_EmptySet DEF Init, Upsets
<1>3. AttemptsOK
  BY <1>1 DEF AttemptsOK
<1>4. Sorted /\ Accounted /\ Room /\ Apart
  BY <1>1, <1>2 DEF Sorted, Accounted, Room, Apart, Logging
<1>5. HealBudget /\ HealGap
  <2>1. HealGap
    BY <1>1 DEF HealGap
  <2>2. Cardinality(Recent) <= Attempts + faults + restarts
    BY <1>2, HealthAssumption DEF Upsets, Init
  <2> QED
    BY <2>1, <2>2 DEF HealBudget, Recent
<1>6. FlagsOK
  <2>1. running \in BOOLEAN /\ enabled \in BOOLEAN /\ unheard \in BOOLEAN
    BY Zenon DEF Init
  <2>2. /\ state = "none" /\ firing = 0 /\ incidents = {}
        /\ engine = "todo" /\ healer = "todo"
    BY DEF Init
  <2> QED
    BY <2>1, <2>2 DEF FlagsOK, States
<1>7. UpsetsOK
  BY HealthAssumption DEF Init, UpsetsOK
<1> QED
  BY <1>3, <1>4, <1>5, <1>6, <1>7 DEF IInv, Budgeted

-----------------------------------------------------------------------------
\* The flags and the counters.
LEMMA FlagsKeep ==
  ASSUME FlagsOK, Next
  PROVE  FlagsOK'
<1> USE DEF FlagsOK, States, alerting, settings
<1>1. CASE EngineLook
  BY <1>1 DEF EngineLook
<1>2. CASE EngineQuiet
  BY <1>2 DEF EngineQuiet
<1>3. CASE EngineDown
  BY <1>3 DEF EngineDown
<1>4. CASE EngineStamp
  BY <1>4 DEF EngineStamp
<1>5. CASE EngineFire
  <2>1. firing' \in 0 .. 2
    BY <1>5 DEF EngineFire, More
  <2>2. incidents' \subseteq {"down", "gaveUp"}
    BY <1>5 DEF EngineFire
  <2> QED
    BY <1>5, <2>1, <2>2 DEF EngineFire
<1>6. CASE EngineUp
  BY <1>6 DEF EngineUp
<1>7. CASE EngineClear
  BY <1>7 DEF EngineClear
<1>8. CASE EngineResolve
  BY <1>8 DEF EngineResolve
<1>9. CASE HealerStart
  BY <1>9 DEF HealerStart
<1>10. CASE HealerRecover
  BY <1>10 DEF HealerRecover
<1>11. CASE HealerSelect
  BY <1>11 DEF HealerSelect
<1>12. CASE HealerBudget
  BY <1>12 DEF HealerBudget
<1>13. CASE HealerGap
  BY <1>13 DEF HealerGap
<1>14. CASE HealerGiveUp
  BY <1>14 DEF HealerGiveUp
<1>15. CASE HealerExhaust
  BY <1>15 DEF HealerExhaust
<1>16. CASE HealerPost
  BY <1>16 DEF HealerPost
<1>17. CASE HealerLog
  BY <1>17 DEF HealerLog
<1>18. CASE HealerClear
  BY <1>18 DEF HealerClear
<1>19. CASE HealerResolve
  BY <1>19 DEF HealerResolve
<1>20. CASE StartByHand
  BY <1>20 DEF StartByHand
<1>21. CASE HandleAlert
  BY <1>21 DEF HandleAlert, Fewer
<1>22. CASE ResolveIncident
  BY <1>22 DEF ResolveIncident
<1>23. CASE SwitchHealer
  BY <1>23 DEF SwitchHealer
<1>24. CASE Crash
  BY <1>24 DEF Crash
<1>25. CASE PanelRestart
  BY <1>25 DEF PanelRestart
<1>26. CASE Tick
  BY <1>26 DEF Tick
<1> QED
  BY <1>1, <1>2, <1>3, <1>4, <1>5, <1>6, <1>7, <1>8, <1>9, <1>10, <1>11, <1>12,
     <1>13, <1>14, <1>15, <1>16, <1>17, <1>18, <1>19, <1>20, <1>21, <1>22, <1>23,
     <1>24, <1>25, <1>26
     DEF Next, Engine, Healer, Operator

\* A statement succeeds or fails, an operator acts, or the panel restarts.
Counting ==
  \/ UNCHANGED <<faults, hands, restarts>>
  \/ Fault /\ UNCHANGED <<hands, restarts>>
  \/ Hand /\ UNCHANGED <<faults, restarts>>
  \/ MayUpset /\ restarts' = restarts + 1 /\ UNCHANGED <<faults, hands>>

LEMMA StepCounts ==
  ASSUME Next
  PROVE  Counting
<1> USE DEF Counting, bounds, Fine
<1>1. CASE Engine
  BY <1>1 DEF Engine, EngineLook, EngineQuiet, EngineDown, EngineStamp, EngineFire,
              EngineUp, EngineClear, EngineResolve
<1>2. CASE Healer
  BY <1>2 DEF Healer, HealerStart, HealerRecover, HealerSelect, HealerBudget, HealerGap,
              HealerGiveUp, HealerExhaust, HealerPost, HealerLog, HealerClear, HealerResolve
<1>3. CASE Operator
  BY <1>3 DEF Operator, StartByHand, HandleAlert, ResolveIncident, SwitchHealer
<1>4. CASE Crash \/ PanelRestart \/ Tick
  BY <1>4 DEF Crash, PanelRestart, Tick
<1> QED
  BY <1>1, <1>2, <1>3, <1>4 DEF Next

LEMMA UpsetsKeep ==
  ASSUME UpsetsOK, Counting
  PROVE  UpsetsOK' /\ Upsets \in Nat /\ Upsets' \in Nat /\ Upsets' >= Upsets
  BY HealthAssumption DEF Counting, UpsetsOK, Upsets, Fault, Hand, MayUpset

\* The budget, with the upsets as one number.
LEMMA BudgetIs ==
  ASSUME UpsetsOK
  PROVE  HealBudget <=> Cardinality(Recent) <= Attempts + Upsets
  BY HealthAssumption DEF HealBudget, Recent, UpsetsOK, Upsets

LEMMA BudgetWillBe ==
  ASSUME UpsetsOK, Counting
  PROVE  HealBudget' <=> Cardinality(Recent') <= Attempts + Upsets'
<1>1. Attempts + Upsets' = Attempts + faults' + restarts'
  BY HealthAssumption DEF UpsetsOK, Upsets, Counting, Fault, Hand
<1> QED
  BY <1>1 DEF HealBudget, Recent

-----------------------------------------------------------------------------
\* A step that leaves the attempts alone, and does not count them.
Calm ==
  /\ attempts' = attempts
  /\ \/ healer' = healer
     \/ /\ healer' \notin {"gap", "post", "logOk", "logFailed"}
        /\ Logging => Upsets' > Upsets

LEMMA CalmSteps ==
  ASSUME UpsetsOK, Next
  PROVE  Calm \/ HealerBudget \/ HealerGap \/ HealerPost \/ HealerLog \/ Tick
<1>1. CASE Engine
  BY <1>1 DEF Calm, Engine, EngineLook, EngineQuiet, EngineDown, EngineStamp, EngineFire,
              EngineUp, EngineClear, EngineResolve
<1>2. CASE Operator \/ Crash
  BY <1>2 DEF Calm, Operator, StartByHand, HandleAlert, ResolveIncident, SwitchHealer, Crash
<1>3. CASE PanelRestart
  BY <1>3 DEF Calm, PanelRestart, Upsets, UpsetsOK
<1>4. CASE \/ HealerStart \/ HealerRecover \/ HealerSelect \/ HealerGiveUp
           \/ HealerExhaust \/ HealerClear \/ HealerResolve
  BY <1>4 DEF Calm, Logging, HealerStart, HealerRecover, HealerSelect, HealerGiveUp,
              HealerExhaust, HealerClear, HealerResolve
<1> QED
  BY <1>1, <1>2, <1>3, <1>4 DEF Next, Healer

LEMMA CalmKeeps ==
  ASSUME Budgeted, UpsetsOK, Counting, Calm
  PROVE  Budgeted'
<1> USE DEF Budgeted
<1>1. /\ attempts' = attempts /\ Recent' = Recent /\ Unlogged' = Unlogged
  BY DEF Calm, Recent, Unlogged, Logged
<1>2. /\ Cardinality(Recent) \in Nat /\ Cardinality(Unlogged) \in Nat
      /\ Upsets \in Nat /\ Upsets' \in Nat /\ Upsets' >= Upsets
  <2>1. Recent \subseteq DOMAIN attempts /\ Unlogged \subseteq DOMAIN attempts
    BY DEF Recent, Unlogged
  <2>2. Upsets \in Nat /\ Upsets' \in Nat /\ Upsets' >= Upsets
    BY UpsetsKeep
  <2> QED
    BY <2>1, <2>2, Sizes
<1>3. AttemptsOK' /\ Sorted'
  BY <1>1 DEF Calm, AttemptsOK, Sorted, Logging
<1>4. Accounted'
  BY <1>1, <1>2 DEF Calm, Accounted, Logging
<1>5. Room' /\ Apart'
  BY <1>1, <1>2, HealthAssumption DEF Calm, Room, Apart
<1>6. HealBudget'
  <2>1. Cardinality(Recent) <= Attempts + Upsets
    BY BudgetIs
  <2>2. Cardinality(Recent') <= Attempts + Upsets'
    BY <1>1, <1>2, <2>1, UpsetsKeep, HealthAssumption
  <2> QED
    BY <2>2, BudgetWillBe
<1>7. HealGap'
  <2>1. Upsets' = 0 => Upsets = 0
    BY <1>2
  <2> QED
    BY <1>1, <2>1 DEF HealGap, Upsets
<1> QED
  BY <1>3, <1>4, <1>5, <1>6, <1>7

-----------------------------------------------------------------------------
\* The healer counts, with no time passing: the rows at least, and what has none
\* has its upset.
LEMMA CountedIs ==
  ASSUME Budgeted, UpsetsOK, ~Logging, NEW limit \in Nat, NEW n \in Counted(limit)
  PROVE  /\ n \in Nat
         /\ Cardinality({i \in DOMAIN attempts : attempts[i].age < limit}) <= n + Upsets
         /\ n = 0 /\ Upsets = 0 => \A i \in DOMAIN attempts : attempts[i].age >= limit
<1> USE DEF Budgeted
<1> DEFINE Below == {i \in Logged : attempts[i].age < limit}
           Within == {i \in Logged : attempts[i].age <= limit}
           Any == {i \in DOMAIN attempts : attempts[i].age < limit}
<1>0. /\ \A i \in DOMAIN attempts : attempts[i] \in Attempt
      /\ Logged \subseteq DOMAIN attempts
  BY DEF AttemptsOK, Logged
<1>1. \A i \in DOMAIN attempts : attempts[i].age \in Nat
  BY <1>0, HealthAssumption DEF Attempt
<1>2. /\ Below \subseteq Within /\ Below \subseteq DOMAIN attempts
      /\ Within \subseteq DOMAIN attempts /\ Any \subseteq DOMAIN attempts
      /\ Unlogged \subseteq DOMAIN attempts /\ Any \subseteq Below \cup Unlogged
  BY <1>0, <1>1 DEF Unlogged
<1>3. /\ IsFiniteSet(Below) /\ IsFiniteSet(Within) /\ IsFiniteSet(Any) /\ IsFiniteSet(Unlogged)
      /\ Cardinality(Below) \in Nat /\ Cardinality(Within) \in Nat
      /\ Cardinality(Any) \in Nat /\ Cardinality(Unlogged) \in Nat
  <2> HIDE DEF Below, Within, Any
  <2> QED
    BY <1>2, Sizes
<1>4. Cardinality(Below) <= Cardinality(Within)
  <2> HIDE DEF Below, Within
  <2> QED
    BY <1>2, <1>3, FS_Subset
<1>5. n \in Nat /\ Cardinality(Below) <= n
  <2>1. n \in {Cardinality(Below), Cardinality(Within)}
    BY DEF Counted
  <2> QED
    BY <1>3, <1>4, <2>1
<1>6. Cardinality(Any) <= Cardinality(Below) + Cardinality(Unlogged)
  <2> HIDE DEF Below, Any
  <2>1. /\ IsFiniteSet(Below \cup Unlogged)
        /\ Cardinality(Below \cup Unlogged) =
             Cardinality(Below) + Cardinality(Unlogged) - Cardinality(Below \cap Unlogged)
    BY <1>3, FS_Union
  <2>2. Cardinality(Below \cap Unlogged) \in Nat
    <3>1. Below \cap Unlogged \subseteq DOMAIN attempts
      BY <1>2
    <3> QED
      BY <3>1, Sizes
  <2>3. Cardinality(Any) <= Cardinality(Below \cup Unlogged)
    BY <1>2, <2>1, FS_Subset
  <2>4. Cardinality(Below \cup Unlogged) \in Nat
    BY <2>1, FS_CardinalityType
  <2> QED
    BY <1>3, <2>1, <2>2, <2>3, <2>4
<1>7. Cardinality(Unlogged) <= Upsets /\ Upsets \in Nat
  BY <1>3 DEF Accounted, Upsets, UpsetsOK
<1>8. Cardinality(Any) <= n + Upsets
  <2> HIDE DEF Any, Below
  <2> QED
    BY <1>3, <1>5, <1>6, <1>7
<1>9. ASSUME n = 0, Upsets = 0
      PROVE  \A i \in DOMAIN attempts : attempts[i].age >= limit
  <2>1. Cardinality(Any) = 0
    <3> HIDE DEF Any
    <3> QED
      BY <1>3, <1>8, <1>9
  <2>2. Any = {}
    <3> HIDE DEF Any
    <3> QED
      BY <1>3, <2>1, FS_EmptySet
  <2> QED
    BY <1>1, <2>2
<1> QED
  BY <1>5, <1>8, <1>9

LEMMA BudgetKeeps ==
  ASSUME Budgeted, UpsetsOK, Counting, HealerBudget
  PROVE  Budgeted'
<1> USE DEF Budgeted
<1>1. CASE healer' \notin {"gap", "post", "logOk", "logFailed"}
  BY <1>1, CalmKeeps DEF Calm, HealerBudget, Logging
<1>2. CASE healer' = "gap"
  <2>1. /\ attempts' = attempts /\ Recent' = Recent /\ Unlogged' = Unlogged
        /\ healer = "budget" /\ ~Logging
    BY DEF HealerBudget, Recent, Unlogged, Logged, Logging
  <2>2. /\ Cardinality(Recent) \in Nat /\ Cardinality(Unlogged) \in Nat
        /\ Upsets \in Nat /\ Upsets' \in Nat /\ Upsets' >= Upsets
    <3>1. Recent \subseteq DOMAIN attempts /\ Unlogged \subseteq DOMAIN attempts
      BY DEF Recent, Unlogged
    <3>2. Upsets \in Nat /\ Upsets' \in Nat /\ Upsets' >= Upsets
      BY UpsetsKeep
    <3> QED
      BY <3>1, <3>2, Sizes
  <2>3. Cardinality(Recent) + 1 <= Attempts + Upsets'
    <3>1. CASE Fault
      <4>1. Upsets' = Upsets + 1
        BY <3>1 DEF Fault, HealerBudget, bounds, Upsets, UpsetsOK
      <4>2. Cardinality(Recent) <= Attempts + Upsets
        BY BudgetIs
      <4> QED
        BY <2>2, <4>1, <4>2, HealthAssumption
    <3>2. CASE \E n \in Counted(Window) : healer' = IF n >= Attempts THEN "giveUp" ELSE "gap"
      <4>1. PICK n \in Counted(Window) : ~(n >= Attempts)
        BY <1>2, <3>2
      <4>2. Window \in Nat /\ Attempts \in Nat
        BY HealthAssumption
      <4>3. n \in Nat /\ Cardinality(Recent) <= n + Upsets
        BY <2>1, <4>1, <4>2, CountedIs DEF Recent
      <4> QED
        BY <2>2, <4>1, <4>2, <4>3
    <3> QED
      BY <3>1, <3>2 DEF HealerBudget
  <2>4. AttemptsOK' /\ Sorted'
    BY <1>2, <2>1 DEF AttemptsOK, Sorted, Logging
  <2>5. Accounted'
    BY <1>2, <2>1, <2>2 DEF Accounted, Logging
  <2>6. Room' /\ Apart'
    BY <1>2, <2>1, <2>3 DEF Room, Apart
  <2>7. HealBudget'
    <3>1. Cardinality(Recent') <= Attempts + Upsets'
      BY <2>1, <2>2, <2>3, HealthAssumption
    <3> QED
      BY <3>1, BudgetWillBe
  <2>8. HealGap'
    BY <2>1, HealthAssumption DEF HealGap, Counting, Fault, Hand, UpsetsOK
  <2> QED
    BY <2>4, <2>5, <2>6, <2>7, <2>8
<1> QED
  BY <1>1, <1>2 DEF HealerBudget

LEMMA GapKeeps ==
  ASSUME Budgeted, UpsetsOK, Counting, HealerGap
  PROVE  Budgeted'
<1> USE DEF Budgeted
<1>1. CASE healer' \notin {"gap", "post", "logOk", "logFailed"}
  BY <1>1, CalmKeeps DEF Calm, HealerGap, Logging
<1>2. CASE healer' = "post"
  <2>1. /\ attempts' = attempts /\ Recent' = Recent /\ Unlogged' = Unlogged
        /\ healer = "gap" /\ ~Logging
    BY DEF HealerGap, Recent, Unlogged, Logged, Logging
  <2>2. /\ Cardinality(Recent) \in Nat /\ Cardinality(Unlogged) \in Nat
        /\ Upsets \in Nat /\ Upsets' \in Nat /\ Upsets' >= Upsets
    <3>1. Recent \subseteq DOMAIN attempts /\ Unlogged \subseteq DOMAIN attempts
      BY DEF Recent, Unlogged
    <3>2. Upsets \in Nat /\ Upsets' \in Nat /\ Upsets' >= Upsets
      BY UpsetsKeep
    <3> QED
      BY <3>1, <3>2, Sizes
  <2>3. AttemptsOK' /\ Sorted'
    BY <1>2, <2>1 DEF AttemptsOK, Sorted, Logging
  <2>4. Accounted'
    BY <1>2, <2>1, <2>2 DEF Accounted, Logging
  <2>5. Room'
    BY <2>1, <2>2, HealthAssumption DEF Room
  <2>6. Apart'
    <3>1. CASE Fault
      <4>1. Upsets' = Upsets + 1
        BY <3>1, HealthAssumption DEF Fault, HealerGap, bounds, Upsets, UpsetsOK
      <4> QED
        BY <2>2, <4>1 DEF Apart
    <3>2. CASE \E n \in Counted(Cooldown) : healer' = IF n > 0 THEN "done" ELSE "post"
      <4>1. PICK n \in Counted(Cooldown) : ~(n > 0)
        BY <1>2, <3>2
      <4>2. Cooldown \in Nat
        BY HealthAssumption
      <4>3. n \in Nat /\ (n = 0 /\ Upsets = 0 =>
                            \A i \in DOMAIN attempts : attempts[i].age >= Cooldown)
        BY <2>1, <4>1, <4>2, CountedIs
      <4> QED
        BY <2>1, <2>2, <4>1, <4>3 DEF Apart
    <3> QED
      BY <3>1, <3>2 DEF HealerGap
  <2>7. HealBudget'
    <3>1. Cardinality(Recent') <= Attempts + Upsets'
      BY <2>1, <2>2, HealthAssumption DEF Room
    <3> QED
      BY <3>1, BudgetWillBe
  <2>8. HealGap'
    BY <2>1, HealthAssumption DEF HealGap, Counting, Fault, Hand, UpsetsOK
  <2> QED
    BY <2>3, <2>4, <2>5, <2>6, <2>7, <2>8
<1> QED
  BY <1>1, <1>2 DEF HealerGap

\* The restart: one attempt more, without a row yet.
LEMMA PostKeeps ==
  ASSUME Budgeted, UpsetsOK, Counting, HealerPost
  PROVE  Budgeted'
<1> USE DEF Budgeted
<1> DEFINE new == [age |-> 0, logged |-> FALSE]
           n == Len(attempts)
<1>1. /\ attempts' = Append(attempts, new) /\ healer = "post" /\ Upsets' = Upsets
      /\ healer' \in {"logOk", "logFailed"} /\ Logging' /\ ~Logging
      /\ faults' = faults /\ restarts' = restarts
  BY DEF HealerPost, Logging, Upsets, bounds
<1>2. new \in Attempt /\ attempts \in Seq(Attempt) /\ n \in Nat
  BY HealthAssumption DEF Attempt, AttemptsOK
<1>3. /\ DOMAIN attempts = 1 .. n /\ DOMAIN attempts' = 1 .. (n + 1) /\ Len(attempts') = n + 1
      /\ \A i \in 1 .. n : attempts'[i] = attempts[i]
      /\ attempts'[n + 1] = new
  BY <1>1, <1>2
<1>4. \A i \in 1 .. n : attempts[i].age \in Nat
  <2>1. \A i \in 1 .. n : attempts[i] \in Attempt
    BY <1>2
  <2> QED
    BY <2>1, HealthAssumption DEF Attempt
<1>5. Recent' = Recent \cup {n + 1} /\ n + 1 \notin Recent
  <2>1. new.age < Window
    BY HealthAssumption
  <2>2. \A i \in DOMAIN attempts' : i \in 1 .. n \/ i = n + 1
    BY <1>2, <1>3
  <2> QED
    BY <1>2, <1>3, <2>1, <2>2 DEF Recent
<1>6. Unlogged' = Unlogged \cup {n + 1} /\ n + 1 \notin Unlogged
  <2>1. \A i \in DOMAIN attempts' : i \in 1 .. n \/ i = n + 1
    BY <1>2, <1>3
  <2> QED
    BY <1>2, <1>3, <2>1 DEF Unlogged, Logged
<1>7. /\ IsFiniteSet(Recent) /\ IsFiniteSet(Unlogged)
      /\ Cardinality(Recent) \in Nat /\ Cardinality(Unlogged) \in Nat /\ Upsets \in Nat
  <2>1. Recent \subseteq DOMAIN attempts /\ Unlogged \subseteq DOMAIN attempts
    BY DEF Recent, Unlogged
  <2>2. Upsets \in Nat
    BY UpsetsKeep
  <2> QED
    BY <2>1, <2>2, Sizes
<1>8. /\ Cardinality(Recent') = Cardinality(Recent) + 1
      /\ Cardinality(Unlogged') = Cardinality(Unlogged) + 1
  BY <1>5, <1>6, <1>7, FS_AddElement
<1>9. AttemptsOK'
  BY <1>1, <1>2 DEF AttemptsOK
<1>10. Sorted'
  <2>1. \A i, j \in DOMAIN attempts' : i < j => attempts'[i].age >= attempts'[j].age
    <3> SUFFICES ASSUME NEW i \in 1 .. (n + 1), NEW j \in 1 .. (n + 1), i < j
                 PROVE  attempts'[i].age >= attempts'[j].age
      BY <1>3
    <3>1. i \in 1 .. n
      BY <1>2
    <3>2. CASE j = n + 1
      BY <1>3, <1>4, <3>1, <3>2
    <3>3. CASE j \in 1 .. n
      BY <1>3, <3>1, <3>3 DEF Sorted
    <3> QED
      BY <1>2, <3>2, <3>3
  <2>2. attempts' # <<>> /\ ~attempts'[Len(attempts')].logged
    BY <1>2, <1>3
  <2> QED
    BY <2>1, <2>2 DEF Sorted
<1>11. Accounted'
  BY <1>1, <1>7, <1>8 DEF Accounted
<1>12. Room' /\ Apart'
  BY <1>1 DEF Room, Apart
<1>13. HealBudget'
  <2>1. Cardinality(Recent') <= Attempts + Upsets'
    BY <1>1, <1>7, <1>8, HealthAssumption DEF Room
  <2> QED
    BY <2>1, BudgetWillBe
<1>14. HealGap'
  <2> SUFFICES ASSUME faults + restarts = 0, NEW i \in 1 .. n
               PROVE  attempts'[i].age - attempts'[i + 1].age >= Cooldown
    BY <1>1, <1>2, <1>3 DEF HealGap
  <2>1. CASE i = n
    <3>1. attempts[i].age >= Cooldown
      BY <1>1, <1>3 DEF Apart, Upsets
    <3> QED
      BY <1>3, <1>4, <2>1, <3>1, HealthAssumption
  <2>2. CASE i \in 1 .. n - 1
    BY <1>2, <1>3, <2>2 DEF HealGap
  <2> QED
    BY <1>2, <2>1, <2>2
<1> QED
  BY <1>9, <1>10, <1>11, <1>12, <1>13, <1>14

\* The row of the restart is written, or its statement fails.
LEMMA LogKeeps ==
  ASSUME Budgeted, UpsetsOK, Counting, HealerLog
  PROVE  Budgeted'
<1> USE DEF Budgeted
<1> DEFINE n == Len(attempts)
<1>1. Logging /\ healer' \in {"clear", "done"} /\ ~Logging'
  BY DEF HealerLog, Logging
<1>2. CASE Fault /\ UNCHANGED attempts
  <2>1. Upsets' > Upsets
    BY <1>2, HealthAssumption DEF Fault, HealerLog, bounds, Upsets, UpsetsOK
  <2> QED
    BY <1>1, <1>2, <2>1, CalmKeeps DEF Calm
<1>3. CASE attempts' = [attempts EXCEPT ![n].logged = TRUE]
  <2>1. /\ attempts \in Seq(Attempt) /\ n \in Nat /\ n \in DOMAIN attempts
        /\ DOMAIN attempts = 1 .. n /\ ~attempts[n].logged
    BY <1>1 DEF AttemptsOK, Sorted
  <2>2. attempts[n] \in Attempt
    BY <2>1
  <2>3. [attempts[n] EXCEPT !.logged = TRUE] \in Attempt
    BY <2>2 DEF Attempt
  <2>4. attempts' = [attempts EXCEPT ![n] = [attempts[n] EXCEPT !.logged = TRUE]]
    BY <1>3
  <2>5. /\ attempts' \in Seq(Attempt) /\ DOMAIN attempts' = DOMAIN attempts
        /\ Len(attempts') = n
        /\ \A i \in DOMAIN attempts : i # n => attempts'[i] = attempts[i]
        /\ attempts'[n] = [attempts[n] EXCEPT !.logged = TRUE]
    BY <2>1, <2>3, <2>4
  <2>6. attempts'[n].age = attempts[n].age /\ attempts'[n].logged = TRUE
    BY <2>2, <2>5 DEF Attempt
  <2>7. \A i \in DOMAIN attempts : attempts'[i].age = attempts[i].age
    BY <2>5, <2>6
  <2>8. Recent' = Recent /\ Unlogged' = Unlogged \ {n} /\ n \in Unlogged
    BY <2>1, <2>5, <2>6, <2>7 DEF Recent, Unlogged, Logged
  <2>9. /\ IsFiniteSet(Unlogged) /\ Cardinality(Unlogged) \in Nat
        /\ Cardinality(Recent) \in Nat
        /\ Upsets \in Nat /\ Upsets' \in Nat /\ Upsets' >= Upsets
    <3>1. Recent \subseteq DOMAIN attempts /\ Unlogged \subseteq DOMAIN attempts
      BY DEF Recent, Unlogged
    <3>2. Upsets \in Nat /\ Upsets' \in Nat /\ Upsets' >= Upsets
      BY UpsetsKeep
    <3> QED
      BY <3>1, <3>2, Sizes
  <2>10. AttemptsOK' /\ Sorted'
    BY <1>1, <2>5, <2>7 DEF AttemptsOK, Sorted
  <2>11. Accounted'
    <3>1. Cardinality(Unlogged') = Cardinality(Unlogged) - 1
      BY <2>8, <2>9, FS_RemoveElement
    <3> QED
      BY <1>1, <2>9, <3>1 DEF Accounted
  <2>12. Room' /\ Apart'
    BY <1>1 DEF Room, Apart, HealerLog
  <2>13. HealBudget'
    <3>1. Cardinality(Recent) <= Attempts + Upsets
      BY BudgetIs
    <3>2. Cardinality(Recent') <= Attempts + Upsets'
      BY <2>8, <2>9, <3>1, HealthAssumption
    <3> QED
      BY <3>2, BudgetWillBe
  <2>14. HealGap'
    <3> SUFFICES ASSUME faults' + restarts' = 0, NEW i \in 1 .. n - 1
                 PROVE  attempts'[i].age - attempts'[i + 1].age >= Cooldown
      BY <2>5 DEF HealGap
    <3>1. faults + restarts = 0
      BY HealthAssumption DEF Counting, Fault, Hand, UpsetsOK
    <3>2. i \in DOMAIN attempts /\ i + 1 \in DOMAIN attempts
      BY <2>1
    <3> QED
      BY <2>7, <3>1, <3>2 DEF HealGap
  <2> QED
    BY <2>10, <2>11, <2>12, <2>13, <2>14
<1> QED
  BY <1>2, <1>3 DEF HealerLog

LEMMA AttemptRecord ==
  ASSUME NEW S, NEW a \in S, NEW b \in BOOLEAN
  PROVE  [age |-> a, logged |-> b] \in [age : S, logged : BOOLEAN]
  BY Zenon

\* Time passes: what is left of the attempts are the last ones, all as much older.
LEMMA TickKeeps ==
  ASSUME Budgeted, UpsetsOK, Counting, Tick
  PROVE  Budgeted'
<1> USE DEF Budgeted
<1> DEFINE n == Len(attempts)
<1>1. PICK first \in 1 .. n + 1 :
        /\ \A i \in DOMAIN attempts : Aged[i].age <= Window <=> i >= first
        /\ attempts' = SubSeq(Aged, first, n)
  BY DEF Tick
<1>2. /\ attempts \in Seq(Attempt) /\ n \in Nat /\ DOMAIN attempts = 1 .. n
      /\ first \in Nat /\ 1 <= first /\ first <= n + 1
  BY DEF AttemptsOK
<1>3. ~Logging /\ healer' = "todo" /\ ~Logging'
  BY DEF Tick, Logging
<1>4. \A i \in 1 .. n : attempts[i] \in Attempt
  BY <1>2
<1>5. \A i \in 1 .. n :
        /\ Aged[i] = [age |-> attempts[i].age + Period, logged |-> attempts[i].logged]
        /\ attempts[i].age \in Nat /\ attempts[i].age <= Window
        /\ attempts[i].logged \in BOOLEAN
  BY <1>2, <1>4, HealthAssumption DEF Aged, Attempt
<1>6. Period \in Nat /\ Window \in Nat
  BY HealthAssumption
<1> DEFINE Row == [age : Nat, logged : BOOLEAN]
<1>7. Aged \in Seq(Row) /\ Len(Aged) = n
  <2>1. Aged \in [1 .. n -> Row]
    <3>1. ASSUME NEW i \in 1 .. n
          PROVE  attempts[i].age + Period \in Nat
      <4>1. attempts[i].age \in Nat
        BY <1>5, Zenon
      <4> QED
        BY <1>6, <4>1
    <3>2. \A i \in 1 .. n : [age |-> attempts[i].age + Period,
                           logged |-> attempts[i].logged] \in Row
      BY <1>5, <3>1, AttemptRecord, Zenon
    <3>3. \A i \in 1 .. n : Aged[i] \in Row
      BY <1>5, <3>2, Zenon
    <3>4. Aged = [i \in 1 .. n |-> Aged[i]]
      BY <1>2 DEF Aged
    <3> HIDE DEF Row
    <3> QED
      BY <3>3, <3>4
  <2> HIDE DEF Row
  <2>2. DOMAIN Aged = 1 .. n
    BY <1>2 DEF Aged
  <2> QED
    BY <1>2, <2>1, <2>2
<1>8. /\ Len(attempts') = n + 1 - first /\ DOMAIN attempts' = 1 .. (n + 1 - first)
      /\ \A i \in 1 .. (n + 1 - first) : attempts'[i] = Aged[i + first - 1]
  <2> HIDE DEF Row
  <2> QED
    BY <1>1, <1>2, <1>7
<1>9. \A i \in 1 .. (n + 1 - first) : i + first - 1 \in 1 .. n /\ i + first - 1 >= first
  BY <1>2
<1>10. \A i \in 1 .. (n + 1 - first) :
         /\ attempts'[i] = [age |-> attempts[i + first - 1].age + Period,
                            logged |-> attempts[i + first - 1].logged]
         /\ attempts'[i].age = attempts[i + first - 1].age + Period
         /\ attempts'[i].logged = attempts[i + first - 1].logged
         /\ attempts'[i].age <= Window
  BY <1>1, <1>2, <1>5, <1>8, <1>9
<1>11. AttemptsOK'
  <2>1. \A i \in 1 .. (n + 1 - first) : attempts'[i] \in Attempt
    <3> SUFFICES ASSUME NEW i \in 1 .. (n + 1 - first)
                 PROVE  attempts'[i] \in Attempt
      OBVIOUS
    <3> DEFINE k == i + first - 1
    <3>1. k \in 1 .. n
      BY <1>9
    <3>2. attempts'[i] = [age |-> attempts[k].age + Period, logged |-> attempts[k].logged]
      BY <1>10
    <3>3. attempts[k].age + Period <= Window
      BY <1>10
    <3>4. attempts[k].age \in Nat /\ attempts[k].logged \in BOOLEAN
      BY <1>5, <3>1
    <3> HIDE DEF k
    <3>5. attempts[k].age + Period \in 0 .. Window
      BY <1>6, <3>3, <3>4
    <3> QED
      <4>1. [age |-> attempts[k].age + Period, logged |-> attempts[k].logged] \in Attempt
        BY <3>4, <3>5, AttemptRecord, Zenon DEF Attempt
      <4> QED
        BY <3>2, <4>1, Zenon
  <2>2. attempts' = [i \in 1 .. (n + 1 - first) |-> attempts'[i]]
    <3> HIDE DEF Row
    <3>1. attempts' \in Seq(Row)
      BY <1>1, <1>2, <1>7
    <3> QED
      BY <1>8, <3>1
  <2>3. n + 1 - first \in Nat
    BY <1>2
  <2>4. attempts' \in [1 .. (n + 1 - first) -> Attempt]
    BY <2>1, <2>2
  <2> QED
    BY <2>3, <2>4 DEF AttemptsOK
<1>12. Sorted'
  <2> SUFFICES ASSUME NEW i \in 1 .. (n + 1 - first), NEW j \in 1 .. (n + 1 - first), i < j
               PROVE  attempts'[i].age >= attempts'[j].age
    BY <1>3, <1>8 DEF Sorted
  <2>1. attempts[i + first - 1].age >= attempts[j + first - 1].age
    <3>1. i + first - 1 < j + first - 1
      BY <1>2
    <3> QED
      BY <1>2, <1>9, <3>1 DEF Sorted
  <2>2. attempts[i + first - 1].age \in Nat /\ attempts[j + first - 1].age \in Nat
    BY <1>5, <1>9
  <2>3. /\ attempts'[i].age = attempts[i + first - 1].age + Period
        /\ attempts'[j].age = attempts[j + first - 1].age + Period
    BY <1>10
  <2>4. attempts[i + first - 1].age + Period >= attempts[j + first - 1].age + Period
    BY <1>6, <2>1, <2>2
  <2> QED
    BY <2>3, <2>4
\* What is recent, or has no row, was so before.
<1>13. ASSUME NEW S \in SUBSET DOMAIN attempts, NEW T \in SUBSET DOMAIN attempts',
              \A i \in T : i + first - 1 \in S
       PROVE  Cardinality(T) <= Cardinality(S)
  <2> DEFINE f == [i \in T |-> i + first - 1]
  <2>1. f \in Injection(T, S)
    <3>1. \A i, j \in T : f[i] = f[j] => i = j
      BY <1>2, <1>8
    <3>2. f \in [T -> S]
      BY <1>13
    <3> HIDE DEF f
    <3> QED
      BY <3>1, <3>2, Zenon DEF Injection, IsInjective
  <2>2. IsFiniteSet(S)
    BY Sizes
  <2> QED
    BY <2>1, <2>2, FS_Injection
<1>14. Cardinality(Recent') <= Cardinality(Recent)
  <2>1. \A i \in Recent' : i + first - 1 \in Recent
    <3> SUFFICES ASSUME NEW i \in Recent'
                 PROVE  i + first - 1 \in Recent
      OBVIOUS
    <3> DEFINE k == i + first - 1
    <3>1. i \in 1 .. (n + 1 - first) /\ attempts'[i].age < Window
      BY <1>8 DEF Recent
    <3>2. k \in 1 .. n /\ attempts'[i].age = attempts[k].age + Period
      BY <1>9, <1>10, <3>1
    <3>3. attempts[k].age \in Nat /\ attempts[k].age + Period < Window
      BY <1>5, <3>1, <3>2
    <3> HIDE DEF k
    <3>4. attempts[k].age < Window
      BY <1>6, <3>3
    <3>5. k \in Recent
      BY <1>2, <3>2, <3>4 DEF Recent
    <3> QED
      BY <3>5 DEF k
  <2>2. Recent \subseteq DOMAIN attempts /\ Recent' \subseteq DOMAIN attempts'
    BY DEF Recent
  <2> QED
    BY <1>13, <2>1, <2>2
<1>15. Cardinality(Unlogged') <= Cardinality(Unlogged)
  <2>1. \A i \in Unlogged' : i + first - 1 \in Unlogged
    BY <1>2, <1>8, <1>9, <1>10 DEF Unlogged, Logged
  <2>2. Unlogged \subseteq DOMAIN attempts /\ Unlogged' \subseteq DOMAIN attempts'
    BY DEF Unlogged
  <2> QED
    BY <1>13, <2>1, <2>2
<1>16. /\ Cardinality(Recent) \in Nat /\ Cardinality(Unlogged) \in Nat
       /\ Cardinality(Recent') \in Nat /\ Cardinality(Unlogged') \in Nat
       /\ Upsets \in Nat /\ Upsets' = Upsets
  <2>1. Recent \subseteq DOMAIN attempts /\ Unlogged \subseteq DOMAIN attempts
    BY DEF Recent, Unlogged
  <2>2. Recent' \subseteq DOMAIN attempts' /\ Unlogged' \subseteq DOMAIN attempts'
    BY DEF Recent, Unlogged
  <2>3. IsFiniteSet(DOMAIN attempts')
    <3>1. 1 \in Int /\ n + 1 - first \in Int
      BY <1>2
    <3>2. IsFiniteSet(1 .. (n + 1 - first))
      BY <3>1, FS_Interval
    <3> QED
      BY <1>8, <3>2
  <2>4. Upsets' = Upsets
    BY DEF Tick, bounds, Upsets
  <2>5. IsFiniteSet(Recent') /\ IsFiniteSet(Unlogged')
    BY <2>2, <2>3, FS_Subset
  <2> QED
    BY <2>1, <2>4, <2>5, Sizes, UpsetsKeep, FS_CardinalityType
<1>17. Accounted'
  BY <1>3, <1>15, <1>16 DEF Accounted
<1>18. Room' /\ Apart'
  BY <1>3 DEF Room, Apart
<1>19. HealBudget'
  <2>1. Cardinality(Recent) <= Attempts + Upsets
    BY BudgetIs
  <2>2. Cardinality(Recent') <= Attempts + Upsets'
    BY <1>14, <1>16, <2>1, HealthAssumption
  <2> QED
    BY <2>2, BudgetWillBe
<1>20. HealGap'
  <2> SUFFICES ASSUME faults + restarts = 0, NEW i \in 1 .. (n + 1 - first) - 1
               PROVE  attempts'[i].age - attempts'[i + 1].age >= Cooldown
    BY <1>8 DEF HealGap, Tick, bounds
  <2>1. /\ i \in 1 .. (n + 1 - first) /\ i + 1 \in 1 .. (n + 1 - first)
        /\ i + first - 1 \in 1 .. n - 1 /\ (i + 1) + first - 1 = (i + first - 1) + 1
    BY <1>2
  <2>2. attempts[i + first - 1].age - attempts[(i + first - 1) + 1].age >= Cooldown
    BY <2>1 DEF HealGap
  <2>3. attempts[i + first - 1].age \in Nat /\ attempts[(i + first - 1) + 1].age \in Nat
    BY <1>5, <1>9, <2>1
  <2>4. /\ attempts'[i].age = attempts[i + first - 1].age + Period
        /\ attempts'[i + 1].age = attempts[(i + first - 1) + 1].age + Period
    BY <1>10, <2>1
  <2>5. (attempts[i + first - 1].age + Period) - (attempts[(i + first - 1) + 1].age + Period)
          = attempts[i + first - 1].age - attempts[(i + first - 1) + 1].age
    BY <1>6, <2>3
  <2>6. attempts'[i].age - attempts'[i + 1].age
          = (attempts[i + first - 1].age + Period) - (attempts[(i + first - 1) + 1].age + Period)
    BY <2>4, Zenon
  <2>7. attempts'[i].age - attempts'[i + 1].age
          = attempts[i + first - 1].age - attempts[(i + first - 1) + 1].age
    BY <2>5, <2>6, Zenon
  <2> QED
    BY <2>2, <2>7, Zenon
<1> QED
  BY <1>11, <1>12, <1>17, <1>18, <1>19, <1>20

-----------------------------------------------------------------------------
LEMMA StepKeeps == IInv /\ [Next]_vars => IInv'
<1> SUFFICES ASSUME IInv, [Next]_vars
             PROVE  IInv'
  OBVIOUS
<1>1. CASE Next
  <2>1. Counting
    BY <1>1, StepCounts
  <2>2. FlagsOK'
    BY <1>1, FlagsKeep DEF IInv
  <2>3. UpsetsOK'
    BY <2>1, UpsetsKeep DEF IInv
  <2>4. Budgeted'
    BY <1>1, <2>1, CalmSteps, CalmKeeps, BudgetKeeps, GapKeeps, PostKeeps, LogKeeps, TickKeeps
       DEF IInv
  <2> QED
    BY <2>2, <2>3, <2>4 DEF IInv
<1>2. CASE UNCHANGED vars
  <2>1. FlagsOK'
    BY <1>2 DEF IInv, FlagsOK, vars, alerting, settings
  <2>2. Counting
    BY <1>2 DEF vars, bounds, Counting
  <2>3. UpsetsOK'
    BY <2>2, UpsetsKeep DEF IInv
  <2>4. Budgeted'
    BY <1>2, <2>2, CalmKeeps DEF IInv, Calm, vars
  <2> QED
    BY <2>1, <2>3, <2>4 DEF IInv
<1> QED
  BY <1>1, <1>2

-----------------------------------------------------------------------------
\* The invariant of the attempts: what has no row has its upset, and what the healer
\* counted still stands when it restarts the service.
THEOREM HealthInvariant == Spec => []IInv
  BY Initially, StepKeeps, PTL DEF Spec

\* The tables and the passes only hold what the code can write.
THEOREM HealthTyped == Spec => []TypeOK
<1>1. IInv => TypeOK
  BY DEF IInv, FlagsOK, UpsetsOK, Budgeted, AttemptsOK, Attempt, TypeOK
<1> QED
  BY HealthInvariant, <1>1, PTL

\* auto_restart_services: in any window no more restarts than the budget, and one
\* for each failed statement and each restart of the panel.
THEOREM BudgetKept == Spec => []HealBudget
<1>1. IInv => HealBudget
  BY DEF IInv, Budgeted
<1> QED
  BY HealthInvariant, <1>1, PTL

\* auto_restart_services: as long as nothing fails, a cooldown between two restarts.
THEOREM GapKept == Spec => []HealGap
<1>1. IInv => HealGap
  BY DEF IInv, Budgeted
<1> QED
  BY HealthInvariant, <1>1, PTL
=============================================================================
