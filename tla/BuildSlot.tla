------------------------------ MODULE BuildSlot ------------------------------
(***************************************************************************)
(* What the build lock of one git deployment promises, with the clock, the *)
(* database row and the pipeline taken away: the slot is given to a build  *)
(* only while no other build has it.  A build leaves the slot when it      *)
(* ends, when the panel dies, or when somebody gives its lock away.        *)
(***************************************************************************)
CONSTANT Task         \* the requests that may build this deployment

VARIABLE builders     \* the builds that have the slot

SlotInit == builders = {}

Start(t) == builders = {} /\ builders' = {t}

Leave(t) == t \in builders /\ builders' = builders \ {t}

SlotNext == \E t \in Task : Start(t) \/ Leave(t)

SlotSpec == SlotInit /\ [][SlotNext]_builders
=============================================================================
