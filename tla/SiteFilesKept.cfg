SPECIFICATION Spec
CONSTANTS
  r1 = r1
  r2 = r2
  r3 = r3
  Requests = {r1, r2, r3}
  Sites <- TwoSites
  Kinds <- AllKinds
  HangUps <- AllKinds
SYMMETRY Symmetry
INVARIANTS TypeOK LockedWritesStay
PROPERTIES LocksUsed
CHECK_DEADLOCK FALSE
