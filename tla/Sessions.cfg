CONSTANTS
  Session = {s1, s2}
  Request = {r1, r2}
  Life = 2
  Long = 0
  MaxClock = 3
  MaxEpoch = 2
  MaxFaults = 1
  MaxLives = 3
SPECIFICATION Spec
INVARIANTS TypeOK EndsHold ChangesHold RevocationHolds
CHECK_DEADLOCK FALSE
SYMMETRY Symmetry
