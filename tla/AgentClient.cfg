CONSTANTS
  Quick = {q1, q2}
  Stream = {s1}
  QuickPool = 1
  LongPool = 1
  Threshold = 2
  MaxOutages = 1
  MaxPanics = 1
SPECIFICATION ClientFairSpec
INVARIANTS ClientTypeOK BusyIsNotDown TokenFollows
PROPERTIES BreakerLetsThrough TaskComesBack
