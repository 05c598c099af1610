CONSTANTS
  Insecure = TRUE
  MaxCert = 2
  MaxRotations = 2
  MaxFaults = 1
SPECIFICATION Spec
INVARIANTS TypeOK CacheAgrees TokenTaken FirstCallPinned
CHECK_DEADLOCK FALSE
