SPECIFICATION FairSpec
CONSTANTS
  MaxVersion = 2
  MaxSnapshots = 2
  MaxScripts = 2
  MaxFaults = 1
INVARIANTS TypeOK RollbackHolds ReportTrue
PROPERTIES GuardHolds PanelComesBack
CHECK_DEADLOCK FALSE
