SPECIFICATION ScheduleFairSpec
CONSTANTS
  MaxOrders = 3
  MaxStrands = 1
INVARIANTS ScheduleTypeOK AtMostOnce
PROPERTIES OrderTaken
CHECK_DEADLOCK FALSE
