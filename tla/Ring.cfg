SPECIFICATION RingSpec
CONSTANTS
  Counts <- MCCounts
  CallLoads = 4
  Passes = 3
INVARIANTS RingTypeOK VisitsAllOnce SameWork
CHECK_DEADLOCK FALSE
