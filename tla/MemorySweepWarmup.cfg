SPECIFICATION Spec
CONSTANTS
  Rows <- MCRows
  Samples = 2
INVARIANT WarmupWalksRing
CHECK_DEADLOCK FALSE
