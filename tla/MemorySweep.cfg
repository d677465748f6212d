SPECIFICATION Spec
CONSTANTS
  Rows <- MCRows
  Samples = 2
INVARIANTS TypeOK OneRingAtATime EveryRowPrinted WholeLaps BaselineFits
CHECK_DEADLOCK FALSE
