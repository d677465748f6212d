SPECIFICATION FairSpec
CONSTANTS
  CPUs <- MCCPUs
  Ccd <- MCCcd
  OnlineSets <- MCOneCcd
  Scenarios <- MCScenarios
  Lines = 2
  Warmups = 2
  Samples = 2
INVARIANT MeasuredWhereNamed
CHECK_DEADLOCK FALSE
