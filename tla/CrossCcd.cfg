SPECIFICATION FairSpec
CONSTANTS
  CPUs <- MCCPUs
  Ccd <- MCCcd
  OnlineSets <- MCOnlineSets
  Scenarios <- MCScenarios
  Lines = 2
  Warmups = 2
  Samples = 2
INVARIANTS TypeOK NoOverlap NothingLeaks UnmarkedRowIsSetUp
PROPERTIES AllRowsPrinted
CHECK_DEADLOCK FALSE
