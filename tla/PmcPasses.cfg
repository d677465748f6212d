SPECIFICATION Spec
CONSTANTS
  Passes <- MCPasses
  NumRegs = 6
  Others <- MCOthers
  Work <- MCWork
  Loop = 2
  ReadCost <- MCReadCost
  Noise = 7
  HwSize = 48
  WordSize = 96
  Samples = 3
  MaxDisturb = 1
INVARIANTS TypeOK OwnedFds AllCounting MedianIsWork
CHECK_DEADLOCK FALSE
