SPECIFICATION FairSpec
CONSTANTS
  HwSize = 4
  WordSize = 8
  Regs = {1, 2}
  MaxPeriod = 2
  MaxEvents = 5
  MaxUpdates = 3
INVARIANTS TypeOK ReadLinearizable RetriesHaveCause AtMostOneDrop
PROPERTIES Implements ReadTerminates
