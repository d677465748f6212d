SPECIFICATION FairSpec
CONSTANTS
  Cpus <- MCCpus
  MaskBits = 4
  Requests <- MCRequests
  HwSize = 64
  WordSize = 256
  FirstModes <- MCFirstModes
  FirstCounts <- MCFirstCounts
  Loop <- MCLoop
  Work <- MCWork
  Spin = 2
  Noise = 1
  EmptyWarmups = 1
  BenchWarmups = 1
  Samples = 3
  MaxDisturb = 1
  MaxReprogram = 1
INVARIANTS TypeOK AnswersOwnRead PinnedIsRequested DetectedCounterCounts MedianIsWork
PROPERTY ProbeEnds
CHECK_DEADLOCK FALSE
