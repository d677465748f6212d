SPECIFICATION Spec
CONSTANTS
  Iters = 2
  MaxLat = 3
  Pipes <- MCPipes
INVARIANTS TypeOK LatencyShown ThroughputShown UnchainedShowsNothing
CHECK_DEADLOCK FALSE
