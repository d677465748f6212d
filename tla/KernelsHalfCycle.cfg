SPECIFICATION Spec
CONSTANTS
  Iters = 2
  MaxLat = 3
  Pipes <- MCPipes
INVARIANT HalfCycle
CHECK_DEADLOCK FALSE
