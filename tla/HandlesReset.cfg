CONSTANTS
  h1 = h1  h2 = h2
  Handles <- MCHandles
  Counts <- MCCounts
  MaxCalls = 2
  MaxDepth = 2
SPECIFICATION Spec
INVARIANT GracefulStopEnds
SYMMETRY HandleSymmetry
CHECK_DEADLOCK FALSE
