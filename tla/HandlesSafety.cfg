CONSTANTS
  h1 = h1  h2 = h2
  Handles <- MCHandles
  Counts <- MCCounts
  MaxCalls = 6
  MaxDepth = 2
SPECIFICATION Spec
INVARIANTS TypeOK ArmedIffOk SuspendedExact GracefulStopEndsUnlessLapsed ReleasedOnce
PROPERTY PausedStaysPaused
SYMMETRY HandleSymmetry
CHECK_DEADLOCK FALSE
