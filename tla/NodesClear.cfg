SPECIFICATION Spec
CONSTANTS
  p1 = p1
  p2 = p2
  Threads <- MCThreads2
  Priorities <- MCPriorities
  Preallocated = 1
  StorageNodes = 2
  MaxPushes = 2
  NoThread = NoThread
  ClearRaces = TRUE
SYMMETRY ThreadSymmetry
INVARIANT Blocking
