SPECIFICATION Spec
CONSTANTS
  p1 = p1
  p2 = p2
  Threads <- MCThreads2
  Priorities <- MCPriorities
  Preallocated = 1
  StorageNodes = 2
  MaxPushes = 4
  NoThread = NoThread
  ClearRaces = FALSE
SYMMETRY ThreadSymmetry
INVARIANTS TypeOK NodesConserved ListsInOrder LifetimesExact Blocking
PROPERTY ImplementsOrderedQueue
