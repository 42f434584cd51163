CONSTANTS
  w1 = w1  w2 = w2  c1 = c1  t1 = t1  t2 = t2  f1 = f1
  Workers <- MCWorkers2
  Clients <- MCClients
  Tasks <- MCTasks2
  Group <- MCTasks2
  Callbacks <- MCCallbacks
  Calls <- AllCalls
  Priority <- MCPriority
  NoTask = NoTask
  NoThread = NoThread
  Racing = FALSE
SPECIFICATION QueueSpec
INVARIANTS QueueTypeOK CompletedOnce DestroyedClean
PROPERTIES WaitForAllBarrier ImplementsLedger
SYMMETRY QueueSymmetry
CHECK_DEADLOCK FALSE
