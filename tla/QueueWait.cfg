CONSTANTS
  w1 = w1  w2 = w2  c1 = c1  t1 = t1  t2 = t2  f1 = f1
  Workers <- MCWorkers1
  Clients <- MCClients
  Tasks <- MCTasks2
  Group <- MCNoCallbacks
  Callbacks <- MCNoCallbacks
  Calls <- WaitCalls
  Priority <- MCPriority
  NoTask = NoTask
  NoThread = NoThread
  Racing = FALSE
SPECIFICATION QueueFairSpec
PROPERTIES WaitForAllReturns WakeupCompletes
CHECK_DEADLOCK FALSE
