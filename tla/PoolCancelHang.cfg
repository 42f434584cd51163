CONSTANTS
  w1 = w1  w2 = w2  c1 = c1  c2 = c2  t1 = t1  t2 = t2  t3 = t3
  Workers <- MCWorkers2
  Clients <- MCClients1
  Tasks <- MCTasks2
  Priority <- MCPriority
  NoTask = NoTask
  NoThread = NoThread
  Racing = FALSE
SPECIFICATION FairSpec
PROPERTY CancelReturns
