CONSTANTS
  l1 = l1
  l2 = l2
  w1 = w1
  d1 = d1
  d2 = d2
  d3 = d3
  Loopers <- MCLoopers
  Workers <- MCWorkers
  PoolOf <- MCPoolOf
  Delegates <- MCDelegates
  LooperOf <- MCLooperOf
  MaxCalls = 3
  MaxDepth = 2
SPECIFICATION FairSpec
INVARIANTS TypeOK TablesAgree FinalizedExact
PROPERTIES InvalidateFinalizes CleanupEnds CrossedForGood
CHECK_DEADLOCK FALSE
