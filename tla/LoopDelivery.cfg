CONSTANTS
  p1 = p1  p2 = p2  p3 = p3  k1 = k1  k2 = k2
  Posts <- MCPosts
  Inner <- MCInner
  IsTask <- MCTask
  Wakers <- MCWakers
  WakeFlags <- MCWakeFlags
  RunFlags <- MCRunFlags
  Buffers = 1
  MaxOutside = 3
  MaxCalls = 2
  MaxDepth = 4
SPECIFICATION FairSpec
INVARIANTS TypeOK NoLostPostUnlessLapsed RunCanBeWoken
PROPERTIES WakeupStopsRun PostedIsRun ImplementsMailbox
CHECK_DEADLOCK FALSE
