SPECIFICATION Spec
CONSTANTS
  t1 = t1
  t2 = t2
  NULL = NULL
  Threads <- TwoThreads
  Does <- OneRemoves
  Keys <- LastKey
  LoadFactor = 0
  MaxSegment = 2
  MaxNodes = 9
INVARIANTS
  OneDummy
  NothingLost
  HeadServes
  NeverWaits
CHECK_DEADLOCK FALSE
