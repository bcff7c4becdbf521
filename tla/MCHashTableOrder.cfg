SPECIFICATION Spec
CONSTANTS
  t1 = t1
  t2 = t2
  NULL = NULL
  Threads <- TwoThreads
  Does <- Inserts
  Keys <- TwoKeys
  LoadFactor = 0
  MaxSegment = 2
  MaxNodes = 9
SYMMETRY Symmetry
INVARIANTS
  Ordered
CHECK_DEADLOCK FALSE
