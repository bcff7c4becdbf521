SPECIFICATION Spec
CONSTANTS
  t1 = t1
  t2 = t2
  NULL = NULL
  Threads <- OneThread
  Does <- AllCalls
  Keys <- TwoKeys
  LoadFactor = 1
  MaxSegment = 2
  MaxNodes = 10
INVARIANTS
  Ordered
  SizeRight
PROPERTIES
  SetSpec
CHECK_DEADLOCK FALSE
