SPECIFICATION Spec
CONSTANTS
  c1 = c1
  r1 = r1
  r2 = r2
  o1 = o1
  o2 = o2
  Threads <- TwoThreads
  Pushers <- Writer
  Poppers <- TwoThreads
  Readers <- Nobody
  Objects <- TwoObjects
  NULL = NULL
  Sentinel = Sentinel
  Limit = 1
  MaxSlot = 3
INVARIANTS
  RetiredOnce
CHECK_DEADLOCK FALSE
