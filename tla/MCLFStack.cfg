SPECIFICATION Spec
CONSTANTS
  c1 = c1
  r1 = r1
  r2 = r2
  o1 = o1
  o2 = o2
  Threads <- AllThreads
  Pushers <- TwoReaders
  Poppers <- Writer
  Readers <- LastReader
  Objects <- TwoObjects
  NULL = NULL
  Sentinel = Sentinel
  Limit = 1
  MaxSlot = 3
SYMMETRY ObjectSymmetry
INVARIANTS
  NoReadAfterFree
  Linked
  RetiredOnce
  NothingLeaks
CHECK_DEADLOCK FALSE
