SPECIFICATION Spec
CONSTANTS
  c1 = c1
  r1 = r1
  r2 = r2
  o1 = o1
  o2 = o2
  Threads <- AllThreads
  Pushers <- TwoReaders
  Poppers <- Writer
  Readers <- TwoReaders
  Objects <- OneObject
  NULL = NULL
  Sentinel = Sentinel
  Limit = 1
  MaxSlot = 3
SYMMETRY ReaderSymmetry
INVARIANTS
  EveryReaderSeen
CHECK_DEADLOCK FALSE
