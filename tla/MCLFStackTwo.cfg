SPECIFICATION LiveSpec
CONSTANTS
  c1 = c1
  r1 = r1
  r2 = r2
  o1 = o1
  o2 = o2
  Threads <- AllThreads
  Pushers <- TwoThreads
  Poppers <- TwoThreads
  Readers <- LastReader
  Objects <- OneObject
  NULL = NULL
  Sentinel = Sentinel
  Limit = 1
  MaxSlot = 3
INVARIANTS
  SlotExclusive
  FreshHazard
  FaultOnlyInGap
  OneScanner
PROPERTIES
  ScanEnds
CHECK_DEADLOCK FALSE
