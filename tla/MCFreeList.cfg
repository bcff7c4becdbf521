SPECIFICATION Spec
CONSTANTS
  p1 = p1
  p2 = p2
  c1 = c1
  n1 = n1
  n2 = n2
  n3 = n3
  Threads <- ThreeThreads
  Poppers <- Scanner
  Nodes <- ThreeNodes
  Sentinel = Sentinel
  NULL = NULL
SYMMETRY Symmetry
INVARIANTS
  TypeOK
  Linked
  NoReadAfterFree
  Balanced
