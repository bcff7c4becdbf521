SPECIFICATION LiveSpec
CONSTANTS
  Pages <- SomePages
  Relative <- Icons
  Limit = 3
  MaxSearches = 2
INVARIANTS
  TypeOK
  EachOnce
  ReconnectsFirst
PROPERTIES
  SearchEnds
CHECK_DEADLOCK FALSE
