SPECIFICATION LiveSpec
CONSTANTS
  MaxId = 5
  MaxLaunches = 3
  ChunkSize = 5
  Kind <- Mix
  Size <- MixedSizes
  Parts <- MixedParts
INVARIANTS
  TypeOK
  AtMostOnce
  Ascending
  Accounted
PROPERTIES
  ForgetsOnlyWhenFresh
  ServiceSpec
  AbortsOnlyOnFailure
  EventuallySettled
CHECK_DEADLOCK FALSE
