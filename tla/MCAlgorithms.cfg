SPECIFICATION Spec
CONSTANTS
  MaxBits = 2
  MaxIndex = 63
  MaxSegment = 6
  MaxChanges = 2
  MaxText = 5
  Characters <- SomeCharacters
  Correct <- Samples
  OtherValues <- AnyValues
  SignBit = 8
  Limit = 2
INVARIANTS
  BitTricks
  PlaceOfItsOwn
  ParentIsNearest
  KeyInItsBucket
  AcceptedIsRead
  
  PhotoToLookUp
  EchoArrives
CHECK_DEADLOCK FALSE
