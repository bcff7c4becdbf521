SPECIFICATION Spec
CONSTANTS
  Names = {"initialState", "cbirSimilar"}
  MaxLength = 9
  Links <- MCLinks
INVARIANTS
  MissingBraceMended
CHECK_DEADLOCK FALSE
