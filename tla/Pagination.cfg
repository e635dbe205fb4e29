SPECIFICATION Spec
CONSTANTS
  Ids <- MCIds
  Limit = 2
  MaxNow = 4
  UniqueStamps = TRUE
INVARIANT NoneSkipped
INVARIANT NoneRepeated
PROPERTY CursorDescends
