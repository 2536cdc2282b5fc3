CONSTANTS
  MAXSIZE = 5
  Ids = {1, 2, 3}
  Names = {a}
  Pointer = TRUE
SPECIFICATION Spec
CHECK_DEADLOCK FALSE
INVARIANT TopIsLeast
