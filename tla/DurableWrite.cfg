CONSTANTS
  Byte = {0, 1}
  MaxLen = 5
  Files <- SmallFiles
SPECIFICATION WSpec
CHECK_DEADLOCK FALSE
INVARIANT WInv
PROPERTY Publishes
