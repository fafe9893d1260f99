SPECIFICATION Spec
CONSTANTS
  Sources <- MCSources
  ArraySize = 2
  MaxNodes = 13
  MaxArrays = 6
INVARIANTS FreedOnce
CHECK_DEADLOCK FALSE
