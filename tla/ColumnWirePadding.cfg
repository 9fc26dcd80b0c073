SPECIFICATION WireSpec
CONSTANTS
  MaxColumns = 3
  MaxRows = 2
  MaxLen = 2
  Squeeze <- MCSqueeze
INVARIANTS StringsSurvive
CHECK_DEADLOCK FALSE
