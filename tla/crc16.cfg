CONSTANTS
  Bytes = {0, 1, 10, 127, 128, 170, 204, 255}
  MaxLen = 3
SPECIFICATION Spec
INVARIANTS
  IsCrc
CHECK_DEADLOCK FALSE
