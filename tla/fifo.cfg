SPECIFICATION Spec
CONSTANTS
  Byte = {1, 2}
  Sizes = {0, 2, 3}
  MaxLen = 3
  Width = 3
PROPERTIES IsQueue
CHECK_DEADLOCK FALSE
