SPECIFICATION Spec
CONSTANTS
  None = None
  MaxId = 2
  IdleGap = 0
  MaxAge = 1
CHECK_DEADLOCK FALSE
PROPERTIES
  CooksAreKept
