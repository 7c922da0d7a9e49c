SPECIFICATION Spec
CONSTANTS
  Period = 2
  Tolerance = 0
  MaxGap = 2
  MaxTime = 6
PROPERTY
  CloseFixIsUsed
CHECK_DEADLOCK FALSE
