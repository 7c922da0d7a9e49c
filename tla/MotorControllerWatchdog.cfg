SPECIFICATION Spec
CONSTANTS
  slow = slow
  fast = fast
  Stop = Stop
  Commands = {Stop, slow, fast}
  Gains = Gains
  WatchdogDelay = 2
  MaxTorn = 0
PROPERTY
  StopsWithoutCommand
CHECK_DEADLOCK FALSE
