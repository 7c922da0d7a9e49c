SPECIFICATION FairSpec
CONSTANTS
  slow = slow
  fast = fast
  Stop = Stop
  Commands = {Stop, slow, fast}
  Gains = Gains
  WatchdogDelay = 1
  MaxTorn = 2
INVARIANTS
  TypeOK
  InStep
  GainsBeforeSpeed
PROPERTY
  LastCommandArrives
CHECK_DEADLOCK FALSE
