SPECIFICATION FairSpec
CONSTANTS
  w1 = w1
  Waypoints = {w1}
  NoWaypoint = NoWaypoint
  MaxBehaviors = 2
  MaxReplanningTries = 1
  RecoveryEnabled = TRUE
  Events <- FileEvents
INVARIANT
  RecoveryIteratorValid
PROPERTY
  EveryWaypointFinishes
CHECK_DEADLOCK FALSE
