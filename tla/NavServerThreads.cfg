SPECIFICATION Spec
CONSTANTS
  w1 = w1
  w2 = w2
  Waypoints = {w1, w2}
  NoWaypoint = NoWaypoint
  MaxBehaviors = 1
  MaxReplanningTries = 1
  RecoveryEnabled = TRUE
  Events <- ThreadEvents
SYMMETRY WaypointSymmetry
VIEW ControlState
INVARIANTS
  TypeOK
  ReplanningKeepsGoing
  ReplanningTriesBounded
  WaitsForSomething
CHECK_DEADLOCK FALSE
