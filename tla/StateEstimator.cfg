SPECIFICATION FairSpec
CONSTANTS
  Period = 2
  Tolerance = 0
  MaxGap = 2
  MaxTime = 6
INVARIANTS
  TypeOK
  NeverStuckInKey
  FactorHoldsItsPeriod
  NoEmptyFactor
  PoseSinceItsState
PROPERTY
  KeepsUp
CHECK_DEADLOCK FALSE
