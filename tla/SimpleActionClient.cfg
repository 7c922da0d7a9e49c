SPECIFICATION FairSpec
CONSTANT
  MaxGoals = 3
INVARIANTS
  TypeOK
  DoneMeansDone
  NoBug
  WaitReturnsOutcome
PROPERTIES
  WaitEnds
  OneReport
CHECK_DEADLOCK FALSE
