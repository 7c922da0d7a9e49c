SPECIFICATION Spec
CONSTANT
  MaxGoals = 3
INVARIANT
  NeverABug
CHECK_DEADLOCK FALSE
