SPECIFICATION Spec
CONSTANTS
  Generations = {1, 2}
  Observations = {3, 4}
  MaxTime = 2
  MaxEvents = 1
  PageLimit = 1
CHECK_DEADLOCK FALSE
INVARIANT
  CollectorLosesNothing
