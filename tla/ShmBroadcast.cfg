SPECIFICATION FairSpec
CONSTANTS
  M = 4
  N = 2
  B = 3
  None = None
INVARIANTS
  LockExcludes
  CountedOnce
  InStepLosesNothing
PROPERTY InStepEnds
CHECK_DEADLOCK FALSE
