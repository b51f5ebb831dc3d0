SPECIFICATION Spec
CONSTANTS
  a = a  b = b  r1 = r1  r2 = r2
  Requests <- TwoRequests
  Targets <- MCTargets
  Plans <- MCPlans
  Threshold = 2
  Cooldown = 1
  MaxAttempts = 2
  RetryAfters = {0, 2}
  MaxTime = 2
SYMMETRY RequestSymmetry
INVARIANTS FailuresTripBreaker OpenWindowBounded EveryRequestIsTried FailoverIsExhausted
PROPERTIES OnlySuccessCloses
CHECK_DEADLOCK FALSE
