SPECIFICATION Spec
CONSTANTS
  c1 = c1  c2 = c2  f1 = f1  f2 = f2
  Calls <- TwoCalls
  Fingerprints = {f1, f2}
  ReqCap = 2  ReqRate = 2
  TokCap = 4  TokRate = 4  BucketTTL = 2
  TokEsts = {2}
  RunEst = 3  CostEsts = {0, 2}  Limit = 3
  Usages <- ModestUsages
  MaxSteps = 2  MaxTokens = 5  MaxCost = 2  LoopRepeats = 2  LoopWindow = 2  RunTTL = 2
  Policies <- ThreePolicies
  MonthTicks = 2  MaxTime = 2  MaxFaults = 1
SYMMETRY CallSymmetry
INVARIANTS LedgerBalances SpentWithinLimit TokensPaced RunCountsAll LoopsStopped
CHECK_DEADLOCK FALSE
