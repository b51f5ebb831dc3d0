SPECIFICATION HedgedSpec
CONSTANTS
  a = a  b = b  c = c  r1 = r1
  Requests = {r1}
  Targets <- ThreeTargets
  Plans <- HedgedPlans
  Threshold = 1
  Cooldown = 1
  MaxAttempts = 2
  RetryAfters = {0}
  MaxTime = 2
  HedgeWindow = 2  ShareNum = 1  ShareDen = 2
  Streaming = {TRUE, FALSE}
  MaxHedgeRequests = 3
INVARIANTS HedgesWithinShare LosersReleased FailoverAfterRace
PROPERTIES RacesEnd
CHECK_DEADLOCK FALSE
