SPECIFICATION Spec
CONSTANTS
  r1 = r1  r2 = r2  p = p
  Replicas = {r1, r2}
  Names = {p}
  Family <- OneFamily
  Asked <- OneAsked
  TTLs = {1}  MaxTTL = 1
  StaleGrace = 1
  LoadTimeout = 1
  MaxOps = 2
  MaxTime = 4
INVARIANTS PurgedStaysPurged ServedRecently
CHECK_DEADLOCK FALSE
