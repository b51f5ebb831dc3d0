SPECIFICATION Spec
CONSTANTS
  r1 = r1  k1 = k1  k2 = k2  t1 = t1
  Replicas = {r1}
  Keys = {k1, k2}
  Tenants = {t1}
  Owner <- OneOwner
  Asked <- AllAsked
  Capacity = 1
  PosTTL = 1  NegTTL = 1  LookupTimeout = 1
  MaxOps = 2
  MaxTime = 3
SYMMETRY KeySymmetry
INVARIANTS AnswersRecent EvictedUnlessCrossed
CHECK_DEADLOCK FALSE
