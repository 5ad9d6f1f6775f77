SPECIFICATION Spec
CHECK_DEADLOCK FALSE
CONSTANTS
  w1 = w1
  w2 = w2
  Workers <- TwoWorkers
  PrefetchFactor = 1
  Batches = 2
  ConvertMayRaise = FALSE
  MayInterrupt = FALSE
  JoinMayExpire = FALSE
INVARIANTS
  LostOnlyWhenLost
