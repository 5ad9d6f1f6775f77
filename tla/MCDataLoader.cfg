SPECIFICATION Spec
CHECK_DEADLOCK FALSE
CONSTANTS
  w1 = w1
  w2 = w2
  Workers <- TwoWorkers
  PrefetchFactor = 1
  Batches = 4
  ConvertMayRaise = TRUE
  MayInterrupt = TRUE
  JoinMayExpire = TRUE
INVARIANTS
  TypeOK
  NothingLost
  PrefetchBounded
PROPERTIES
  InOrder
  CallsReturn
  ThreadsEnd
