SPECIFICATION Spec
CONSTANTS
  w1 = w1
  w2 = w2
  x1 = x1
  Workers <- MCWorkers
  Strangers <- MCStrangers
  HeartbeatTimeout = 1
  OptimizerMayRaise = TRUE
  MaxStep = 2
  Bases = {0, 1}
INVARIANTS
  TypeOK
  UpdatesAreWholeRounds
  PendingIsTheOpenRound
PROPERTIES
  AcceptedGradientsAreKept
  FailureIsFinal
