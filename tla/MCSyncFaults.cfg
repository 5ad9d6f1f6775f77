SPECIFICATION FairJobSpec
CHECK_DEADLOCK FALSE
CONSTANTS
  w1 = w1
  w2 = w2
  Workers <- TwoWorkers
  Strangers = {}
  HeartbeatTimeout = 1
  OptimizerMayRaise = TRUE
  MaxStep = 0
  Bases = {}
  Steps = 2
  MayCrash = {w1, w2}
INVARIANTS
  JobTypeOK
  Lockstep
  OnlyTimeoutsAreReported
PROPERTIES
  JobCompletes
  SequentialTraining
  FailureSpreads
