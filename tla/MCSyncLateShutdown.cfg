SPECIFICATION JobSpec
CHECK_DEADLOCK FALSE
CONSTANTS
  w1 = w1
  w2 = w2
  Workers <- TwoWorkers
  Strangers = {}
  HeartbeatTimeout = 1
  OptimizerMayRaise = FALSE
  MaxStep = 0
  Bases = {}
  Steps = 1
  MayCrash = {}
PROPERTIES
  OnlyParticipantsTimeOut
