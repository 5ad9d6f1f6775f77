SPECIFICATION FairJobSpec
CONSTANTS
  Order <- MCOrder
  Workers <- MCWorkers
  Monitor = "monitor"
  Server = "parameter-server"
  Rank0 = "worker-0"
  Batches = 1
  MayFail = {"parameter-server"}
  MayDie = {"monitor", "worker-1"}
  SlowToEnd = {"worker-0"}
  Interruptible = TRUE
  Apps = {"mnist", "autodrive"}
INVARIANTS
  JobTypeOK
  NobodyLeftBehind
  SummaryIsComplete
PROPERTY
  JobEnds
