SPECIFICATION TrainingSpec
CHECK_DEADLOCK FALSE
CONSTANTS
  k1 = k1
  Shards <- MCShards
  Workers = {1, 2}
  Clocks = {0, 1, 2, 3}
  Pushes <- MCPushes
  Keys <- OneKey
  Payloads <- EntryOrHeartbeat
  InitialMode = "async"
  BarrierMayExpire = FALSE
  Algorithms = {"lr"}
  Epochs = 2
  Batches = 1
  SwitchAt = 1
  Touches <- MCTouches
  MayCrash = {}
  MayResend = FALSE
INVARIANTS
  NobodyWaitsForThePast
