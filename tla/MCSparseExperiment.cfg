SPECIFICATION ExperimentSpec
CHECK_DEADLOCK FALSE
CONSTANTS
  k1 = k1
  Shards <- MCShards
  Workers = {1, 2}
  Clocks = {0, 1, 2, 3, 4, 5}
  Pushes <- MCPushes
  Keys <- OneKey
  Payloads <- EntryOrHeartbeat
  InitialMode = "sync"
  BarrierMayExpire = TRUE
  Algorithms = {"lr", "lda"}
  Epochs = 3
  Batches = 2
  SwitchAt = 2
  Touches <- MCTouches
  MayCrash = {1}
  MayResend = TRUE
  MayFailToStart = {2}
  MayBeKilled = {1, 2}
INVARIANTS
  ExperimentTypeOK
  BulkSynchronous
  ShardsInStep
  NobodyWaitsForThePast
PROPERTIES
  ExperimentSettles
