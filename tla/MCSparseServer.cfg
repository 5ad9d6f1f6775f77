SPECIFICATION ShardSpec
CONSTANTS
  s1 = s1
  k1 = k1
  k2 = k2
  p1 = p1
  p2 = p2
  p3 = p3
  Shards <- MCShards
  Workers = {1, 2}
  Clocks = {0, 1}
  Pushes <- MCPushes
  Keys <- TwoKeys
  Payloads <- TwoLengths
  InitialMode = "sync"
  BarrierMayExpire = TRUE
SYMMETRY PushSymmetry
INVARIANTS
  ShardTypeOK
  AppliedAtMostOnce
  AcknowledgedIsApplied
  NobodySleepsThrough
