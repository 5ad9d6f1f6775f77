------------------------- MODULE MCShardedTraining ---------------------------
(* Two shards; worker 2 has no entry for shard 1. *)
EXTENDS ShardedTraining

CONSTANT k1

OneKey == {k1}
MCShards == 1 .. 2
MCPushes == Workers \X (0 .. Epochs - 1) \X (0 .. Batches - 1)
EntryOrHeartbeat == [OneKey -> {0, 1}]

MCTouches == [w \in Workers |-> IF w = 2 THEN {2} ELSE MCShards]
=============================================================================
