--------------------------- MODULE MCSparseServer ----------------------------
(* One shard, two workers, and a few push calls in any order. *)
EXTENDS SparseServer, TLC

CONSTANTS s1, k1, k2, p1, p2, p3

MCShards == {s1}
MCPushes == {p1, p2, p3}
TwoKeys == {k1, k2}

(* A heartbeat without entries, both keys, and a longer value for one. *)
TwoLengths == {[k \in TwoKeys |-> 0], [k \in TwoKeys |-> 1],
               (k1 :> 2 @@ k2 :> 0)}

PushSymmetry == Permutations(MCPushes)
=============================================================================
