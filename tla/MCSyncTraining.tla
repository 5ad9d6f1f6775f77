--------------------------- MODULE MCSyncTraining ----------------------------
(* Two workers, neither of them a stranger to the server. *)
EXTENDS SyncTraining

CONSTANTS w1, w2

TwoWorkers == {w1, w2}
=============================================================================
