------------------------- MODULE MCSparseExperiment --------------------------
(* The instance of MCShardedTraining, run by its parent process. *)
EXTENDS MCShardedTraining, SparseExperiment
=============================================================================
