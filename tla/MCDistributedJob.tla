-------------------------- MODULE MCDistributedJob --------------------------
(* The job of two workers, in the order run_distributed_training starts    *)
(* its roles.                                                              *)
EXTENDS DistributedJob

MCOrder == <<"monitor", "parameter-server", "worker-0", "worker-1">>
MCWorkers == {"worker-0", "worker-1"}
=============================================================================
