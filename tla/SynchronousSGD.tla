--------------------------- MODULE SynchronousSGD ----------------------------
(***************************************************************************)
(* What data-parallel training promises (docs/parameter_server.md): the    *)
(* job behaves like one sequential optimizer.  Update i averages one       *)
(* gradient of every worker, each computed from the parameters that the    *)
(* first i - 1 updates produced; a job that cannot go on stops as a whole. *)
(***************************************************************************)
EXTENDS Naturals, Sequences

CONSTANTS
  Workers,  \* who contributes to every update
  Steps     \* the number of global batches of the job

VARIABLES
  model,    \* the updates applied so far
  stopped   \* the job has failed as a whole

sgdVars == <<model, stopped>>

(* The global batch's gradient at version v. *)
GlobalGradient(v) ==
  {[worker |-> w, step |-> v, base |-> v] : w \in Workers}

Init == model = <<>> /\ stopped = FALSE

Update ==
  /\ ~stopped
  /\ Len(model) < Steps
  /\ model' = Append(model, GlobalGradient(Len(model)))
  /\ UNCHANGED stopped

Stop ==
  /\ ~stopped
  /\ stopped' = TRUE
  /\ UNCHANGED model

Next == Update \/ Stop

Spec == Init /\ [][Next]_sgdVars
=============================================================================
