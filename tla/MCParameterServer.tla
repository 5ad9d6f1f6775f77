-------------------------- MODULE MCParameterServer --------------------------
(* Two configured workers and one stranger. *)
EXTENDS ParameterServer

CONSTANTS w1, w2, x1

MCWorkers == {w1, w2}
MCStrangers == {x1}
=============================================================================
