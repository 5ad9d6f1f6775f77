--------------------------- MODULE MCDataLoader -----------------------------
(* Two workers with room for one batch each. *)
EXTENDS DataLoader

CONSTANTS w1, w2

TwoWorkers == {w1, w2}
=============================================================================
