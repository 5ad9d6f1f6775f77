---------------------------- MODULE BatchStream -----------------------------
(***************************************************************************)
(* What an iterator of kernelleaf's DataLoader promises to its user: the   *)
(* batches of the sampler in order, an error of a batch where that batch   *)
(* would have come, and StopIteration after the last.  It may be broken    *)
(* off at any time, and then nothing follows.                              *)
(***************************************************************************)
EXTENDS Naturals

CONSTANT Batches  \* number of batches, len(ordering)

VARIABLES
  failing,  \* the batches the dataset cannot deliver; never changes
  yielded,  \* how many batches the user got: 0 .. yielded - 1
  status    \* how the iteration stands

(* The user breaks off, a batch cannot be converted, or the workers are gone. *)
Broken == {"interrupted", "closed", "unusable", "lost"}

StreamInit ==
  /\ failing \in SUBSET (0 .. Batches - 1)
  /\ yielded = 0
  /\ status = "open"

(* The next batch. *)
Yield ==
  /\ status = "open"
  /\ yielded < Batches
  /\ yielded \notin failing
  /\ yielded' = yielded + 1
  /\ UNCHANGED <<failing, status>>

(* The iteration ends: after the last batch, in place of a batch that      *)
(* cannot be fetched, or broken off.                                       *)
End ==
  /\ status = "open"
  /\ \/ yielded = Batches /\ status' = "exhausted"
     \/ yielded \in failing /\ status' = "error"
     \/ status' \in Broken
  /\ UNCHANGED <<failing, yielded>>

StreamSpec ==
  StreamInit /\ [][Yield \/ End]_<<failing, yielded, status>>
=============================================================================
