--------------------------- MODULE MCTrainingStep ---------------------------
(* Two parameters (leaves 1 and 2), a batch (3) and a constant (4).         *)
EXTENDS TrainingStep

Apply(op, inputs) == [op |-> op, inputs |-> inputs]

(* A layer and a bias; a residual block around an activation, so that an    *)
(* inner node has two consumers; two heads on a trunk without parameters,   *)
(* a sum whose operands share one gradient; a parameter used twice; and a   *)
(* branch that leaves the second parameter out.                            *)
MCNetworks ==
  {<<Apply("mul", <<1, 3>>), Apply("add", <<5, 2>>)>>,
   <<Apply("mul", <<3, 1>>), Apply("relu", <<5>>), Apply("add", <<6, 5>>), Apply("mul", <<7, 2>>)>>,
   <<Apply("mul", <<4, 4>>), Apply("add", <<1, 2>>), Apply("mul", <<6, 5>>)>>,
   <<Apply("add", <<1, 1>>), Apply("mul", <<5, 2>>), Apply("add", <<6, 5>>)>>,
   <<Apply("mul", <<1, 3>>), Apply("mul", <<5, 4>>)>>}

(* All networks of three operations on a parameter, a batch and a constant: *)
(* the reverse pass yields the chain rule's paths for each of them.         *)
SmallLeaves == <<Leaf(TRUE), Leaf(TRUE), Leaf(FALSE)>>
InputsFrom(n) == [1 .. 1 -> 1 .. n] \cup [1 .. 2 -> 1 .. n]

ASSUME ReversePassIsTheChainRule ==
  \A i \in InputsFrom(3), j \in InputsFrom(4), k \in InputsFrom(5) :
    LET network == <<Apply("mul", i), Apply("mul", j), Apply("mul", k)>>
        found == Backward(Record(SmallLeaves, network))
        wanted == ChainRule(SmallLeaves, network)
    IN  \A leaf \in {1, 2} :
          IF found[leaf] = Nothing THEN wanted[leaf] = {} ELSE found[leaf].paths = wanted[leaf]

(* The feature map takes the batch's place; one head belongs to parameter 2. *)
MCHeads == <<Apply("mul", <<3, 2>>), Apply("sum", <<5>>)>>
=============================================================================
