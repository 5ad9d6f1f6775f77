------------------------------ MODULE Autograd ------------------------------
(***************************************************************************)
(* kernelleaf/autograd.py: the tape that operators build and the reverse   *)
(* pass over it.  A tape is a sequence of nodes in the order in which they *)
(* are made; a node is a leaf (a parameter, a batch, a constant) or the    *)
(* result of an operator, whose inputs are earlier nodes.                  *)
(*                                                                         *)
(* A derivative is symbolic: the set of the paths along which it has come  *)
(* from the output, a path being the sequence of <<node, input position>>  *)
(* it went through.  Adding two derivatives is the union of their paths,   *)
(* an operator's gradient extends every path by one edge.  "obj" is the    *)
(* tensor object that holds the derivative: operators whose gradient is    *)
(* out_grad itself (addition, residual connections) hand on the object,    *)
(* so that two parameters may share one.                                   *)
(***************************************************************************)
EXTENDS Naturals, SequencesExt

CONSTANT Nothing        \* Python's None

Edge == Nat \X Nat
Derivative == [paths : SUBSET Seq(Edge), obj : Edge]

Leaf(requiresGrad) == [op |-> Nothing, inputs |-> <<>>, requires_grad |-> requiresGrad]

(* make_from_op: a result that needs no gradient is detached, and forgets   *)
(* how it was made.                                                        *)
MakeFromOp(tape, operation) ==
  IF \E i \in DOMAIN operation.inputs : tape[operation.inputs[i]].requires_grad
  THEN Append(tape, [op |-> operation.op, inputs |-> operation.inputs, requires_grad |-> TRUE])
  ELSE Append(tape, Leaf(FALSE))

(* What the forward pass of a model leaves: its operations, on its leaves.  *)
Record(leaves, operations) == FoldLeft(MakeFromOp, leaves, operations)

-----------------------------------------------------------------------------
(* find_topo_sort: post-order depth-first search from the output.           *)

(* As a function of the node and of what the search has found so far; a     *)
(* node's inputs come before it on the tape.                               *)
TopoSortDfs(tape) ==
  LET Nodes == DOMAIN tape
      dfs[node \in Nodes, search \in [visited : SUBSET Nodes, order : Seq(Nodes)]] ==
        IF node \in search.visited THEN search
        ELSE LET entered == [search EXCEPT !.visited = @ \cup {node}]
                 left == FoldLeft(LAMBDA s, input : dfs[input, s], entered, tape[node].inputs)
             IN  [left EXCEPT !.order = Append(@, node)]
  IN  dfs

FindTopoSort(tape, output) ==
  TopoSortDfs(tape)[output, [visited |-> {}, order |-> <<>>]].order

-----------------------------------------------------------------------------
(* compute_gradient_of_variables. *)

(* sum_node_list: a single contribution is the sum, as an object too.       *)
SumNodeList(node, contributions) ==
  IF Len(contributions) = 1 THEN contributions[1]
  ELSE [paths |-> UNION {contributions[i].paths : i \in DOMAIN contributions},
        obj |-> <<node, 0>>]

(* gradient_as_tuple: what an operator hands to its i-th input.             *)
GradientAsTuple(tape, node, derivative, i) ==
  [paths |-> {Append(path, <<node, i>>) : path \in derivative.paths},
   obj |-> IF tape[node].op = "add" THEN derivative.obj ELSE <<node, i>>]

(* One turn of the loop: the contributions to a node are summed, a leaf     *)
(* that requires it keeps the sum, other nodes hand on.                     *)
Propagate(tape, state, node) ==
  LET derivative == SumNodeList(node, state.contributions[node])
      inputs == tape[node].inputs
      HandOn(contributions, i) ==
        [contributions EXCEPT ![inputs[i]] =
           Append(@, GradientAsTuple(tape, node, derivative, i))]
  IN  IF state.contributions[node] = <<>> THEN state
      ELSE [contributions |-> FoldLeft(HandOn, state.contributions,
                                       [i \in DOMAIN inputs |-> i]),
            grad |-> IF tape[node].op = Nothing /\ tape[node].requires_grad
                     THEN [state.grad EXCEPT ![node] = derivative] ELSE state.grad]

(* backward: the derivatives the leaves of the tape's last node receive;    *)
(* Nothing for the nodes whose gradient is left as it is.                   *)
Backward(tape) ==
  LET output == Len(tape)
      start == [contributions |->
                  [n \in 1 .. output |->
                     IF n = output THEN <<[paths |-> {<<>>}, obj |-> <<output, 0>>]>> ELSE <<>>],
                grad |-> [n \in 1 .. output |-> Nothing]]
  IN  FoldLeft(LAMBDA s, n : Propagate(tape, s, n), start,
               Reverse(FindTopoSort(tape, output))).grad

-----------------------------------------------------------------------------

(* The definition to compare with, from the operations alone: the           *)
(* derivative with respect to a leaf is the sum over all paths to it.       *)
ChainRule(leaves, operations) ==
  LET first == Len(leaves)
      output == first + Len(operations)
      paths[n \in 1 .. output] ==
        IF n = output THEN {<<>>}
        ELSE UNION {UNION {{Append(path, <<m, i>>) : path \in paths[m]} :
                      i \in {j \in DOMAIN operations[m - first].inputs :
                               operations[m - first].inputs[j] = n}} :
                    m \in {k \in 1 .. output : k > n /\ k > first}}
  IN  paths

(* What the reverse pass owes for a model's operations: every leaf that     *)
(* requires one receives the chain rule's derivative, in some object, and   *)
(* is left as it is if no path leads to it.                                *)
Differentiates(leaves, operations) ==
  LET found == Backward(Record(leaves, operations))
      wanted == ChainRule(leaves, operations)
  IN  \A leaf \in DOMAIN leaves :
        leaves[leaf].requires_grad =>
          IF found[leaf] = Nothing THEN wanted[leaf] = {}
          ELSE /\ found[leaf] \in Derivative
               /\ found[leaf].paths = wanted[leaf]
               /\ wanted[leaf] # {}
=============================================================================
