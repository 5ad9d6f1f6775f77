---------------------------- MODULE TrainingStep ----------------------------
(***************************************************************************)
(* The training loops of the repository at the grain of the framework's    *)
(* calls: reset_grad, forward, backward, clip_grad_norm, step, eval, train, *)
(* save_checkpoint, load_checkpoint and grad_cam, on one model with its     *)
(* parameters, its BatchNorm statistics and its optimizer's slots.          *)
(*                                                                         *)
(* Numbers are left out: a parameter's value is the sequence of gradients   *)
(* that have been applied to it, a slot's (Adam's moments, SGD's velocity)  *)
(* the sequence of gradients folded into it (empty: no slot yet), and the   *)
(* running statistics the sequence of batches they have seen.  Arrays are  *)
(* values: nothing in the framework writes into one, every update makes a  *)
(* new array.  Everything is on one device.                                *)
(***************************************************************************)
EXTENDS Autograd, FiniteSets

CONSTANTS
  NumParams,      \* the model's parameters are the leaves 1 .. NumParams
  Networks,       \* forward passes: sequences of operations on the leaves
  Heads,          \* the forward pass from the feature map of grad_cam
  Epochs,
  Batches,        \* per epoch
  MaxDeaths       \* bound: how often the process is killed

ASSUME TrainingAssumption ==
  {NumParams, Epochs, Batches} \subseteq Nat \ {0} /\ MaxDeaths \in Nat

Params == 1 .. NumParams

(* What parameter.grad holds, and what is left of it once it is applied.    *)
Gradient == [batch : Nat, paths : SUBSET Seq(Edge), obj : Edge \cup {Nothing}, scaled : Nat]

Values == [Params -> Seq(Gradient)]
Model == [data : Values, stats : Seq(Nat)]
Slots == [slots : Values, t : Nat]
Checkpoint == [epoch : 0 .. Epochs, model : Model, optimizer : Slots \cup {Nothing}]
Score == [data : Values, stats : Seq(Nat), epoch : 0 .. Epochs]
Camera == [grads : [Params -> Gradient \cup {Nothing}], training : BOOLEAN,
           at : {"entered", "features", "differentiated"}]

ASSUME NothingIsNone ==
  Nothing \notin Gradient \cup Derivative \cup Slots \cup Checkpoint \cup Score \cup Camera

(* The batch's tensor requires a gradient, as every Tensor does by default; *)
(* masks, labels and running statistics do not.                            *)
Leaves == [n \in 1 .. NumParams + 2 |-> Leaf(n # NumParams + 2)]

(* The loops below are about what becomes of a derivative; that the reverse *)
(* pass finds it on a given tape is a question to Autograd.                *)
ASSUME ReversePassIsRight ==
  \A network \in Networks \cup {Heads} : Differentiates(Leaves, network)

-----------------------------------------------------------------------------
(* The loops: whether they switch to training mode with every epoch (or did *)
(* once, before the first), reset the gradients before every batch, step an *)
(* optimizer of their own, evaluate after every epoch, and when they save;  *)
(* and the optimizers they are run with.                                   *)

Adam == [name |-> "Adam", momentum |-> FALSE]
SGD(momentum) == [name |-> "SGD", momentum |-> momentum]

Loop(switches, resets, evaluates, saves) ==
  [switches |-> switches, resets |-> resets, evaluates |-> evaluates, saves |-> saves]

Settings(app, loop, optimizers, clips) ==
  [app : {app}, loop : {loop}, optimizer : optimizers, clip : clips]

TrainAutodrive == Settings("train", Loop(TRUE, TRUE, TRUE, "epoch"), {Adam}, BOOLEAN)
TrainMLP == Settings("mlp", Loop(TRUE, TRUE, TRUE, "never"), {Adam, SGD(FALSE)}, {FALSE})
TrainLeNet == Settings("lenet", Loop(TRUE, TRUE, TRUE, "never"), {Adam, SGD(FALSE)}, {FALSE})
TrainResNet == Settings("resnet", Loop(TRUE, TRUE, TRUE, "never"), {Adam}, {FALSE})
SingleBenchmark == Settings("benchmark", Loop(FALSE, TRUE, FALSE, "end"), {Adam}, {FALSE})
AutodriveWorker == Settings("worker", Loop(FALSE, FALSE, FALSE, "end"), {Adam}, {FALSE})
MnistWorker == Settings("mnist-worker", Loop(FALSE, FALSE, FALSE, "never"), {Adam}, {FALSE})

(* Another caller of train_epoch and evaluate_model, with an SGD, who asks  *)
(* grad_cam for pictures while training.                                   *)
Library == Settings("library", Loop(TRUE, TRUE, TRUE, "never"), {SGD(FALSE), SGD(TRUE)}, BOOLEAN)

AllSettings ==
  TrainAutodrive \cup TrainMLP \cup TrainLeNet \cup TrainResNet \cup SingleBenchmark
  \cup AutodriveWorker \cup MnistWorker \cup Library

VARIABLES
  setting,    \* the loop that runs, never changed
  uses,       \* the network each batch goes through, never changed
  at,         \* where the loop is
  epoch, batch, \* epochs and, in the present one, batches completed
  training,   \* Module.training, of the model and all its children
  data,       \* parameter -> the gradients applied to it
  grad,       \* parameter -> parameter.grad
  slots,      \* parameter -> the optimizer's slot
  t,          \* Adam's step count
  stats,      \* the batches in the running statistics
  file,       \* the checkpoint
  score,      \* what the last evaluation was computed from
  camera,     \* the call of grad_cam that is in progress
  deaths

vars == <<setting, uses, at, epoch, batch, training, data, grad, slots, t, stats,
          file, score, camera, deaths>>

loopVars == <<setting, uses>>
modelVars == <<data, stats>>
optimizerVars == <<slots, t>>
outVars == <<file, score, deaths>>

Completed == epoch * Batches + batch
Number == Completed + 1               \* of the batch being worked on

Goto(label) == at' = label
Loops == setting.loop
IsAdam == setting.optimizer.name = "Adam"

(* In the loops without an optimizer the server's one is stepped.           *)
IsWorker == setting.app \in {"worker", "mnist-worker"}

-----------------------------------------------------------------------------
(* One batch. *)

(* Forward in training mode puts the batch into the running statistics,    *)
(* which are new tensors without a graph; in evaluation mode it reads them. *)
Forward(mode, seen, what) == IF mode THEN Append(seen, what) ELSE seen

(* Module.train and Module.eval set the flag of every module below; a loop *)
(* that does not switch found it set.                                       *)
Mode == training \/ (batch = 0 /\ Loops.switches)

(* Faulty variant: reset_grad is forgotten. *)
ResetNothing ==
  /\ at = "loop" /\ camera = Nothing
  /\ epoch < Epochs
  /\ training' = Mode
  /\ Goto("reset")
  /\ UNCHANGED <<loopVars, modelVars, optimizerVars, outVars, epoch, batch, grad, camera>>

(* A worker has no optimizer: accept_parameters has dropped its gradients.  *)
ResetGrad ==
  /\ at = "loop" /\ camera = Nothing
  /\ epoch < Epochs
  /\ training' = Mode
  /\ grad' = IF Loops.resets THEN [p \in Params |-> Nothing] ELSE grad
  /\ Goto("reset")
  /\ UNCHANGED <<loopVars, modelVars, optimizerVars, outVars, epoch, batch, camera>>

ForwardPass ==
  /\ at = "reset" /\ camera = Nothing
  /\ stats' = Forward(training, stats, Number)
  /\ Goto("forwarded")
  /\ UNCHANGED <<loopVars, optimizerVars, outVars, epoch, batch, training, data, grad, camera>>

(* Leaves that the loss reaches get a new gradient, the others keep theirs. *)
Assign(old, network, what) ==
  LET new == Backward(Record(Leaves, network))
  IN  [p \in Params |->
         IF new[p] = Nothing THEN old[p]
         ELSE [batch |-> what, paths |-> new[p].paths, obj |-> new[p].obj, scaled |-> 0]]

BackwardPass ==
  /\ at = "forwarded" /\ camera = Nothing
  /\ grad' = Assign(grad, uses[batch + 1], Number)
  /\ Goto("differentiated")
  /\ UNCHANGED <<loopVars, modelVars, optimizerVars, outVars, epoch, batch, training, camera>>

(* clip_grad_norm: parameter.grad.cached_data = gradient * scale, one       *)
(* parameter after the other; an object that two parameters share is        *)
(* written twice, both times from the array its writer had held before.    *)
ClipGradNorm(old) ==
  LET Writers(q) == {p \in Params : old[p] # Nothing /\ old[p].obj = old[q].obj}
  IN  [q \in Params |-> IF old[q] = Nothing THEN Nothing
                        ELSE [old[q] EXCEPT !.scaled = old[Max(Writers(q))].scaled + 1]]

Clip ==
  /\ at = "differentiated" /\ camera = Nothing
  /\ setting.clip
  /\ ~IsAdam
  /\ grad' = ClipGradNorm(grad)
  /\ Goto("clipped")
  /\ UNCHANGED <<loopVars, modelVars, optimizerVars, outVars, epoch, batch, training, camera>>

(* Only SGD has the method: with Adam the call is an AttributeError.        *)
ClipFails ==
  /\ at = "differentiated" /\ camera = Nothing
  /\ setting.clip
  /\ IsAdam
  /\ Goto("raised")
  /\ UNCHANGED <<loopVars, modelVars, optimizerVars, outVars, epoch, batch, training, grad, camera>>

(* Optimizer.step: a parameter without a gradient keeps value and slot.     *)
Applied(old) ==
  [p \in Params |-> IF grad[p] = Nothing THEN old[p]
                    ELSE Append(old[p], [grad[p] EXCEPT !.obj = Nothing])]

HasSlots == IsAdam \/ setting.optimizer.momentum

(* Faulty variant: the count of batches is not reset with the epoch. *)
EndOfBatchOnly ==
  /\ batch' = batch + 1
  /\ epoch' = epoch + (batch + 1) \div Batches

EndOfBatch ==
  /\ batch' = (batch + 1) % Batches
  /\ epoch' = epoch + (batch + 1) \div Batches

Step ==
  /\ at = (IF setting.clip THEN "clipped" ELSE "differentiated")
  /\ camera = Nothing
  /\ ~IsWorker
  /\ data' = Applied(data)
  /\ slots' = IF HasSlots THEN Applied(slots) ELSE slots
  /\ t' = IF IsAdam THEN t + 1 ELSE t
  /\ EndOfBatch
  /\ Goto(IF batch' = 0 /\ Loops.evaluates THEN "evaluate" ELSE "loop")
  /\ UNCHANGED <<loopVars, outVars, training, grad, stats, camera>>

(* push_gradients_and_wait: a gradient for every parameter, or none is      *)
(* sent; the server applies its optimizer, and the answer replaces the      *)
(* parameters and drops the gradients.  The running statistics stay local.  *)
Push ==
  /\ at = "differentiated" /\ IsWorker
  /\ \A p \in Params : grad[p] # Nothing
  /\ data' = Applied(data)
  /\ slots' = Applied(slots)
  /\ t' = t + 1
  /\ grad' = [p \in Params |-> Nothing]
  /\ EndOfBatch
  /\ Goto("loop")
  /\ UNCHANGED <<loopVars, outVars, training, stats, camera>>

PushFails ==
  /\ at = "differentiated" /\ IsWorker
  /\ \E p \in Params : grad[p] = Nothing
  /\ Goto("raised")
  /\ UNCHANGED <<loopVars, modelVars, optimizerVars, outVars, epoch, batch, training, grad, camera>>

-----------------------------------------------------------------------------
(* Evaluation and checkpoints. *)

(* evaluate_model and test: forward in evaluation mode, and no backward.    *)
Evaluation(mode, values, seen, when) ==
  [data |-> values, stats |-> Forward(mode, seen, "validation"), epoch |-> when]

Evaluate ==
  /\ at = "evaluate" /\ camera = Nothing
  /\ training' = FALSE
  /\ score' = Evaluation(training', data, stats, epoch)
  /\ stats' = Forward(training', stats, "validation")
  /\ Goto(IF Loops.saves = "epoch" THEN "save" ELSE "loop")
  /\ UNCHANGED <<loopVars, optimizerVars, epoch, batch, data, grad, file, camera, deaths>>

(* Faulty variant: named_parameters in place of _named_tensors. *)
ParametersOnly == [data |-> data, stats |-> <<>>]

(* Module.state_dict: parameters and buffers, copied.                       *)
StateDict == [data |-> data, stats |-> stats]

(* Optimizer.state_dict: the slots by position, absent ones in their place. *)
OptimizerState == [slots |-> [p \in Params |-> slots[p]], t |-> t]

SaveCheckpoint ==
  /\ \/ at = "save"
     \/ at = "loop" /\ epoch = Epochs /\ Loops.saves = "end"
  /\ file' = [epoch |-> epoch, model |-> StateDict,
              optimizer |-> IF at = "save" THEN OptimizerState ELSE Nothing]
  /\ Goto(IF at = "save" THEN "loop" ELSE "saved")
  /\ UNCHANGED <<loopVars, modelVars, optimizerVars, epoch, batch, training, grad, score,
                 camera, deaths>>

(* The loop is over.                                                       *)
Finish ==
  /\ at = "loop" /\ epoch = Epochs /\ camera = Nothing
  /\ Loops.saves # "end"
  /\ Goto("done")
  /\ UNCHANGED <<loopVars, modelVars, optimizerVars, outVars, epoch, batch, training, grad, camera>>

(* Module.load_state_dict, on the model that the caller has just made.      *)
LoadStateDict == data' = file.model.data /\ stats' = file.model.stats

(* The end of a benchmark: the checkpoint is loaded into a new model, which *)
(* is evaluated.                                                           *)
EvaluateBenchmark ==
  /\ at = "saved"
  /\ LoadStateDict
  /\ grad' = [p \in Params |-> Nothing]
  /\ training' = FALSE
  /\ score' = Evaluation(training', data', stats', file.epoch)
  /\ Goto("done")
  /\ UNCHANGED <<loopVars, optimizerVars, epoch, batch, file, camera, deaths>>

(* evaluate.py, in another process and at any time.                         *)
EvaluateCheckpoint ==
  /\ file # Nothing
  /\ score' = Evaluation(FALSE, file.model.data, file.model.stats, file.epoch)
  /\ UNCHANGED <<loopVars, modelVars, optimizerVars, at, epoch, batch, training, grad, file,
                 camera, deaths>>

-----------------------------------------------------------------------------
(* The end of a process, and the next one. *)

Die ==
  /\ setting.app = "train"
  /\ at \notin {"done", "dead", "raised"}
  /\ deaths < MaxDeaths
  /\ deaths' = deaths + 1
  /\ Goto("dead")
  /\ UNCHANGED <<loopVars, modelVars, optimizerVars, epoch, batch, training, grad, file, score,
                 camera>>

(* A fresh model and optimizer, without gradients, in training mode.        *)
Fresh ==
  /\ training' = TRUE
  /\ grad' = [p \in Params |-> Nothing]
  /\ batch' = 0

StartAgain ==
  /\ at = "dead" /\ file = Nothing
  /\ Fresh
  /\ data' = [p \in Params |-> <<>>]
  /\ slots' = [p \in Params |-> <<>>]
  /\ t' = 0
  /\ stats' = <<>>
  /\ epoch' = 0
  /\ Goto("loop")
  /\ UNCHANGED <<loopVars, outVars, camera>>

(* Optimizer.load_state_dict: the slots by position.                        *)
LoadOptimizer(saved) ==
  /\ slots' = [p \in Params |-> saved.slots[p]]
  /\ t' = saved.t

(* load_checkpoint: the model, then the optimizer, and the loop goes on     *)
(* after the saved epoch.                                                  *)
Resume ==
  /\ at = "dead" /\ file # Nothing
  /\ Fresh
  /\ LoadStateDict
  /\ LoadOptimizer(file.optimizer)
  /\ epoch' = file.epoch
  /\ Goto("loop")
  /\ UNCHANGED <<loopVars, outVars, camera>>

(* train --resume with the checkpoint of a benchmark: the model is loaded,  *)
(* then the missing optimizer state is an error.                           *)
RefuseToResume ==
  /\ at = "done" /\ Loops.saves = "end"
  /\ file.optimizer = Nothing
  /\ Fresh
  /\ LoadStateDict
  /\ Goto("raised")
  /\ UNCHANGED <<loopVars, optimizerVars, outVars, epoch, camera>>

-----------------------------------------------------------------------------
(* grad_cam, called by whoever trains between any two calls of the loop.    *)

Photograph ==
  /\ setting.app = "library" /\ at \notin {"done", "raised"} /\ camera = Nothing
  /\ camera' = [grads |-> grad, training |-> training, at |-> "entered"]
  /\ training' = FALSE
  /\ UNCHANGED <<loopVars, modelVars, optimizerVars, outVars, at, epoch, batch, grad>>

(* forward_features, whose result becomes a leaf of its own.                *)
Features ==
  /\ camera # Nothing /\ camera.at = "entered"
  /\ stats' = Forward(training, stats, "picture")
  /\ camera' = [camera EXCEPT !.at = "features"]
  /\ UNCHANGED <<loopVars, optimizerVars, outVars, at, epoch, batch, training, data, grad>>

(* The heads are differentiated, and their parameters get gradients.        *)
HeadsBackward ==
  /\ camera # Nothing /\ camera.at = "features"
  /\ grad' = Assign(grad, Heads, 0)
  /\ camera' = [camera EXCEPT !.at = "differentiated"]
  /\ UNCHANGED <<loopVars, modelVars, optimizerVars, outVars, at, epoch, batch, training>>

(* The finally clause, reached from anywhere when something raises.         *)
Restore ==
  /\ camera # Nothing
  /\ grad' = camera.grads
  /\ training' = (training \/ camera.training)
  /\ camera' = Nothing
  /\ UNCHANGED <<loopVars, modelVars, optimizerVars, outVars, at, epoch, batch>>

-----------------------------------------------------------------------------

Init ==
  /\ setting \in AllSettings
  /\ uses \in [1 .. Batches -> Networks]
  /\ at = "loop"
  /\ epoch = 0
  /\ batch = 0
  /\ training = TRUE
  /\ data = [p \in Params |-> <<>>]
  /\ grad = [p \in Params |-> Nothing]
  /\ slots = [p \in Params |-> <<>>]
  /\ t = 0
  /\ stats = <<>>
  /\ file = Nothing
  /\ score = Nothing
  /\ camera = Nothing
  /\ deaths = 0

Over == at \in {"done", "raised"} /\ camera = Nothing /\ UNCHANGED vars

Next ==
  \/ ResetGrad \/ ForwardPass \/ BackwardPass \/ Clip \/ ClipFails \/ Step
  \/ Push \/ PushFails
  \/ Evaluate \/ SaveCheckpoint \/ Finish \/ EvaluateBenchmark \/ EvaluateCheckpoint
  \/ Die \/ StartAgain \/ Resume \/ RefuseToResume
  \/ Photograph \/ Features \/ HeadsBackward \/ Restore
  \/ Over

Spec == Init /\ [][Next]_vars

-----------------------------------------------------------------------------
(* Properties. *)

(* What a training is about: the network of every batch, and whether        *)
(* gradients are clipped.                                                  *)
Course == [networks |-> uses, clip |-> setting.clip]

(* The paths of the k-th batch's network to parameter p, by the chain rule. *)
PathsTo(course, p, k) == ChainRule(Leaves, course.networks[((k - 1) % Batches) + 1])[p]

(* Its gradient for p, as it has to arrive in the optimizer.                *)
Due(course, p, k) ==
  [batch |-> k, paths |-> PathsTo(course, p, k), obj |-> Nothing,
   scaled |-> IF course.clip THEN 1 ELSE 0]

(* What a training that was never disturbed has applied to p after k        *)
(* batches: the gradients of the batches that lead to p, in their order.   *)
Undisturbed(course, applied, p, k) ==
  /\ \A i \in DOMAIN applied :
       LET b == applied[i].batch
       IN  b \in 1 .. k /\ PathsTo(course, p, b) # {} /\ applied[i] = Due(course, p, b)
  /\ \A i, j \in DOMAIN applied : i < j => applied[i].batch < applied[j].batch
  /\ \A b \in 1 .. k :
       PathsTo(course, p, b) # {} => \E i \in DOMAIN applied : applied[i].batch = b

Labels == {"loop", "reset", "forwarded", "differentiated", "clipped", "evaluate", "save",
           "saved", "done", "dead", "raised"}

(* The values of the loop's state. *)
StepTypeOK ==
  /\ setting \in AllSettings
  /\ uses \in [1 .. Batches -> Networks]
  /\ at \in Labels
  /\ epoch \in 0 .. Epochs /\ batch \in 0 .. Batches - 1
  /\ epoch = Epochs => batch = 0
  /\ training \in BOOLEAN
  /\ data \in Values /\ slots \in Values
  /\ grad \in [Params -> Gradient \cup {Nothing}]
  /\ stats \in Seq(Nat)
  /\ file \in Checkpoint \cup {Nothing}
  /\ score \in Score \cup {Nothing}
  /\ camera \in Camera \cup {Nothing}
  /\ t \in 0 .. Epochs * Batches
  /\ deaths \in 0 .. MaxDeaths

(* Between two batches the model is what an undisturbed training would have *)
(* made of it: every completed batch has been applied once, with its own    *)
(* gradient by the chain rule, and scaled exactly if clipping is on; the    *)
(* optimizer's slots and step count belong to these values; and the running *)
(* statistics have seen the same batches in the same order.  Gradients of   *)
(* other batches or other graphs, evaluations, pictures, clipped objects    *)
(* that are shared, death and resumption leave no trace.                    *)
TrainsExactly ==
  at \in {"loop", "evaluate", "save", "saved", "done"} =>
    /\ \A p \in Params :
         /\ Undisturbed(Course, data[p], p, Completed)
         /\ slots[p] = IF HasSlots THEN data[p] ELSE <<>>
    /\ t = IF IsAdam THEN Completed ELSE 0
    /\ stats = [k \in 1 .. Completed |-> k]

(* The metrics of an epoch are those of the model after all its batches, by *)
(* the statistics of these batches and in evaluation mode, whether they are *)
(* computed on the spot or from a checkpoint by another process.            *)
EvaluatesWhatWasTrained ==
  score # Nothing =>
    LET k == score.epoch * Batches
    IN  /\ \A p \in Params : Undisturbed(Course, score.data[p], p, k)
        /\ score.stats = [j \in 1 .. k |-> j]

(* "clip the global gradient norm; 0 disables clipping", says the help of   *)
(* --grad-clip-norm: a training with clipping does not fail because of it.  *)
ClippingWorks == setting.clip => at # "raised"
=============================================================================
