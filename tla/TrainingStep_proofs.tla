------------------------- MODULE TrainingStep_proofs -------------------------
(***************************************************************************)
(* Proofs about the training loops, for any model, networks, number of     *)
(* epochs and batches and of deaths: the types, that a training is exactly *)
(* the undisturbed one, and that metrics are those of the model they name. *)
(***************************************************************************)
EXTENDS TrainingStep, SequenceTheorems, WellFoundedInduction, TLAPS

(* The loops of the repository, by what the proofs need of them. *)
LoopsAre(s) ==
  /\ s.clip \in BOOLEAN
  /\ s.app = "train" <=> s.loop.saves = "epoch"
  /\ s.app \in {"worker", "mnist-worker"} <=> ~s.loop.resets
  /\ s.app = "library" => s.loop.saves = "never" /\ s.loop.evaluates
  /\ s.loop.saves \in {"epoch", "end", "never"}
  /\ s.loop.saves = "end" => ~s.loop.evaluates
  /\ s.loop.evaluates => s.loop.switches
  /\ s.loop.saves = "epoch" => s.optimizer.name = "Adam"
  /\ ~s.loop.resets => s.optimizer.name = "Adam" /\ ~s.clip /\ ~s.loop.evaluates

LEMMA TheLoops ==
  ASSUME NEW s \in AllSettings PROVE LoopsAre(s)
<1>1. CASE s \in TrainAutodrive
  <2>1. s.app = "train" /\ s.loop = Loop(TRUE, TRUE, TRUE, "epoch") /\ s.optimizer = Adam
        /\ s.clip \in BOOLEAN
    BY <1>1 DEF Settings, TrainAutodrive
  <2>2. QED
    BY <2>1 DEF LoopsAre, Loop, Adam
<1>2. CASE s \in TrainMLP \cup TrainLeNet \cup TrainResNet
  <2>1. s.app \in {"mlp", "lenet", "resnet"} /\ s.loop = Loop(TRUE, TRUE, TRUE, "never")
        /\ s.clip \in BOOLEAN
    BY <1>2 DEF Settings, TrainMLP, TrainLeNet, TrainResNet
  <2>2. QED
    BY <2>1 DEF LoopsAre, Loop, Adam
<1>3. CASE s \in SingleBenchmark
  <2>1. s.app = "benchmark" /\ s.loop = Loop(FALSE, TRUE, FALSE, "end") /\ s.clip \in BOOLEAN
    BY <1>3 DEF Settings, SingleBenchmark
  <2>2. QED
    BY <2>1 DEF LoopsAre, Loop, Adam
<1>4. CASE s \in AutodriveWorker
  <2>1. s.app = "worker" /\ s.loop = Loop(FALSE, FALSE, FALSE, "end") /\ s.optimizer = Adam
        /\ s.clip \in BOOLEAN /\ ~s.clip
    BY <1>4 DEF Settings, AutodriveWorker
  <2>2. QED
    BY <2>1 DEF LoopsAre, Loop, Adam
<1>5. CASE s \in MnistWorker
  <2>1. s.app = "mnist-worker" /\ s.loop = Loop(FALSE, FALSE, FALSE, "never")
        /\ s.optimizer = Adam /\ s.clip \in BOOLEAN /\ ~s.clip
    BY <1>5 DEF Settings, MnistWorker
  <2>2. QED
    BY <2>1 DEF LoopsAre, Loop, Adam
<1>6. CASE s \in Library
  <2>1. s.app = "library" /\ s.loop = Loop(TRUE, TRUE, TRUE, "never") /\ s.clip \in BOOLEAN
    BY <1>6 DEF Settings, Library
  <2>2. QED
    BY <2>1 DEF LoopsAre, Loop, Adam
<1>7. QED
  BY <1>1, <1>2, <1>3, <1>4, <1>5, <1>6 DEF AllSettings

-----------------------------------------------------------------------------
(* Arithmetic of epochs and batches. *)

LEMMA Division ==
  ASSUME NEW a \in Nat, NEW b \in Nat \ {0}
  PROVE  a = b * (a \div b) + (a % b) /\ a % b \in 0 .. b - 1 /\ a \div b \in Nat
  BY Z3

LEMMA NoSmallMultiple ==
  ASSUME NEW d \in Int, NEW b \in Nat \ {0}, b * d < b, b * d > -b
  PROVE  d = 0
<1>1. d > 0 => b * d >= b
  BY Z3
<1>2. d < 0 => b * d <= -b
  BY Z3
<1>3. QED
  BY <1>1, <1>2

LEMMA BatchOfNumber ==
  ASSUME NEW e \in Nat, NEW n \in Nat \ {0}, NEW b \in 0 .. n - 1
  PROVE  (e * n + b) % n = b
<1> DEFINE a == e * n + b
           q == a \div n
           r == a % n
<1>1. a = n * q + r /\ r \in 0 .. n - 1 /\ q \in Nat
  <2>1. a \in Nat
    OBVIOUS
  <2> HIDE DEF a
  <2>2. QED
    BY <2>1, Division
<1>2. n * (q - e) = b - r
  BY <1>1
<1>3. q - e = 0
  <2> HIDE DEF q, r
  <2>1. b - r < n /\ b - r > -n
    BY <1>1
  <2>2. QED
    BY <1>1, <1>2, <2>1, NoSmallMultiple
<1>4. QED
  BY <1>1, <1>2, <1>3

(* The end of a batch counts one. *)
LEMMA CountsOne ==
  ASSUME NEW e \in 0 .. Epochs - 1, NEW b \in 0 .. Batches - 1
  PROVE  /\ (b + 1) % Batches \in 0 .. Batches - 1
         /\ e + ((b + 1) \div Batches) \in 0 .. Epochs
         /\ e + ((b + 1) \div Batches) = Epochs => (b + 1) % Batches = 0
         /\ (e + ((b + 1) \div Batches)) * Batches + ((b + 1) % Batches) = e * Batches + b + 1
<1> USE TrainingAssumption
<1>1. CASE b + 1 < Batches
  <2>1. (b + 1) % Batches = b + 1 /\ (b + 1) \div Batches = 0
    BY <1>1
  <2>2. QED
    BY <1>1, <2>1
<1>2. CASE b + 1 = Batches
  <2>1. (b + 1) % Batches = 0 /\ (b + 1) \div Batches = 1
    BY <1>2
  <2>2. (e + 1) * Batches = e * Batches + Batches
    OBVIOUS
  <2>3. QED
    BY <1>2, <2>1, <2>2
<1>3. QED
  BY <1>1, <1>2

(* No more batches are completed than there are. *)
LEMMA NotBeyondTheEnd ==
  ASSUME NEW e \in 0 .. Epochs, NEW b \in 0 .. Batches - 1, e = Epochs => b = 0
  PROVE  e * Batches + b \in 0 .. Epochs * Batches
<1> USE TrainingAssumption
<1>1. e * Batches \in Nat
  OBVIOUS
<1>2. CASE e = Epochs
  BY <1>1, <1>2
<1>3. CASE e < Epochs
  <2>1. (Epochs - (e + 1)) * Batches \in Nat
    BY <1>3
  <2>2. Epochs * Batches = (Epochs - (e + 1)) * Batches + (e * Batches + Batches)
    BY <1>3
  <2>3. QED
    BY <1>1, <2>1, <2>2
<1>4. QED
  BY <1>2, <1>3

-----------------------------------------------------------------------------
(* What has been applied to a parameter. *)

LEMMA UndisturbedAtFirst ==
  ASSUME NEW course, NEW p PROVE Undisturbed(course, <<>>, p, 0)
BY DEF Undisturbed

(* A batch that does not lead to the parameter changes nothing. *)
LEMMA UndisturbedSkips ==
  ASSUME NEW course, NEW p, NEW k \in Nat, NEW applied \in Seq(Gradient),
         Undisturbed(course, applied, p, k), PathsTo(course, p, k + 1) = {}
  PROVE  Undisturbed(course, applied, p, k + 1)
BY DEF Undisturbed

(* One that does adds its gradient at the end. *)
LEMMA UndisturbedApplies ==
  ASSUME NEW course, NEW p, NEW k \in Nat, NEW applied \in Seq(Gradient),
         Undisturbed(course, applied, p, k), PathsTo(course, p, k + 1) # {},
         Due(course, p, k + 1) \in Gradient
  PROVE  Undisturbed(course, Append(applied, Due(course, p, k + 1)), p, k + 1)
<1> DEFINE due == Due(course, p, k + 1)
           more == Append(applied, due)
           n == Len(applied)
<1>1. due.batch = k + 1
  BY DEF Due
<1> HIDE DEF due
<1>2. /\ n \in Nat /\ DOMAIN applied = 1 .. n /\ DOMAIN more = 1 .. n + 1
      /\ \A i \in 1 .. n : more[i] = applied[i] /\ i # n + 1
      /\ more[n + 1] = due
      /\ \A i \in 1 .. n + 1 : i \in 1 .. n \/ i = n + 1
  OBVIOUS
<1> HIDE DEF more, n
<1>3. ASSUME NEW i \in DOMAIN more
      PROVE  LET b == more[i].batch
             IN  b \in 1 .. k + 1 /\ PathsTo(course, p, b) # {} /\ more[i] = Due(course, p, b)
  <2>1. CASE i \in 1 .. n
    BY <1>2, <2>1 DEF Undisturbed
  <2>2. CASE i = n + 1
    BY <1>1, <1>2, <2>2 DEF due
  <2>3. QED
    BY <1>2, <1>3, <2>1, <2>2
<1>4. ASSUME NEW i \in DOMAIN more, NEW j \in DOMAIN more, i < j
      PROVE  more[i].batch < more[j].batch
  <2>1. i \in 1 .. n
    BY <1>2, <1>4
  <2>2. CASE j \in 1 .. n
    BY <1>2, <1>4, <2>1, <2>2 DEF Undisturbed
  <2>3. CASE j = n + 1
    <3>1. more[i].batch \in 1 .. k
      BY <1>2, <2>1 DEF Undisturbed
    <3>2. QED
      BY <1>1, <1>2, <2>3, <3>1
  <2>4. QED
    BY <1>2, <1>4, <2>2, <2>3
<1>5. ASSUME NEW b \in 1 .. k + 1, PathsTo(course, p, b) # {}
      PROVE  \E i \in DOMAIN more : more[i].batch = b
  <2>1. CASE b \in 1 .. k
    <3>1. PICK i \in DOMAIN applied : applied[i].batch = b
      BY <1>5, <2>1 DEF Undisturbed
    <3>2. QED
      BY <1>2, <3>1
  <2>2. CASE b = k + 1
    BY <1>1, <1>2, <2>2
  <2>3. QED
    BY <1>5, <2>1, <2>2
<1>6. QED
  BY <1>3, <1>4, <1>5 DEF Undisturbed, more, due

-----------------------------------------------------------------------------
(* Gradients. *)

(* A gradient is that of the k-th batch, for the paths given, scaled n      *)
(* times.                                                                  *)
Carries(g, paths, k, n) ==
  IF paths = {} THEN g = Nothing
  ELSE /\ g \in Gradient
       /\ g.batch = k /\ g.paths = paths /\ g.scaled = n

LEMMA ReversePass ==
  ASSUME NEW network \in Networks \cup {Heads}, NEW p \in Params
  PROVE  LET found == Backward(Record(Leaves, network))[p]
             wanted == ChainRule(Leaves, network)[p]
         IN  \/ found = Nothing /\ wanted = {}
             \/ found \in Derivative /\ found # Nothing /\ found.paths = wanted /\ wanted # {}
<1>1. p \in DOMAIN Leaves /\ Leaves[p].requires_grad
  <2>1. p \in 1 .. NumParams + 2 /\ p # NumParams + 2
    BY TrainingAssumption DEF Params
  <2>2. p \in DOMAIN Leaves /\ Leaves[p] = Leaf(p # NumParams + 2)
    BY <2>1 DEF Leaves
  <2>3. Leaf(p # NumParams + 2).requires_grad = (p # NumParams + 2)
    BY DEF Leaf
  <2>4. QED
    BY <2>1, <2>2, <2>3, Zenon
<1>2. QED
  BY <1>1, ReversePassIsRight, NothingIsNone DEF Differentiates

(* After a backward on reset gradients, every gradient is that of the batch. *)
LEMMA AssignCarries ==
  ASSUME NEW network \in Networks \cup {Heads}, NEW what \in Nat,
         NEW old \in [Params -> Gradient \cup {Nothing}]
  PROVE  /\ Assign(old, network, what) \in [Params -> Gradient \cup {Nothing}]
         /\ \A p \in Params :
              old[p] = Nothing =>
                Carries(Assign(old, network, what)[p], ChainRule(Leaves, network)[p], what, 0)
<1> DEFINE new == Backward(Record(Leaves, network))
           given(p) == [batch |-> what, paths |-> new[p].paths, obj |-> new[p].obj, scaled |-> 0]
<1>1. Assign(old, network, what) =
        [p \in Params |-> IF new[p] = Nothing THEN old[p] ELSE given(p)]
  BY DEF Assign
<1>2. ASSUME NEW p \in Params
      PROVE  \/ new[p] = Nothing /\ ChainRule(Leaves, network)[p] = {}
             \/ /\ new[p] # Nothing /\ given(p) \in Gradient
                /\ given(p).paths = ChainRule(Leaves, network)[p]
                /\ ChainRule(Leaves, network)[p] # {}
  BY ReversePass DEF Derivative, Gradient
<1> HIDE DEF new
<1>3. QED
  BY <1>1, <1>2 DEF Carries

(* A set of parameters has a last one. *)
LEMMA LastParameter ==
  ASSUME NEW S, S \subseteq Params, S # {} PROVE Max(S) \in S
<1> DEFINE Before == OpToRel(<, Nat)
           T == {x \in Nat : NumParams - x \in S}
<1>1. IsWellFoundedOn(Before, Nat)
  BY NatLessThanWellFounded
<1>2. T \subseteq Nat /\ T # {}
  <2>1. PICK p \in S : TRUE
    OBVIOUS
  <2>2. NumParams - p \in T
    BY <2>1, TrainingAssumption DEF Params
  <2>3. QED
    BY <2>2
<1>3. \E x \in T : \A y \in T : <<y, x>> \notin Before
  <2> HIDE DEF T, Before
  <2>1. QED
    BY <1>1, <1>2, WFMin
<1>4. PICK x \in T : \A y \in T : <<y, x>> \notin Before
  BY <1>3
<1>5. ASSUME NEW y \in S PROVE NumParams - x >= y
  <2>1. NumParams - y \in T /\ y \in Nat /\ NumParams \in Nat
    BY TrainingAssumption DEF Params
  <2>2. ~(NumParams - y < x)
    BY <1>4, <2>1 DEF OpToRel
  <2>3. QED
    BY <2>1, <2>2
<1>6. NumParams - x \in S
  OBVIOUS
<1>7. QED
  BY <1>5, <1>6 DEF Max

(* Clipping scales every gradient once, also in an object that is shared.   *)
LEMMA ClipCarries ==
  ASSUME NEW old \in [Params -> Gradient \cup {Nothing}]
  PROVE  /\ ClipGradNorm(old) \in [Params -> Gradient \cup {Nothing}]
         /\ \A paths, k : \A p \in Params :
              (\A q \in Params : Carries(old[q], paths[q], k, 0)) =>
                Carries(ClipGradNorm(old)[p], paths[p], k, 1)
<1> DEFINE Writers(q) == {p \in Params : old[p] # Nothing /\ old[p].obj = old[q].obj}
           last(q) == Max(Writers(q))
<1>1. ClipGradNorm(old) =
        [q \in Params |-> IF old[q] = Nothing THEN Nothing
                          ELSE [old[q] EXCEPT !.scaled = old[last(q)].scaled + 1]]
  BY DEF ClipGradNorm
<1>2. ASSUME NEW q \in Params, old[q] # Nothing
      PROVE  last(q) \in Params /\ old[last(q)] # Nothing
  <2>1. Writers(q) \subseteq Params /\ q \in Writers(q)
    BY <1>2
  <2> HIDE DEF Writers
  <2>2. last(q) \in Writers(q)
    BY <2>1, LastParameter
  <2>3. QED
    BY <2>2 DEF Writers
<1> HIDE DEF last
<1>3. ASSUME NEW q \in Params, old[q] # Nothing
      PROVE  /\ old[q] \in Gradient /\ old[last(q)] \in Gradient
             /\ [old[q] EXCEPT !.scaled = old[last(q)].scaled + 1] \in Gradient
  BY <1>2, <1>3 DEF Gradient
<1>4. ClipGradNorm(old) \in [Params -> Gradient \cup {Nothing}]
  BY <1>1, <1>3
<1>5. ASSUME NEW paths, NEW k, \A p \in Params : Carries(old[p], paths[p], k, 0), NEW q \in Params
      PROVE  Carries(ClipGradNorm(old)[q], paths[q], k, 1)
  <2>1. CASE paths[q] = {}
    BY <1>1, <1>5, <2>1 DEF Carries
  <2>2. CASE paths[q] # {}
    <3>1. old[q] \in Gradient /\ old[q] # Nothing /\ old[q].batch = k /\ old[q].paths = paths[q]
      BY <1>5, <2>2, NothingIsNone DEF Carries
    <3>2. old[last(q)].scaled = 0
      BY <1>2, <1>5, <3>1 DEF Carries
    <3>3. ClipGradNorm(old)[q] = [old[q] EXCEPT !.scaled = 1]
      BY <1>1, <3>1, <3>2
    <3>4. QED
      BY <2>2, <3>1, <3>3 DEF Carries, Gradient
  <2>3. QED
    BY <2>1, <2>2
<1>6. QED
  BY <1>4, <1>5

(* What the optimizer applies is exactly what is due. *)
LEMMA AppliedIsDue ==
  ASSUME NEW old \in Values, NEW k \in Nat, setting.clip \in BOOLEAN,
         \A p \in Params : Undisturbed(Course, old[p], p, k),
         \A p \in Params :
           Carries(grad[p], PathsTo(Course, p, k + 1), k + 1, IF setting.clip THEN 1 ELSE 0)
  PROVE  /\ Applied(old) \in Values
         /\ \A p \in Params : Undisturbed(Course, Applied(old)[p], p, k + 1)
<1>1. ASSUME NEW p \in Params
      PROVE  /\ Applied(old)[p] \in Seq(Gradient)
             /\ Undisturbed(Course, Applied(old)[p], p, k + 1)
  <2>1. old[p] \in Seq(Gradient)
    BY DEF Values
  <2>2. CASE PathsTo(Course, p, k + 1) = {}
    <3>1. Applied(old)[p] = old[p]
      BY <2>2 DEF Carries, Applied
    <3>2. QED
      BY <2>1, <2>2, <3>1, UndisturbedSkips
  <2>3. CASE PathsTo(Course, p, k + 1) # {}
    <3> DEFINE due == Due(Course, p, k + 1)
    <3>1. /\ grad[p] \in Gradient /\ grad[p] # Nothing
          /\ grad[p].batch = k + 1 /\ grad[p].paths = PathsTo(Course, p, k + 1)
          /\ grad[p].scaled = IF setting.clip THEN 1 ELSE 0
      BY <2>3, NothingIsNone DEF Carries
    <3>2. Course.clip = setting.clip
      BY DEF Course
    <3>3. due = [grad[p] EXCEPT !.obj = Nothing]
      BY <3>1, <3>2 DEF Due, Gradient
    <3>4. due \in Gradient
      BY <3>1, <3>3 DEF Gradient
    <3>5. Applied(old)[p] = Append(old[p], due)
      BY <3>1, <3>3 DEF Applied
    <3> HIDE DEF due
    <3>6. Undisturbed(Course, Append(old[p], due), p, k + 1)
      BY <2>1, <2>3, <3>4, UndisturbedApplies DEF due
    <3>7. QED
      BY <2>1, <3>4, <3>5, <3>6
  <2>4. QED
    BY <2>2, <2>3
<1>2. DOMAIN Applied(old) = Params /\ Applied(old) = [p \in Params |-> Applied(old)[p]]
  BY DEF Applied
<1>3. QED
  BY <1>1, <1>2 DEF Values

-----------------------------------------------------------------------------
(* The invariant. *)

(* The batches that the running statistics have seen. *)
Seen(k) == [j \in 1 .. k |-> j]

Exact(values, k) == \A p \in Params : Undisturbed(Course, values[p], p, k)

Unused == [p \in Params |-> <<>>]

(* The model is exact after every call of a loop that goes on; a forward    *)
(* adds the batch at hand to the statistics.                               *)
ModelInv ==
  at \notin {"dead", "raised"} =>
    /\ Exact(data, Completed)
    /\ slots = IF HasSlots THEN data ELSE Unused
    /\ t = IF IsAdam THEN Completed ELSE 0
    /\ stats = Seen(IF at \in {"forwarded", "differentiated", "clipped"} THEN Number
                    ELSE Completed)

(* What a picture puts back. *)
KeptGrad == IF camera = Nothing THEN grad ELSE camera.grads
KeptTraining == IF camera = Nothing THEN training ELSE camera.training

(* The gradients are those of the batch at hand, or none. *)
GradInv ==
  /\ \/ at \in {"reset", "forwarded"}
     \/ at = "loop" /\ ~Loops.resets
     => \A p \in Params : KeptGrad[p] = Nothing
  /\ at = "differentiated" =>
       \A p \in Params : Carries(KeptGrad[p], PathsTo(Course, p, Number), Number, 0)
  /\ at = "clipped" =>
       \A p \in Params : Carries(KeptGrad[p], PathsTo(Course, p, Number), Number, 1)

(* Forwards on batches are in training mode. *)
ModeInv ==
  /\ at = "reset" => KeptTraining
  /\ at \in {"forwarded", "differentiated", "clipped"} => KeptTraining
  /\ at = "loop" /\ (~Loops.switches \/ batch # 0) => KeptTraining
  /\ camera # Nothing => ~training /\ setting.app = "library"

(* Where a loop can be. *)
PlaceInv ==
  /\ at \in {"reset", "forwarded", "differentiated", "clipped"} => epoch < Epochs
  /\ at \in {"evaluate", "save"} => batch = 0 /\ Loops.evaluates
  /\ at = "save" => Loops.saves = "epoch"
  /\ at = "saved" => Loops.saves = "end"
  /\ at \in {"saved", "done"} => epoch = Epochs
  /\ at = "dead" => setting.app = "train"
  /\ at = "clipped" => setting.clip

(* The checkpoint is that of the epoch it names; the one of a benchmark is  *)
(* the model that has just been trained.                                   *)
FileInv ==
  /\ file # Nothing =>
       /\ Loops.saves # "never"
       /\ Exact(file.model.data, file.epoch * Batches)
       /\ file.model.stats = Seen(file.epoch * Batches)
       /\ Loops.saves = "epoch" =>
            /\ file.optimizer # Nothing
            /\ file.optimizer.slots = file.model.data
            /\ file.optimizer.t = file.epoch * Batches
       /\ Loops.saves = "end" => file.epoch = Epochs
  /\ at \in {"saved", "done"} /\ Loops.saves = "end" => file # Nothing
  /\ at = "saved" => file.model.data = data /\ file.model.stats = stats

TrainingInv ==
  /\ StepTypeOK
  /\ ModelInv /\ GradInv /\ ModeInv /\ PlaceInv /\ FileInv
  /\ EvaluatesWhatWasTrained

-----------------------------------------------------------------------------
(* What the invariant says of the numbers. *)

LEMMA Numbers ==
  ASSUME StepTypeOK
  PROVE  /\ Epochs \in Nat \ {0} /\ Batches \in Nat \ {0}
         /\ epoch \in 0 .. Epochs /\ batch \in 0 .. Batches - 1
         /\ Completed \in 0 .. Epochs * Batches /\ Completed \in Nat /\ Number \in Nat
         /\ LoopsAre(setting)
         /\ uses[batch + 1] \in Networks
<1>1. Completed \in 0 .. Epochs * Batches
  BY NotBeyondTheEnd DEF StepTypeOK, Completed
<1>2. LoopsAre(setting)
  BY TheLoops DEF StepTypeOK
<1>3. uses[batch + 1] \in Networks
  <2>1. uses \in [1 .. Batches -> Networks] /\ batch + 1 \in 1 .. Batches
    BY TrainingAssumption DEF StepTypeOK
  <2>2. QED
    BY <2>1
<1>4. Epochs * Batches \in Nat
  BY TrainingAssumption
<1>5. Completed \in Nat /\ Number \in Nat
  BY <1>1, <1>4 DEF Number
<1>6. QED
  BY <1>1, <1>2, <1>3, <1>5, TrainingAssumption DEF StepTypeOK

LEMMA AfterEndOfBatch ==
  ASSUME StepTypeOK, epoch < Epochs, EndOfBatch
  PROVE  /\ epoch' \in 0 .. Epochs /\ batch' \in 0 .. Batches - 1
         /\ epoch' = Epochs => batch' = 0
         /\ Completed' = Number
         /\ Number \in 0 .. Epochs * Batches
<1>1. epoch \in 0 .. Epochs - 1 /\ batch \in 0 .. Batches - 1
  BY Numbers
<1>2. epoch' = epoch + ((batch + 1) \div Batches) /\ batch' = (batch + 1) % Batches
  BY DEF EndOfBatch
<1>3. /\ epoch' \in 0 .. Epochs /\ batch' \in 0 .. Batches - 1
      /\ epoch' = Epochs => batch' = 0
      /\ epoch' * Batches + batch' = epoch * Batches + batch + 1
  BY <1>1, <1>2, CountsOne
<1>4. epoch' * Batches + batch' \in 0 .. Epochs * Batches
  BY <1>3, NotBeyondTheEnd
<1>5. QED
  BY <1>3, <1>4 DEF Completed, Number

LEMMA SeenGrows ==
  ASSUME NEW k \in Nat
  PROVE  /\ Seen(k) \in Seq(Nat)
         /\ Append(Seen(k), k + 1) = Seen(k + 1)
<1>1. Seen(k) \in Seq(Nat) /\ Len(Seen(k)) = k /\ Seen(k + 1) \in Seq(Nat) /\ Len(Seen(k + 1)) = k + 1
  BY DEF Seen
<1>2. \A i \in 1 .. k + 1 : Append(Seen(k), k + 1)[i] = Seen(k + 1)[i]
  BY <1>1 DEF Seen
<1>3. Append(Seen(k), k + 1) \in Seq(Nat) /\ Len(Append(Seen(k), k + 1)) = k + 1
  BY <1>1
<1>4. QED
  BY <1>1, <1>2, <1>3, SeqEqual

(* The network of the batch at hand. *)
LEMMA PathsAtHand ==
  ASSUME StepTypeOK, NEW p \in Params
  PROVE  PathsTo(Course, p, Number) = ChainRule(Leaves, uses[batch + 1])[p]
<1>1. epoch \in Nat /\ batch \in 0 .. Batches - 1 /\ Batches \in Nat \ {0}
  BY Numbers
<1>2. (epoch * Batches + batch) % Batches = batch
  BY <1>1, BatchOfNumber
<1>3. Number - 1 = epoch * Batches + batch
  BY <1>1 DEF Number, Completed
<1>4. QED
  BY <1>2, <1>3 DEF PathsTo, Course

-----------------------------------------------------------------------------
(* Types. *)

LEMMA AppliedTyped ==
  ASSUME StepTypeOK, NEW old \in Values PROVE Applied(old) \in Values
<1>1. ASSUME NEW p \in Params PROVE Applied(old)[p] \in Seq(Gradient)
  <2>1. old[p] \in Seq(Gradient) /\ grad[p] \in Gradient \cup {Nothing}
    BY DEF Values, StepTypeOK
  <2>2. grad[p] \in Gradient => [grad[p] EXCEPT !.obj = Nothing] \in Gradient
    BY DEF Gradient
  <2>3. QED
    BY <2>1, <2>2 DEF Applied
<1>2. QED
  BY <1>1 DEF Applied, Values

LEMMA FromTheFile ==
  ASSUME StepTypeOK, file # Nothing
  PROVE  /\ file \in Checkpoint
         /\ file.epoch \in 0 .. Epochs
         /\ file.model \in Model /\ file.model.data \in Values /\ file.model.stats \in Seq(Nat)
         /\ file.optimizer \in Slots \cup {Nothing}
         /\ file.optimizer # Nothing =>
              file.optimizer.slots \in Values /\ file.optimizer.t \in Nat
<1>1. file \in Checkpoint
  BY DEF StepTypeOK
<1>2. file.model \in Model /\ file.epoch \in 0 .. Epochs /\ file.optimizer \in Slots \cup {Nothing}
  BY <1>1 DEF Checkpoint
<1>3. QED
  BY <1>1, <1>2 DEF Model, Slots

LEMMA FromTheCamera ==
  ASSUME StepTypeOK, camera # Nothing
  PROVE  camera \in Camera /\ camera.grads \in [Params -> Gradient \cup {Nothing}]
         /\ camera.training \in BOOLEAN
BY DEF StepTypeOK, Camera

LEMMA SavedTyped ==
  ASSUME StepTypeOK, SaveCheckpoint
  PROVE  /\ OptimizerState = [slots |-> slots, t |-> t] /\ OptimizerState \in Slots
         /\ file' \in Checkpoint
<1>1. slots \in Values /\ t \in Nat /\ data \in Values /\ stats \in Seq(Nat) /\ epoch \in 0 .. Epochs
  BY TrainingAssumption DEF StepTypeOK
<1>2. [p \in Params |-> slots[p]] = slots
  BY <1>1 DEF Values
<1>3. OptimizerState = [slots |-> slots, t |-> t]
  BY <1>2 DEF OptimizerState
<1>4. StateDict \in Model /\ OptimizerState \in Slots
  BY <1>1, <1>3 DEF StateDict, Model, Slots
<1>5. QED
  BY <1>1, <1>3, <1>4 DEF SaveCheckpoint, Checkpoint

LEMMA TypesAtFirst ==
  ASSUME Init PROVE StepTypeOK
<1>1. Epochs \in Nat \ {0} /\ Batches \in Nat \ {0} /\ Epochs * Batches \in Nat /\ MaxDeaths \in Nat
  BY TrainingAssumption
<1>2. Unused \in Values
  BY DEF Unused, Values
<1>3. QED
  BY <1>1, <1>2 DEF Init, StepTypeOK, Labels, Unused

NothingIn == [p \in Params |-> Nothing]

LEMMA TypesKept ==
  ASSUME TrainingInv, Next PROVE StepTypeOK'
<1> USE DEF loopVars, modelVars, optimizerVars, outVars, Goto, Labels
<1>1. StepTypeOK /\ LoopsAre(setting) /\ Number \in Nat /\ uses[batch + 1] \in Networks
  BY Numbers DEF TrainingInv
<1>2. NothingIn \in [Params -> Gradient \cup {Nothing}]
  BY DEF NothingIn
<1>3. CASE ResetGrad
  <2>1. grad' \in [Params -> Gradient \cup {Nothing}]
    BY <1>1, <1>2, <1>3 DEF ResetGrad, StepTypeOK, NothingIn
  <2>2. training' \in BOOLEAN
    BY <1>1, <1>3 DEF ResetGrad, Mode, StepTypeOK
  <2>3. QED
    BY <1>1, <1>3, <2>1, <2>2 DEF ResetGrad, StepTypeOK
<1>4. CASE ForwardPass
  <2>1. stats' \in Seq(Nat)
    BY <1>1, <1>4 DEF ForwardPass, Forward, StepTypeOK
  <2>2. QED
    BY <1>1, <1>4, <2>1 DEF ForwardPass, StepTypeOK
<1>5. CASE BackwardPass
  <2>1. grad' \in [Params -> Gradient \cup {Nothing}]
    BY <1>1, <1>5, AssignCarries DEF BackwardPass, StepTypeOK
  <2>2. QED
    BY <1>1, <1>5, <2>1 DEF BackwardPass, StepTypeOK
<1>6. CASE Clip
  <2>1. grad' \in [Params -> Gradient \cup {Nothing}]
    BY <1>1, <1>6, ClipCarries DEF Clip, StepTypeOK
  <2>2. QED
    BY <1>1, <1>6, <2>1 DEF Clip, StepTypeOK
<1>7. CASE Step \/ Push
  <2>1. epoch < Epochs
    BY <1>1, <1>7 DEF TrainingInv, PlaceInv, Step, Push
  <2>2. EndOfBatch
    BY <1>7 DEF Step, Push
  <2>3. /\ data' \in Values /\ slots' \in Values
        /\ t' = t \/ (IsAdam /\ t' = t + 1)
        /\ grad' = grad \/ grad' = NothingIn
    BY <1>1, <1>7, AppliedTyped, TheLoops DEF Step, Push, StepTypeOK, NothingIn, IsWorker, LoopsAre, IsAdam
  <2>4. t' \in 0 .. Epochs * Batches
    <3>1. t = IF IsAdam THEN Completed ELSE 0
      BY <1>7 DEF TrainingInv, ModelInv, Step, Push
    <3>2. Number \in 0 .. Epochs * Batches
      BY <1>1, <2>1, <2>2, AfterEndOfBatch
    <3>3. QED
      BY <1>1, <2>3, <3>1, <3>2 DEF Number, StepTypeOK
  <2>5. at' \in Labels
    BY <1>7 DEF Step, Push
  <2>6. QED
    BY <1>1, <1>2, <1>7, <2>1, <2>2, <2>3, <2>4, <2>5, AfterEndOfBatch DEF Step, Push, StepTypeOK
<1>8. CASE ClipFails \/ PushFails \/ Finish \/ Over
  BY <1>1, <1>8 DEF ClipFails, PushFails, Finish, Over, StepTypeOK, vars
<1>9. CASE Evaluate
  <2>1. score' \in Score /\ stats' = stats
    BY <1>1, <1>9 DEF Evaluate, Evaluation, Forward, Score, StepTypeOK
  <2>2. QED
    BY <1>1, <1>9, <2>1 DEF Evaluate, StepTypeOK
<1>10. CASE SaveCheckpoint
  BY <1>1, <1>10, SavedTyped DEF SaveCheckpoint, StepTypeOK
<1>11. CASE EvaluateBenchmark
  <2>1. file # Nothing
    BY <1>11 DEF TrainingInv, FileInv, PlaceInv, EvaluateBenchmark
  <2>2. data' \in Values /\ stats' \in Seq(Nat) /\ score' \in Score
    BY <1>1, <1>11, <2>1, FromTheFile DEF EvaluateBenchmark, LoadStateDict, Evaluation, Forward, Score
  <2>3. QED
    BY <1>1, <1>2, <1>11, <2>2 DEF EvaluateBenchmark, StepTypeOK, NothingIn
<1>12. CASE EvaluateCheckpoint
  <2>1. score' \in Score
    BY <1>1, <1>12, FromTheFile DEF EvaluateCheckpoint, Evaluation, Forward, Score
  <2>2. QED
    BY <1>1, <1>12, <2>1 DEF EvaluateCheckpoint, StepTypeOK
<1>13. CASE Die
  BY <1>1, <1>13, TrainingAssumption DEF Die, StepTypeOK
<1>14. CASE StartAgain
  <2>1. data' \in Values /\ slots' \in Values
    BY <1>14 DEF StartAgain, Values
  <2>2. t' \in 0 .. Epochs * Batches /\ epoch' \in 0 .. Epochs /\ batch' \in 0 .. Batches - 1
    BY <1>1, <1>14, TrainingAssumption DEF StartAgain, Fresh
  <2>3. QED
    BY <1>1, <1>2, <1>14, <2>1, <2>2 DEF StartAgain, Fresh, StepTypeOK, NothingIn
<1>15. CASE Resume
  <2>1. /\ Loops.saves = "epoch" /\ file # Nothing
        /\ file.optimizer # Nothing /\ file.optimizer.t = file.epoch * Batches
    BY <1>1, <1>15 DEF Resume, TrainingInv, PlaceInv, FileInv, LoopsAre, Loops
  <2>2. file.epoch \in 0 .. Epochs /\ data' \in Values /\ stats' \in Seq(Nat) /\ slots' \in Values
    BY <1>1, <1>15, <2>1, FromTheFile DEF Resume, LoadStateDict, LoadOptimizer, Values
  <2>3. t' \in 0 .. Epochs * Batches
    <3>1. file.epoch * Batches + 0 \in 0 .. Epochs * Batches
      BY <2>2, TrainingAssumption, NotBeyondTheEnd
    <3>2. t' = file.epoch * Batches /\ file.epoch * Batches \in Int
      BY <1>15, <2>1, <2>2, TrainingAssumption DEF Resume, LoadOptimizer
    <3>3. QED
      BY <3>1, <3>2
  <2>4. epoch' \in 0 .. Epochs /\ batch' = 0 /\ batch' \in 0 .. Batches - 1
    BY <1>1, <1>15, <2>2, TrainingAssumption DEF Resume, Fresh
  <2>5. QED
    BY <1>1, <1>2, <1>15, <2>2, <2>3, <2>4 DEF Resume, Fresh, StepTypeOK, NothingIn
<1>16. CASE RefuseToResume
  <2>1. file # Nothing
    BY <1>16 DEF TrainingInv, FileInv, RefuseToResume
  <2>2. data' \in Values /\ stats' \in Seq(Nat) /\ batch' \in 0 .. Batches - 1 /\ batch' = 0
    BY <1>1, <1>16, <2>1, FromTheFile, TrainingAssumption DEF RefuseToResume, LoadStateDict, Fresh
  <2>3. QED
    BY <1>1, <1>2, <1>16, <2>2 DEF RefuseToResume, Fresh, StepTypeOK, NothingIn
<1>17. CASE Photograph
  <2>1. camera' \in Camera
    BY <1>1, <1>17 DEF Photograph, Camera, StepTypeOK
  <2>2. QED
    BY <1>1, <1>17, <2>1 DEF Photograph, StepTypeOK
<1>18. CASE Features
  <2>1. camera' \in Camera /\ stats' = stats
    BY <1>1, <1>18, FromTheCamera DEF Features, Forward, Camera, TrainingInv, ModeInv
  <2>2. QED
    BY <1>1, <1>18, <2>1 DEF Features, StepTypeOK
<1>19. CASE HeadsBackward
  <2>1. camera' \in Camera
    BY <1>1, <1>19, FromTheCamera DEF HeadsBackward, Camera
  <2>2. grad' \in [Params -> Gradient \cup {Nothing}]
    BY <1>1, <1>19, AssignCarries DEF HeadsBackward, StepTypeOK
  <2>3. QED
    BY <1>1, <1>19, <2>1, <2>2 DEF HeadsBackward, StepTypeOK
<1>20. CASE Restore
  BY <1>1, <1>20, FromTheCamera DEF Restore, StepTypeOK
<1>21. QED
  BY <1>3, <1>4, <1>5, <1>6, <1>7, <1>8, <1>9, <1>10, <1>11, <1>12, <1>13, <1>14, <1>15, <1>16,
     <1>17, <1>18, <1>19, <1>20 DEF Next

-----------------------------------------------------------------------------
(* Where the loop is, and the mode it is in. *)

LEMMA CourseKept ==
  ASSUME Next
  PROVE  /\ uses' = uses /\ setting' = setting
         /\ Course' = Course /\ Loops' = Loops /\ IsAdam' = IsAdam /\ HasSlots' = HasSlots
<1>1. uses' = uses /\ setting' = setting
  BY DEF Next, ResetGrad, ForwardPass, BackwardPass, Clip, ClipFails, Step, Push, PushFails,
         Evaluate, SaveCheckpoint, Finish, EvaluateBenchmark, EvaluateCheckpoint, Die,
         StartAgain, Resume, RefuseToResume, Photograph, Features, HeadsBackward, Restore, Over,
         vars, loopVars
<1>2. QED
  BY <1>1 DEF Course, Loops, IsAdam, HasSlots

LEMMA PlaceKept ==
  ASSUME TrainingInv, Next PROVE PlaceInv'
<1> USE DEF PlaceInv, loopVars, Goto
<1>1. StepTypeOK /\ LoopsAre(setting) /\ PlaceInv /\ setting' = setting /\ Loops' = Loops
  BY Numbers, CourseKept DEF TrainingInv
<1>2. epoch \in 0 .. Epochs /\ Epochs \in Nat
  BY <1>1, Numbers
<1>3. CASE ResetGrad
  BY <1>1, <1>2, <1>3 DEF ResetGrad
<1>4. CASE ForwardPass \/ BackwardPass \/ Clip \/ ClipFails \/ PushFails
  BY <1>1, <1>4 DEF ForwardPass, BackwardPass, Clip, ClipFails, PushFails
<1>5. CASE Step \/ Push
  BY <1>1, <1>5 DEF Step, Push
<1>6. CASE Evaluate
  BY <1>1, <1>6 DEF Evaluate
<1>7. CASE SaveCheckpoint
  BY <1>1, <1>2, <1>7 DEF SaveCheckpoint, LoopsAre, Loops
<1>8. CASE Finish
  BY <1>1, <1>8 DEF Finish
<1>9. CASE EvaluateBenchmark
  BY <1>1, <1>9 DEF EvaluateBenchmark
<1>10. CASE Die \/ StartAgain \/ Resume \/ RefuseToResume
  BY <1>1, <1>10 DEF Die, StartAgain, Resume, RefuseToResume
<1>11. CASE EvaluateCheckpoint \/ Photograph \/ Features \/ HeadsBackward \/ Restore \/ Over
  BY <1>1, <1>11 DEF EvaluateCheckpoint, Photograph, Features, HeadsBackward, Restore, Over, vars
<1>12. QED
  BY <1>3, <1>4, <1>5, <1>6, <1>7, <1>8, <1>9, <1>10, <1>11 DEF Next

LEMMA ModeKept ==
  ASSUME TrainingInv, Next PROVE ModeInv'
<1> USE DEF ModeInv, KeptTraining, loopVars, Goto
<1>1. StepTypeOK /\ LoopsAre(setting) /\ ModeInv /\ setting' = setting /\ Loops' = Loops
  BY Numbers, CourseKept DEF TrainingInv
<1>2. training \in BOOLEAN
  BY <1>1 DEF StepTypeOK
<1>3. CASE ResetGrad
  BY <1>1, <1>2, <1>3 DEF ResetGrad, Mode
<1>4. CASE ForwardPass \/ BackwardPass \/ Clip \/ ClipFails
  BY <1>1, <1>4 DEF ForwardPass, BackwardPass, Clip, ClipFails
<1>5. CASE PushFails
  BY <1>1, <1>5 DEF PushFails
<1>6. CASE Step \/ Push
  BY <1>1, <1>6 DEF Step, Push
<1>7. CASE Evaluate
  <2>1. batch' = 0 /\ Loops.switches
    BY <1>1, <1>7 DEF Evaluate, TrainingInv, PlaceInv, LoopsAre, Loops
  <2>2. QED
    BY <1>1, <1>7, <2>1 DEF Evaluate
<1>8. CASE SaveCheckpoint
  <2>1. at = "save" => batch' = 0 /\ Loops.switches
    BY <1>1, <1>8 DEF SaveCheckpoint, TrainingInv, PlaceInv, LoopsAre, Loops
  <2>2. QED
    BY <1>1, <1>8, <2>1 DEF SaveCheckpoint
<1>9. CASE Finish \/ Over
  BY <1>1, <1>9 DEF Finish, Over, vars
<1>10. CASE EvaluateBenchmark \/ RefuseToResume
  <2>1. setting.app # "library" /\ camera = Nothing
    BY <1>1, <1>10 DEF EvaluateBenchmark, RefuseToResume, TrainingInv, PlaceInv, LoopsAre, Loops
  <2>2. QED
    BY <1>1, <1>10, <2>1 DEF EvaluateBenchmark, RefuseToResume
<1>11. CASE StartAgain \/ Resume \/ Die
  <2>1. setting.app # "library" /\ camera = Nothing
    BY <1>1, <1>11 DEF StartAgain, Resume, Die, TrainingInv, PlaceInv
  <2>2. QED
    BY <1>1, <1>11, <2>1 DEF StartAgain, Resume, Die, Fresh
<1>12. CASE EvaluateCheckpoint
  BY <1>1, <1>12 DEF EvaluateCheckpoint
<1>13. CASE Photograph
  <2>1. camera' \in Camera /\ camera' # Nothing /\ camera'.training = training
    BY <1>1, <1>13, NothingIsNone DEF Photograph, Camera, StepTypeOK
  <2>2. QED
    BY <1>1, <1>13, <2>1 DEF Photograph
<1>14. CASE Features \/ HeadsBackward
  <2>1. camera \in Camera /\ camera # Nothing
    BY <1>1, <1>14, FromTheCamera DEF Features, HeadsBackward
  <2>2. camera' \in Camera /\ camera' # Nothing /\ camera'.training = camera.training
    BY <1>14, <2>1, NothingIsNone DEF Features, HeadsBackward, Camera
  <2>3. QED
    BY <1>1, <1>14, <2>1, <2>2 DEF Features, HeadsBackward
<1>15. CASE Restore
  BY <1>1, <1>15, FromTheCamera DEF Restore
<1>16. QED
  BY <1>3, <1>4, <1>5, <1>6, <1>7, <1>8, <1>9, <1>10, <1>11, <1>12, <1>13, <1>14, <1>15 DEF Next

-----------------------------------------------------------------------------
(* Gradients. *)

LEMMA GradKept ==
  ASSUME TrainingInv, Next PROVE GradInv'
<1> USE DEF GradInv, KeptGrad, loopVars, Goto
<1>1. /\ StepTypeOK /\ LoopsAre(setting) /\ GradInv /\ setting' = setting /\ Loops' = Loops
      /\ Course' = Course
  BY Numbers, CourseKept DEF TrainingInv
<1>2. CASE ResetGrad
  BY <1>1, <1>2 DEF ResetGrad
<1>3. CASE ForwardPass
  BY <1>1, <1>3 DEF ForwardPass
<1>4. CASE BackwardPass
  <2>1. uses[batch + 1] \in Networks /\ Number \in Nat
    BY <1>1, Numbers
  <2>2. \A p \in Params : Carries(grad'[p], ChainRule(Leaves, uses[batch + 1])[p], Number, 0)
    BY <1>1, <1>4, <2>1, AssignCarries DEF BackwardPass, StepTypeOK
  <2>3. \A p \in Params : Carries(grad'[p], PathsTo(Course, p, Number), Number, 0)
    BY <1>1, <2>2, PathsAtHand
  <2>4. Number' = Number /\ camera' = Nothing /\ at' = "differentiated"
    BY <1>4 DEF BackwardPass, Number, Completed
  <2>5. QED
    BY <1>1, <2>3, <2>4
<1>5. CASE Clip
  <2> DEFINE paths == [p \in Params |-> PathsTo(Course, p, Number)]
  <2>1. \A p \in Params : Carries(grad[p], paths[p], Number, 0)
    BY <1>1, <1>5 DEF Clip
  <2>2. grad \in [Params -> Gradient \cup {Nothing}]
    BY <1>1 DEF StepTypeOK
  <2> HIDE DEF paths
  <2>3. \A p \in Params : Carries(grad'[p], paths[p], Number, 1)
    BY <1>5, <2>1, <2>2, ClipCarries DEF Clip
  <2>4. Number' = Number /\ camera' = Nothing /\ at' = "clipped"
    BY <1>5 DEF Clip, Number, Completed
  <2>5. QED
    BY <1>1, <2>3, <2>4 DEF paths
<1>6. CASE ClipFails \/ PushFails
  BY <1>6 DEF ClipFails, PushFails
<1>7. CASE Step
  <2>1. Loops.resets /\ at' \notin {"reset", "forwarded", "differentiated", "clipped"}
    BY <1>1, <1>7 DEF Step, LoopsAre, Loops, IsWorker
  <2>2. QED
    BY <1>1, <2>1
<1>8. CASE Push
  <2>1. camera = Nothing /\ camera' = Nothing
    BY <1>1, <1>8 DEF Push, IsWorker, TrainingInv, ModeInv
  <2>2. QED
    BY <1>8, <2>1 DEF Push
<1>9. CASE Evaluate
  <2>1. Loops.resets
    BY <1>1, <1>9 DEF Evaluate, TrainingInv, PlaceInv, LoopsAre, Loops
  <2>2. QED
    BY <1>1, <1>9, <2>1 DEF Evaluate
<1>10. CASE SaveCheckpoint
  <2>1. at' = "saved" \/ (Loops.resets /\ at' = "loop")
    BY <1>1, <1>10 DEF SaveCheckpoint, TrainingInv, PlaceInv, LoopsAre, Loops
  <2>2. QED
    BY <1>1, <2>1
<1>11. CASE Finish \/ EvaluateBenchmark \/ Die \/ RefuseToResume
  BY <1>11 DEF Finish, EvaluateBenchmark, Die, RefuseToResume
<1>12. CASE StartAgain \/ Resume
  <2>1. Loops.resets /\ at' = "loop"
    BY <1>1, <1>12 DEF StartAgain, Resume, TrainingInv, PlaceInv, LoopsAre, Loops
  <2>2. QED
    BY <1>1, <2>1
<1>13. CASE EvaluateCheckpoint \/ Over
  BY <1>1, <1>13 DEF EvaluateCheckpoint, Over, vars, Number, Completed
<1>14. CASE Photograph \/ Features \/ HeadsBackward \/ Restore
  <2>1. at' = at /\ Number' = Number
    BY <1>14 DEF Photograph, Features, HeadsBackward, Restore, Number, Completed
  <2>2. KeptGrad' = KeptGrad
    <3>1. CASE Photograph
      <4>1. camera' \in Camera /\ camera' # Nothing /\ camera'.grads = grad
        BY <1>1, <3>1, NothingIsNone DEF Photograph, Camera, StepTypeOK
      <4>2. QED
        BY <3>1, <4>1 DEF Photograph
    <3>2. CASE Features \/ HeadsBackward
      <4>1. camera \in Camera /\ camera # Nothing
        BY <1>1, <3>2, FromTheCamera DEF Features, HeadsBackward
      <4>2. camera' \in Camera /\ camera' # Nothing /\ camera'.grads = camera.grads
        BY <3>2, <4>1, NothingIsNone DEF Features, HeadsBackward, Camera
      <4>3. QED
        BY <4>1, <4>2
    <3>3. CASE Restore
      BY <3>3 DEF Restore
    <3>4. QED
      BY <1>14, <3>1, <3>2, <3>3
  <2> HIDE DEF KeptGrad
  <2>3. QED
    BY <1>1, <2>1, <2>2
<1>15. QED
  BY <1>2, <1>3, <1>4, <1>5, <1>6, <1>7, <1>8, <1>9, <1>10, <1>11, <1>12, <1>13, <1>14 DEF Next

-----------------------------------------------------------------------------
(* The model, its checkpoints and its metrics. *)

(* The gradients at hand are due: clipped once if clipping is on. *)
LEMMA GradientsAreDue ==
  ASSUME TrainingInv, camera = Nothing,
         at = "clipped" \/ (at = "differentiated" /\ ~setting.clip)
  PROVE  \A p \in Params :
           Carries(grad[p], PathsTo(Course, p, Number), Number, IF setting.clip THEN 1 ELSE 0)
BY DEF TrainingInv, GradInv, KeptGrad, PlaceInv

LEMMA ModelKept ==
  ASSUME TrainingInv, Next PROVE ModelInv'
<1> USE DEF loopVars, modelVars, optimizerVars, outVars, Goto
<1>1. /\ StepTypeOK /\ LoopsAre(setting) /\ ModelInv /\ Completed \in Nat
      /\ setting' = setting /\ Course' = Course /\ IsAdam' = IsAdam /\ HasSlots' = HasSlots
      /\ Loops' = Loops
  BY Numbers, CourseKept DEF TrainingInv
<1>2. Number = Completed + 1
  BY DEF Number
<1>3. CASE ResetGrad \/ BackwardPass \/ Clip \/ Finish
  BY <1>1, <1>3 DEF ModelInv, Exact, ResetGrad, BackwardPass, Clip, Finish, Number, Completed
<1>4. CASE ForwardPass
  <2>1. training
    BY <1>1, <1>4 DEF TrainingInv, ModeInv, KeptTraining, ForwardPass
  <2>2. stats' = Append(Seen(Completed), Completed + 1)
    BY <1>1, <1>2, <1>4, <2>1 DEF ForwardPass, Forward, ModelInv
  <2>3. stats' = Seen(Number) /\ Number' = Number /\ Completed' = Completed
    BY <1>1, <1>2, <1>4, <2>2, SeenGrows DEF ForwardPass, Number, Completed
  <2>4. QED
    BY <1>1, <1>4, <2>3 DEF ModelInv, Exact, ForwardPass
<1>5. CASE Step \/ Push
  <2>1. camera = Nothing
    BY <1>1, <1>5 DEF TrainingInv, ModeInv, Step, Push, IsWorker
  <2>2. setting.clip \in BOOLEAN
    BY <1>1 DEF LoopsAre
  <2>3. at = "clipped" \/ (at = "differentiated" /\ ~setting.clip)
    BY <1>1, <1>5, <2>2 DEF Step, Push, LoopsAre, IsWorker
  <2>4. \A p \in Params :
          Carries(grad[p], PathsTo(Course, p, Completed + 1), Completed + 1,
                  IF setting.clip THEN 1 ELSE 0)
    BY <1>2, <2>1, <2>3, GradientsAreDue
  <2>5. data \in Values /\ Exact(data, Completed)
    BY <1>1, <2>3 DEF ModelInv, StepTypeOK
  <2>6. \A p \in Params : Undisturbed(Course, Applied(data)[p], p, Number)
    BY <1>1, <1>2, <2>2, <2>4, <2>5, AppliedIsDue DEF Exact
  <2>7. Completed' = Number
    BY <1>1, <1>5, <2>3, AfterEndOfBatch DEF Step, Push, TrainingInv, PlaceInv
  <2>8. /\ data' = Applied(data)
        /\ slots' = IF HasSlots THEN Applied(data) ELSE Unused
        /\ t' = IF IsAdam THEN Number ELSE 0
    <3>1. slots = (IF HasSlots THEN data ELSE Unused) /\ t = IF IsAdam THEN Completed ELSE 0
      BY <2>3, <1>1 DEF ModelInv
    <3>2. IsWorker => IsAdam
      BY <1>1 DEF IsWorker, IsAdam, LoopsAre
    <3>3. QED
      BY <1>2, <1>5, <3>1, <3>2 DEF Step, Push, HasSlots
  <2>9. stats' = Seen(Number) /\ at' \notin {"forwarded", "differentiated", "clipped"}
    BY <1>1, <1>5, <2>3 DEF Step, Push, ModelInv
  <2>10. QED
    BY <1>1, <2>6, <2>7, <2>8, <2>9 DEF ModelInv, Exact
<1>6. CASE ClipFails \/ PushFails \/ Die \/ RefuseToResume
  BY <1>6 DEF ModelInv, ClipFails, PushFails, Die, RefuseToResume
<1>7. CASE Evaluate
  <2>1. stats' = stats
    BY <1>7 DEF Evaluate, Forward
  <2>2. QED
    BY <1>1, <1>7, <2>1 DEF ModelInv, Exact, Evaluate, Number, Completed
<1>8. CASE SaveCheckpoint
  BY <1>1, <1>8 DEF ModelInv, Exact, SaveCheckpoint, Number, Completed
<1>9. CASE EvaluateBenchmark
  <2>1. data' = data /\ stats' = stats
    BY <1>9 DEF EvaluateBenchmark, LoadStateDict, TrainingInv, FileInv
  <2>2. QED
    BY <1>1, <1>9, <2>1 DEF ModelInv, Exact, EvaluateBenchmark, Number, Completed
<1>10. CASE StartAgain
  <2>1. Completed' = 0 /\ at' = "loop" /\ t' = 0
    BY <1>10, TrainingAssumption DEF StartAgain, Fresh, Completed
  <2>2. data' = Unused /\ slots' = Unused /\ stats' = <<>>
    BY <1>10 DEF StartAgain, Unused
  <2>3. stats' = Seen(0)
    BY <2>2 DEF Seen
  <2>4. \A p \in Params : Unused[p] = <<>>
    BY DEF Unused
  <2>5. QED
    BY <1>1, <2>1, <2>2, <2>3, <2>4, UndisturbedAtFirst DEF ModelInv, Exact
<1>11. CASE Resume
  <2>1. Loops.saves = "epoch" /\ IsAdam /\ HasSlots /\ file # Nothing
    BY <1>1, <1>11 DEF Resume, TrainingInv, PlaceInv, LoopsAre, Loops, IsAdam, HasSlots
  <2>2. /\ Exact(file.model.data, file.epoch * Batches)
        /\ file.model.stats = Seen(file.epoch * Batches)
        /\ file.optimizer.slots = file.model.data
        /\ file.optimizer.t = file.epoch * Batches
        /\ file.model.data \in Values /\ file.epoch \in 0 .. Epochs
    BY <1>1, <2>1, FromTheFile DEF TrainingInv, FileInv
  <2>3. Completed' = file.epoch * Batches /\ at' = "loop"
    BY <1>1, <1>11, <2>2, TrainingAssumption DEF Resume, Fresh, Completed
  <2>4. data' = file.model.data /\ stats' = file.model.stats /\ t' = file.optimizer.t
    BY <1>11 DEF Resume, LoadStateDict, LoadOptimizer
  <2>5. slots' = file.model.data
    BY <1>11, <2>2 DEF Resume, LoadOptimizer, Values
  <2>6. QED
    BY <1>1, <2>1, <2>2, <2>3, <2>4, <2>5 DEF ModelInv, Exact
<1>12. CASE EvaluateCheckpoint \/ Photograph \/ HeadsBackward \/ Restore \/ Over
  BY <1>1, <1>12 DEF ModelInv, Exact, EvaluateCheckpoint, Photograph, HeadsBackward, Restore,
                     Over, vars, Number, Completed
<1>13. CASE Features
  <2>1. stats' = stats
    BY <1>13 DEF Features, Forward, TrainingInv, ModeInv
  <2>2. QED
    BY <1>1, <1>13, <2>1 DEF ModelInv, Exact, Features, Number, Completed
<1>14. QED
  BY <1>3, <1>4, <1>5, <1>6, <1>7, <1>8, <1>9, <1>10, <1>11, <1>12, <1>13 DEF Next

LEMMA FileKept ==
  ASSUME TrainingInv, Next PROVE FileInv'
<1> USE DEF loopVars, modelVars, optimizerVars, outVars, Goto
<1>1. /\ StepTypeOK /\ LoopsAre(setting) /\ FileInv /\ PlaceInv /\ ModelInv
      /\ setting' = setting /\ Course' = Course /\ Loops' = Loops
  BY Numbers, CourseKept DEF TrainingInv
<1>2. CASE SaveCheckpoint
  <2>1. /\ batch = 0 /\ Completed = epoch * Batches
        /\ at = "save" => Loops.saves = "epoch"
        /\ at # "save" => Loops.saves = "end" /\ epoch = Epochs
    BY <1>1, <1>2, TrainingAssumption DEF SaveCheckpoint, PlaceInv, StepTypeOK, Completed
  <2>2. /\ Exact(data, epoch * Batches) /\ stats = Seen(epoch * Batches)
        /\ slots = (IF HasSlots THEN data ELSE Unused)
        /\ t = IF IsAdam THEN epoch * Batches ELSE 0
    BY <1>1, <1>2, <2>1 DEF SaveCheckpoint, ModelInv
  <2>3. /\ file' # Nothing
        /\ file'.epoch = epoch /\ file'.model.data = data /\ file'.model.stats = stats
        /\ file'.optimizer = (IF at = "save" THEN OptimizerState ELSE Nothing)
        /\ data' = data /\ stats' = stats
    BY <1>1, <1>2, SavedTyped, NothingIsNone DEF SaveCheckpoint, StateDict
  <2>4. /\ OptimizerState # Nothing
        /\ OptimizerState.slots = slots /\ OptimizerState.t = t
    BY <1>1, <1>2, SavedTyped, NothingIsNone
  <2>5. Loops.saves = "epoch" => IsAdam /\ HasSlots
    BY <1>1 DEF LoopsAre, Loops, IsAdam, HasSlots
  <2>6. at' = (IF at = "save" THEN "loop" ELSE "saved") /\ at \in {"save", "loop"}
    BY <1>2 DEF SaveCheckpoint
  <2>7. QED
    BY <1>1, <2>1, <2>2, <2>3, <2>4, <2>5, <2>6 DEF FileInv, Exact
<1>3. CASE ResetGrad \/ ForwardPass \/ BackwardPass \/ Clip \/ ClipFails \/ Step
  BY <1>1, <1>3 DEF FileInv, Exact, ResetGrad, ForwardPass, BackwardPass, Clip, ClipFails, Step
<1>4. CASE Push \/ PushFails \/ Evaluate \/ Die \/ StartAgain \/ Resume \/ RefuseToResume
  BY <1>1, <1>4 DEF FileInv, Exact, Push, PushFails, Evaluate, Die, StartAgain, Resume,
                    RefuseToResume
<1>5. CASE Finish
  BY <1>1, <1>5 DEF FileInv, Exact, Finish
<1>6. CASE EvaluateBenchmark
  BY <1>1, <1>6 DEF FileInv, Exact, EvaluateBenchmark
<1>7. CASE EvaluateCheckpoint \/ Photograph \/ HeadsBackward \/ Restore \/ Over
  BY <1>1, <1>7 DEF FileInv, Exact, EvaluateCheckpoint, Photograph, HeadsBackward, Restore,
                    Over, vars
<1>8. CASE Features
  <2>1. stats' = stats
    BY <1>8 DEF Features, Forward, TrainingInv, ModeInv
  <2>2. QED
    BY <1>1, <1>8, <2>1 DEF FileInv, Exact, Features
<1>9. QED
  BY <1>2, <1>3, <1>4, <1>5, <1>6, <1>7, <1>8 DEF Next

LEMMA ScoreKept ==
  ASSUME TrainingInv, Next PROVE EvaluatesWhatWasTrained'
<1> USE DEF loopVars, modelVars, optimizerVars, outVars, Goto
<1>1. /\ StepTypeOK /\ EvaluatesWhatWasTrained /\ FileInv /\ PlaceInv /\ ModelInv
      /\ Course' = Course
  BY CourseKept DEF TrainingInv
<1>2. CASE Evaluate
  <2>1. batch = 0 /\ Completed = epoch * Batches
    BY <1>1, <1>2, TrainingAssumption DEF Evaluate, PlaceInv, StepTypeOK, Completed
  <2>2. Exact(data, epoch * Batches) /\ stats = Seen(epoch * Batches)
    BY <1>1, <1>2, <2>1 DEF Evaluate, ModelInv
  <2>3. score'.data = data /\ score'.stats = stats /\ score'.epoch = epoch
    BY <1>2 DEF Evaluate, Evaluation, Forward
  <2>4. QED
    BY <1>1, <2>2, <2>3 DEF EvaluatesWhatWasTrained, Exact, Seen
<1>3. CASE EvaluateBenchmark \/ EvaluateCheckpoint
  <2>1. file # Nothing
    BY <1>1, <1>3 DEF EvaluateBenchmark, EvaluateCheckpoint, FileInv, PlaceInv
  <2>2. Exact(file.model.data, file.epoch * Batches) /\ file.model.stats = Seen(file.epoch * Batches)
    BY <1>1, <2>1 DEF FileInv
  <2>3. /\ score'.data = file.model.data /\ score'.stats = file.model.stats
        /\ score'.epoch = file.epoch
    BY <1>3 DEF EvaluateBenchmark, EvaluateCheckpoint, LoadStateDict, Evaluation, Forward
  <2>4. QED
    BY <1>1, <2>2, <2>3 DEF EvaluatesWhatWasTrained, Exact, Seen
<1>4. CASE UNCHANGED score
  BY <1>1, <1>4 DEF EvaluatesWhatWasTrained
<1>5. QED
  BY <1>2, <1>3, <1>4 DEF Next, ResetGrad, ForwardPass, BackwardPass, Clip, ClipFails, Step, Push,
     PushFails, SaveCheckpoint, Finish, Die, StartAgain, Resume, RefuseToResume, Photograph,
     Features, HeadsBackward, Restore, Over, vars

-----------------------------------------------------------------------------
(* The theorems. *)

LEMMA InvAtFirst ==
  ASSUME Init PROVE TrainingInv
<1> USE DEF Init
<1>1. StepTypeOK
  BY TypesAtFirst
<1>2. Completed = 0 /\ Seen(0) = <<>> /\ Unused \in Values
  BY TrainingAssumption DEF Completed, Seen, Unused, Values
<1>3. data = Unused /\ slots = Unused /\ \A p \in Params : Unused[p] = <<>>
  BY DEF Unused
<1>4. ModelInv
  BY <1>2, <1>3, UndisturbedAtFirst DEF ModelInv, Exact
<1>5. GradInv /\ ModeInv /\ PlaceInv /\ FileInv /\ EvaluatesWhatWasTrained
  BY DEF GradInv, KeptGrad, ModeInv, KeptTraining, PlaceInv, FileInv, EvaluatesWhatWasTrained
<1>6. QED
  BY <1>1, <1>4, <1>5 DEF TrainingInv

LEMMA InvKept ==
  ASSUME TrainingInv, [Next]_vars PROVE TrainingInv'
<1>1. CASE Next
  BY <1>1, TypesKept, ModelKept, GradKept, ModeKept, PlaceKept, FileKept, ScoreKept
     DEF TrainingInv
<1>2. CASE UNCHANGED vars
  BY <1>2 DEF TrainingInv, StepTypeOK, ModelInv, GradInv, KeptGrad, ModeInv, KeptTraining,
     PlaceInv, FileInv, EvaluatesWhatWasTrained, Exact, Course, Loops, IsAdam, HasSlots,
     Number, Completed, vars
<1>3. QED
  BY <1>1, <1>2

LEMMA InvHolds == Spec => []TrainingInv
BY InvAtFirst, InvKept, PTL DEF Spec

LEMMA InvIsEnough ==
  ASSUME TrainingInv PROVE StepTypeOK /\ TrainsExactly /\ EvaluatesWhatWasTrained
<1>1. TrainsExactly
  BY DEF TrainingInv, ModelInv, TrainsExactly, Exact, Seen, Unused
<1>2. QED
  BY <1>1 DEF TrainingInv

(* The values of the loop's state, for any networks, epochs and batches.    *)
THEOREM StepTypesHold == Spec => []StepTypeOK
BY InvHolds, InvIsEnough, PTL

(* Every training loop applies every batch once, in order, with its own     *)
(* gradient, scaled once where it clips, and its slots, step count and      *)
(* statistics belong to the same batches: whatever networks the batches go  *)
(* through, whenever the process dies, and wherever a picture is taken.    *)
THEOREM TrainsAsUndisturbed == Spec => []TrainsExactly
BY InvHolds, InvIsEnough, PTL

(* Metrics are those of the model that their epoch has made, computed in    *)
(* the loop or from a checkpoint in another process.                       *)
THEOREM MetricsAreOfTheModel == Spec => []EvaluatesWhatWasTrained
BY InvHolds, InvIsEnough, PTL
=============================================================================
