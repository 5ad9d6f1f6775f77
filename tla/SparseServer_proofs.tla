------------------------- MODULE SparseServer_proofs -------------------------
(***************************************************************************)
(* Proofs about a shard of the sparse Parameter Server, for any workers,   *)
(* clocks, keys and payloads, with or without deadlines and from either    *)
(* mode: no update is added twice, no acknowledged update is lost and no   *)
(* push sleeps through its release.                                        *)
(***************************************************************************)
EXTENDS SparseServer, FiniteSetTheorems, TLAPS

(* A name stands for one push. *)
DistinctNames(us) == \A u, v \in us : u.id = v.id => u = v

SentOK ==
  /\ sent \in [Shards -> SUBSET Update]
  /\ pending \in [Shards -> SUBSET Update]
  /\ \A s \in Shards : pending[s] \subseteq sent[s] /\ DistinctNames(sent[s])

AppliedOK == applied \in [Shards -> [Pushes -> [Keys -> {0, 1}]]]

(* What has been added to a key was pushed for it. *)
AppliedWasSent ==
  \A s \in Shards, i \in Pushes, k \in Keys :
    applied[s][i][k] # 0 => \E u \in sent[s] : u.id = i /\ u.sizes[k] # 0

PendingIsNotApplied ==
  \A s \in Shards : \A u \in pending[s], k \in Keys : applied[s][u.id][k] = 0

OnceInv == SentOK /\ AppliedOK /\ AppliedWasSent /\ PendingIsNotApplied

-----------------------------------------------------------------------------
(* Apply adds each entry once: with distinct names a push has one entry for *)
(* a key at most.                                                          *)
LEMMA OneEntry ==
  ASSUME NEW us \in SUBSET Update, DistinctNames(us),
         NEW entries \in SUBSET Entries(us),
         NEW i \in Pushes, NEW k \in Keys
  PROVE  LET these == {e \in entries : e[1].id = i /\ e[2] = k} IN
         /\ Cardinality(these) \in {0, 1}
         /\ Cardinality(these) # 0 => \E u \in us : u.id = i /\ u.sizes[k] # 0
<1> DEFINE these == {e \in entries : e[1].id = i /\ e[2] = k}
<1>1. CASE these = {}
  BY <1>1, FS_EmptySet
<1>2. CASE these # {}
  <2>1. PICK e \in these : TRUE
    BY <1>2
  <2>2. /\ e \in us \X Keys /\ e[1] \in us /\ e[1].id = i /\ e[2] = k
        /\ e[1].sizes[k] # 0
    BY DEF Entries
  <2>3. ASSUME NEW d \in these PROVE d = e
    <3>1. d \in us \X Keys /\ d[1] \in us /\ d[1].id = i /\ d[2] = k
      BY DEF Entries
    <3>2. d[1] = e[1]
      BY <2>2, <3>1 DEF DistinctNames
    <3>3. QED
      BY <2>2, <3>1, <3>2
  <2>4. these = {e}
    BY <2>1, <2>3
  <2>5. Cardinality(these) = 1
    BY <2>4, FS_Singleton
  <2>6. QED
    BY <2>2, <2>5
<1>3. QED
  BY <1>1, <1>2

(* One step of a shard, as far as the additions go: of the updates that are *)
(* in its barrier or have just arrived, some are taken out and added, to   *)
(* some of their keys or to all; or nothing is added.                      *)
Adds(s, arrived, us) ==
  /\ us \subseteq pending[s] \cup arrived
  /\ \/ \E entries \in SUBSET Entries(us) : Apply(s, entries)
     \/ UNCHANGED valueVars

AddingStep(s, arrived, us) ==
  /\ arrived \subseteq Update
  /\ \A u \in arrived : u.id \notin {v.id : v \in sent[s]}
  /\ DistinctNames(arrived)
  /\ sent' = [sent EXCEPT ![s] = @ \cup arrived]
  /\ Adds(s, arrived, us)
  /\ \E left \in SUBSET ((pending[s] \cup arrived) \ us) : pending' = [pending EXCEPT ![s] = left]

LEMMA PrefixesAreEntries ==
  ASSUME NEW us, NEW s, NEW entries \in Prefixes(s, us)
  PROVE  entries \in SUBSET Entries(us)
BY DEF Prefixes

(* The step keeps the invariant. *)
LEMMA AddingStepKeeps ==
  ASSUME OnceInv, NEW s \in Shards, NEW arrived, NEW us, AddingStep(s, arrived, us)
  PROVE  OnceInv'
<1> DEFINE barrier == pending[s] \cup arrived
<1>0. /\ SentOK /\ AppliedOK /\ AppliedWasSent /\ PendingIsNotApplied
      /\ arrived \subseteq Update /\ DistinctNames(arrived)
      /\ \A u \in arrived, v \in sent[s] : u.id # v.id
      /\ sent' = [sent EXCEPT ![s] = @ \cup arrived]
      /\ us \subseteq barrier
  BY DEF OnceInv, AddingStep, Adds
<1>1. PICK left \in SUBSET (barrier \ us) : pending' = [pending EXCEPT ![s] = left]
  BY DEF AddingStep
<1>2. DistinctNames(sent'[s]) /\ barrier \subseteq sent'[s] /\ sent'[s] \subseteq Update
  BY <1>0 DEF SentOK, DistinctNames
<1>3. SentOK'
  BY <1>0, <1>1, <1>2 DEF SentOK
<1>4. \A u \in barrier, k \in Keys : u.id \in Pushes /\ applied[s][u.id][k] = 0
  <2>1. ASSUME NEW u \in barrier, NEW k \in Keys PROVE u.id \in Pushes /\ applied[s][u.id][k] = 0
    <3>1. u \in Update /\ u.id \in Pushes
      BY <1>0 DEF SentOK, Update
    <3>2. CASE u \in pending[s]
      BY <1>0, <3>1, <3>2 DEF PendingIsNotApplied
    <3>3. CASE u \in arrived
      BY <1>0, <3>1, <3>3 DEF AppliedWasSent
    <3>4. QED
      BY <3>1, <3>2, <3>3
  <2>2. QED
    BY <2>1
<1>5. CASE UNCHANGED valueVars
  <2>1. applied' = applied
    BY <1>5 DEF valueVars
  <2>2. AppliedOK' /\ AppliedWasSent'
    BY <1>0, <2>1 DEF AppliedOK, AppliedWasSent, SentOK
  <2>3. PendingIsNotApplied'
    BY <1>0, <1>1, <1>4, <2>1 DEF PendingIsNotApplied, SentOK
  <2>4. QED
    BY <1>3, <2>2, <2>3 DEF OnceInv
<1>6. CASE \E entries \in SUBSET Entries(us) : Apply(s, entries)
  <2>1. PICK entries \in SUBSET Entries(us) : Apply(s, entries)
    BY <1>6
  <2> DEFINE new(i, k) == Cardinality({e \in entries : e[1].id = i /\ e[2] = k})
  <2>2. us \in SUBSET Update /\ DistinctNames(us)
    BY <1>0, <1>2 DEF DistinctNames, SentOK
  <2>3. ASSUME NEW i \in Pushes, NEW k \in Keys
        PROVE  new(i, k) \in {0, 1} /\ (new(i, k) # 0 => \E u \in us : u.id = i /\ u.sizes[k] # 0)
    BY <2>1, <2>2, <2>3, OneEntry
  <2>4. applied' = [applied EXCEPT ![s] =
           [i \in Pushes |-> [k \in Keys |-> applied[s][i][k] + new(i, k)]]]
    BY <2>1 DEF Apply
  <2> HIDE DEF new
  <2>5. ASSUME NEW i \in Pushes, NEW k \in Keys
        PROVE  /\ applied'[s][i][k] \in {0, 1}
               /\ applied'[s][i][k] # applied[s][i][k] =>
                    \E u \in us : u.id = i /\ u.sizes[k] # 0
    <3>1. applied'[s][i][k] = applied[s][i][k] + new(i, k) /\ applied[s][i][k] \in {0, 1}
      BY <1>0, <2>4 DEF AppliedOK
    <3>2. CASE new(i, k) = 0
      BY <3>1, <3>2
    <3>3. CASE new(i, k) = 1
      <4>1. PICK u \in us : u.id = i /\ u.sizes[k] # 0
        BY <2>3, <3>3
      <4>2. applied[s][i][k] = 0
        BY <1>0, <1>4, <4>1
      <4>3. QED
        BY <3>1, <3>3, <4>1, <4>2
    <3>4. QED
      BY <2>3, <3>2, <3>3
  <2>6. AppliedOK'
    <3>1. applied'[s] = [i \in Pushes |-> [k \in Keys |-> applied[s][i][k] + new(i, k)]]
      BY <1>0, <2>4 DEF AppliedOK
    <3>2. applied'[s] \in [Pushes -> [Keys -> {0, 1}]]
      <4>1. \A i \in Pushes, k \in Keys : applied[s][i][k] + new(i, k) \in {0, 1}
        BY <2>5, <3>1
      <4>2. QED
        BY <3>1, <4>1
    <3>3. QED
      BY <1>0, <2>4, <3>2 DEF AppliedOK
  <2>7. \A r \in Shards : r # s => applied'[r] = applied[r]
    BY <1>0, <2>4 DEF AppliedOK
  <2>8. AppliedWasSent'
    <3> SUFFICES ASSUME NEW r \in Shards, NEW i \in Pushes, NEW k \in Keys, applied'[r][i][k] # 0
                 PROVE  \E u \in sent'[r] : u.id = i /\ u.sizes[k] # 0
      BY DEF AppliedWasSent
    <3>1. CASE r # s
      BY <1>0, <2>7, <3>1 DEF AppliedWasSent, SentOK
    <3>2. CASE r = s /\ applied'[s][i][k] = applied[s][i][k]
      BY <1>0, <3>2 DEF AppliedWasSent, SentOK
    <3>3. CASE r = s /\ applied'[s][i][k] # applied[s][i][k]
      BY <1>0, <1>2, <2>5, <3>3
    <3>4. QED
      BY <3>1, <3>2, <3>3
  <2>9. PendingIsNotApplied'
    <3> SUFFICES ASSUME NEW r \in Shards, NEW u \in pending'[r], NEW k \in Keys
                 PROVE  applied'[r][u.id][k] = 0
      BY DEF PendingIsNotApplied
    <3>1. CASE r # s
      BY <1>0, <1>1, <2>7, <3>1 DEF PendingIsNotApplied, SentOK
    <3>2. CASE r = s
      <4>1. u \in barrier /\ u \notin us
        BY <1>0, <1>1, <3>2 DEF SentOK
      <4>2. u.id \in Pushes /\ applied[s][u.id][k] = 0
        BY <1>4, <4>1
      <4>3. \A v \in us : v.id # u.id
        BY <1>0, <1>2, <4>1 DEF DistinctNames
      <4>4. QED
        BY <2>5, <3>2, <4>2, <4>3
    <3>3. QED
      BY <3>1, <3>2
  <2>10. QED
    BY <1>3, <2>6, <2>8, <2>9 DEF OnceInv
<1>7. QED
  BY <1>5, <1>6 DEF AddingStep, Adds

-----------------------------------------------------------------------------
(* A turn of the loop in push takes out and adds the round, or nothing. *)
LEMMA TurnAdds ==
  ASSUME NEW s \in Shards, NEW u, NEW arrived, NEW late,
         Turn(s, u, pending[s] \cup arrived, late)
  PROVE  \E us : /\ Adds(s, arrived, us)
                 /\ pending' = [pending EXCEPT ![s] = (pending[s] \cup arrived) \ us]
<1> DEFINE barrier == pending[s] \cup arrived
           syncs == InSync(workers'[s], workerMode'[s])
           round == Round(syncs, u, barrier)
<1>1. CASE pending' = [pending EXCEPT ![s] = barrier] /\ UNCHANGED valueVars
  <2>1. barrier \ {} = barrier
    OBVIOUS
  <2>2. Adds(s, arrived, {})
    BY <1>1 DEF Adds
  <2>3. QED
    BY <1>1, <2>1, <2>2
<1>2. CASE /\ pending' = [pending EXCEPT ![s] = barrier \ round]
           /\ RoundApplies(s, u, syncs, round) \/ RoundRaises(s, u, round)
  <2>1. round \subseteq barrier
    BY DEF Round
  <2> HIDE DEF syncs, round
  <2>2. (\E entries \in SUBSET Entries(round) : Apply(s, entries)) \/ UNCHANGED valueVars
    BY <1>2, PrefixesAreEntries DEF RoundApplies, RoundRaises
  <2>3. Adds(s, arrived, round)
    BY <2>1, <2>2 DEF Adds
  <2>4. QED
    BY <1>2, <2>3
<1>3. QED
  BY <1>1, <1>2 DEF Turn

LEMMA TurnIsAddingStep ==
  ASSUME NEW s \in Shards, NEW u, NEW arrived \in SUBSET Update, NEW late,
         Turn(s, u, pending[s] \cup arrived, late),
         \A v \in arrived : v.id \notin {w.id : w \in sent[s]},
         DistinctNames(arrived),
         sent' = [sent EXCEPT ![s] = @ \cup arrived]
  PROVE  \E us : AddingStep(s, arrived, us)
<1>1. PICK us : /\ Adds(s, arrived, us)
                /\ pending' = [pending EXCEPT ![s] = (pending[s] \cup arrived) \ us]
  BY TurnAdds
<1>2. (pending[s] \cup arrived) \ us \in SUBSET ((pending[s] \cup arrived) \ us)
  OBVIOUS
<1>3. AddingStep(s, arrived, us)
  BY <1>1, <1>2 DEF AddingStep
<1>4. QED
  BY <1>3

(* Whatever happens on a shard is such a step. *)
LEMMA NothingAddedStep ==
  ASSUME SentOK, NEW s \in Shards, UNCHANGED <<sent, pending, valueVars>>
  PROVE  AddingStep(s, {}, {})
<1>1. /\ sent' = [sent EXCEPT ![s] = @ \cup {}]
      /\ pending' = [pending EXCEPT ![s] = pending[s]]
  BY DEF SentOK
<1>2. Adds(s, {}, {})
  BY DEF Adds
<1>3. QED
  BY <1>1, <1>2 DEF AddingStep, DistinctNames

LEMMA PushIsAddingStep ==
  ASSUME SentOK, NEW s \in Shards, NEW u \in Update, Push(s, u)
  PROVE  \E us : AddingStep(s, {u}, us)
<1>1. /\ \A v \in {u} : v.id \notin {w.id : w \in sent[s]}
      /\ DistinctNames({u})
      /\ sent' = [sent EXCEPT ![s] = @ \cup {u}]
      /\ {u} \in SUBSET Update
  BY DEF Push, PushAsync, PushRefused, PushSync, Enter, DistinctNames
<1>2. CASE PushAsync(s, u)
  <2>1. (\E entries \in SUBSET Entries({u}) : Apply(s, entries)) \/ UNCHANGED valueVars
    BY <1>2, PrefixesAreEntries DEF PushAsync
  <2>2. Adds(s, {u}, {u})
    BY <2>1 DEF Adds
  <2>3. pending' = [pending EXCEPT ![s] = pending[s] \ {u}]
    <3>1. u \notin pending[s]
      BY <1>1 DEF SentOK
    <3>2. pending[s] \ {u} = pending[s]
      BY <3>1
    <3>3. QED
      BY <1>2, <3>2 DEF PushAsync, SentOK
  <2>4. QED
    BY <1>1, <2>2, <2>3 DEF AddingStep
<1>3. CASE PushRefused(s, u)
  <2>1. UNCHANGED valueVars /\ pending' = [pending EXCEPT ![s] = pending[s]]
    BY <1>3 DEF PushRefused, barrierVars, SentOK
  <2>2. Adds(s, {u}, {})
    BY <2>1 DEF Adds
  <2>3. pending[s] \in SUBSET ((pending[s] \cup {u}) \ {})
    OBVIOUS
  <2>4. AddingStep(s, {u}, {})
    BY <1>1, <2>1, <2>2, <2>3 DEF AddingStep
  <2>5. QED
    BY <2>4
<1>4. CASE PushSync(s, u)
  BY <1>1, <1>4, TurnIsAddingStep DEF PushSync
<1>5. QED
  BY <1>2, <1>3, <1>4 DEF Push

LEMMA WakeIsAddingStep ==
  ASSUME SentOK, NEW s \in Shards, NEW u, Wake(s, u) \/ Expire(s, u)
  PROVE  \E us : AddingStep(s, {}, us)
<1>1. /\ {} \in SUBSET Update
      /\ DistinctNames({})
      /\ sent' = [sent EXCEPT ![s] = @ \cup {}]
      /\ pending[s] \cup {} = pending[s]
  <2>1. sent' = sent
    BY DEF Wake, Expire
  <2>2. sent[s] \cup {} = sent[s] /\ sent = [sent EXCEPT ![s] = sent[s]]
    BY DEF SentOK
  <2>3. QED
    BY <2>1, <2>2 DEF DistinctNames
<1>2. PICK late \in BOOLEAN : Turn(s, u, pending[s], late)
  BY DEF Wake, Expire
<1>3. Turn(s, u, pending[s] \cup {}, late)
  BY <1>1, <1>2
<1>4. QED
  BY <1>1, <1>3, TurnIsAddingStep

LEMMA SetModeIsAddingStep ==
  ASSUME SentOK, NEW s \in Shards, NEW m, NEW ws, SetMode(s, m, ws)
  PROVE  \E us : AddingStep(s, {}, us)
<1>1. CASE SetSameMode(s, m, ws) \/ SwitchToSync(s, ws)
  <2>1. UNCHANGED <<sent, pending, valueVars>>
    BY <1>1 DEF SetSameMode, SwitchToSync, barrierVars, callVars
  <2>2. QED
    BY <2>1, NothingAddedStep
<1>2. CASE SwitchToAsync(s, ws)
  <2>1. sent' = [sent EXCEPT ![s] = @ \cup {}]
    BY <1>2 DEF SwitchToAsync, callVars, SentOK
  <2>2. PICK us \in SUBSET pending[s] :
          /\ \E entries \in SUBSET Entries(us) : Apply(s, entries)
          /\ pending' = [pending EXCEPT ![s] = pending[s] \ us]
    <3>1. CASE Flush(s)
      <4>1. pending[s] \ pending[s] = {}
        OBVIOUS
      <4>2. QED
        BY <3>1, <4>1 DEF Flush
    <3>2. CASE FlushRaises(s)
      <4>1. PICK u \in pending[s] :
              /\ \E ks : Apply(s, Entries(EarlierSlots(s, u)) \cup
                       (Entries(SameSlot(pending[s], u)) \cap (SameSlot(pending[s], u) \X ks)))
              /\ pending' = [pending EXCEPT ![s] =
                               pending[s] \ (EarlierSlots(s, u) \cup SameSlot(pending[s], u))]
        BY <3>2 DEF FlushRaises
      <4> DEFINE taken == EarlierSlots(s, u) \cup SameSlot(pending[s], u)
      <4>2. taken \in SUBSET pending[s]
        BY DEF EarlierSlots, SameSlot
      <4>3. PICK ks : Apply(s, Entries(EarlierSlots(s, u)) \cup
                       (Entries(SameSlot(pending[s], u)) \cap (SameSlot(pending[s], u) \X ks)))
        BY <4>1
      <4>4. Entries(EarlierSlots(s, u)) \cup
              (Entries(SameSlot(pending[s], u)) \cap (SameSlot(pending[s], u) \X ks))
              \in SUBSET Entries(taken)
        BY DEF Entries
      <4>5. QED
        BY <4>1, <4>2, <4>3, <4>4
    <3>3. QED
      BY <1>2, <3>1, <3>2 DEF SwitchToAsync
  <2>3. Adds(s, {}, us)
    BY <2>2 DEF Adds
  <2>4. pending[s] \ us \in SUBSET ((pending[s] \cup {}) \ us)
    OBVIOUS
  <2>5. QED
    BY <2>1, <2>2, <2>3, <2>4 DEF AddingStep, DistinctNames
<1>3. QED
  BY <1>1, <1>2 DEF SetMode

-----------------------------------------------------------------------------
LEMMA OnceMeans == OnceInv => AppliedAtMostOnce
<1> SUFFICES ASSUME OnceInv PROVE AppliedAtMostOnce
  OBVIOUS
<1>1. ASSUME NEW s \in Shards, NEW i \in Pushes, NEW k \in Keys
      PROVE  applied[s][i][k] <= 1
  <2>1. applied[s][i][k] \in {0, 1}
    BY DEF OnceInv, AppliedOK
  <2>2. QED
    BY <2>1
<1>2. QED
  BY <1>1 DEF OnceInv, PendingIsNotApplied, AppliedAtMostOnce

LEMMA OnceInit == ShardInit => OnceInv
BY DEF ShardInit, OnceInv, SentOK, AppliedOK, AppliedWasSent, PendingIsNotApplied, DistinctNames

LEMMA OnceNext == OnceInv /\ [ShardNext]_shardVars => OnceInv'
<1> SUFFICES ASSUME OnceInv, [ShardNext]_shardVars PROVE OnceInv'
  OBVIOUS
<1>0. SentOK
  BY DEF OnceInv
<1>1. CASE UNCHANGED shardVars
  BY <1>1 DEF shardVars, barrierVars, valueVars, callVars, OnceInv, SentOK, AppliedOK,
              AppliedWasSent, PendingIsNotApplied, DistinctNames
<1>2. ASSUME NEW s \in Shards, NEW w \in Workers, Register(s, w) PROVE OnceInv'
  <2>1. UNCHANGED <<sent, pending, valueVars>>
    BY <1>2 DEF Register, barrierVars, callVars
  <2>2. QED
    BY <1>0, <2>1, NothingAddedStep, AddingStepKeeps
<1>3. ASSUME NEW s \in Shards, NEW u \in Update, Push(s, u) PROVE OnceInv'
  BY <1>0, <1>3, PushIsAddingStep, AddingStepKeeps
<1>4. ASSUME NEW s \in Shards, NEW u \in asleep[s] \cup awake[s], Wake(s, u) \/ Expire(s, u)
      PROVE  OnceInv'
  BY <1>0, <1>4, WakeIsAddingStep, AddingStepKeeps
<1>5. ASSUME NEW s \in Shards, NEW m, NEW ws, SetMode(s, m, ws) PROVE OnceInv'
  BY <1>0, <1>5, SetModeIsAddingStep, AddingStepKeeps
<1>6. QED
  BY <1>1, <1>2, <1>3, <1>4, <1>5 DEF ShardNext

(* However rounds, repeated pushes, deadlines, errors and mode switches     *)
(* interleave, a shard adds an update to a key once at most, and nothing   *)
(* of an update that still waits in the barrier.                           *)
THEOREM AddedAtMostOnce == ShardSpec => []AppliedAtMostOnce
BY OnceMeans, OnceInit, OnceNext, PTL DEF ShardSpec
-----------------------------------------------------------------------------
(* The barrier: no acknowledged update is lost and no push sleeps through  *)
(* its release, with or without deadlines and from either mode.            *)

StateOK ==
  /\ mode \in [Shards -> Modes]
  /\ workers \in [Shards -> SUBSET Workers]
  /\ workerMode \in [Shards -> [Workers -> Modes]]
  /\ appliedClock \in [Shards -> [Workers -> Clocks \cup {-1}]]
  /\ size \in [Shards -> [Keys -> Nat]]

Threads(s) == asleep[s] \cup awake[s]

Results == {"applied", "switched", "error"}

(* A push has no outcome while its thread is in the shard, only pushes     *)
(* have outcomes, and there are finitely many.                             *)
CallsOK ==
  /\ asleep \in [Shards -> SUBSET Update] /\ awake \in [Shards -> SUBSET Update]
  /\ outcome \in [Shards -> [Pushes -> Results \cup {"none"}]]
  /\ \A s \in Shards :
       /\ IsFiniteSet(sent[s])
       /\ Threads(s) \subseteq sent[s] /\ asleep[s] \cap awake[s] = {}
       /\ \A u \in sent[s] : outcome[s][u.id] = "none" <=> u \in Threads(s)
       /\ \A i \in Pushes : outcome[s][i] # "none" => \E u \in sent[s] : u.id = i

TypeInv == OnceInv /\ StateOK /\ CallsOK

(* All updates agree on how long the value of a key is. *)
SameLengths(us) ==
  \A u, v \in us, k \in Keys : u.sizes[k] # 0 /\ v.sizes[k] # 0 => u.sizes[k] = v.sizes[k]

(* What has left the barrier has been added, and its clock counted; values *)
(* have the length of some update.                                         *)
Kept(s) ==
  /\ \A u \in sent[s] \ pending[s] :
       /\ u.clock <= appliedClock[s][u.worker]
       /\ \A k \in Keys : u.sizes[k] # 0 => applied[s][u.id][k] = 1
  /\ \A k \in Keys : size[s][k] = 0 \/ \E u \in sent[s] : u.sizes[k] = size[s][k]

(* What waits in the barrier is of a worker in sync mode, and nobody has   *)
(* been told that it was applied.                                          *)
Waits(s) ==
  \A u \in pending[s] :
    /\ mode[s] = "sync"
    /\ u.worker \in SyncWorkers(s)
    /\ outcome[s][u.id] \notin {"applied", "switched"}

(* Who sleeps has something left in the barrier, in a round that is not    *)
(* complete.                                                               *)
Sleeps(s) ==
  \A u \in asleep[s] :
    /\ mode[s] = "sync"
    /\ SameSlot(pending[s], u) # {}
    /\ ~Ready(SyncWorkers(s), u, pending[s])

BarrierInv ==
  TypeInv /\ \A s \in Shards : SameLengths(sent[s]) => Kept(s) /\ Waits(s) /\ Sleeps(s)

-----------------------------------------------------------------------------
(* Facts about finite sets. *)

LEMMA FiniteMax ==
  ASSUME NEW S, IsFiniteSet(S), S # {}, NEW f, \A x \in S : f[x] \in Int
  PROVE  \E x \in S : \A y \in S : f[y] <= f[x]
<1> DEFINE HasMax(X) == \E x \in X : \A y \in X : f[y] <= f[x]
           T == {X \in SUBSET S : X # {} /\ ~HasMax(X)}
           R == StrictSubsetOrdering(S)
<1> SUFFICES ASSUME ~HasMax(S) PROVE FALSE
  OBVIOUS
<1>1. IsWellFoundedOn(R, SUBSET S)
  BY FS_StrictSubsetOrderingWellFounded, FS_FiniteSubsetsOfFinite
<1>2. S \in T /\ T \subseteq SUBSET S
  OBVIOUS
<1>3. \E X \in T : \A Y \in T : <<Y, X>> \notin R
  <2> HIDE DEF T, R
  <2>1. QED
    BY <1>1, <1>2, WFMin
<1>4. PICK X \in T : \A Y \in T : <<Y, X>> \notin R
  BY <1>3
<1>5. PICK x \in X : TRUE
  OBVIOUS
<1> DEFINE Y == X \ {x}
<1>6. CASE Y = {}
  <2>1. \A y \in X : y = x
    BY <1>6
  <2>2. f[x] \in Int
    BY <1>5
  <2>3. HasMax(X)
    BY <1>5, <2>1, <2>2
  <2>4. QED
    BY <2>3
<1>7. CASE Y # {}
  <2>1. <<Y, X>> \in R
    BY <1>5 DEF StrictSubsetOrdering
  <2>2. HasMax(Y)
    BY <1>4, <1>7, <2>1
  <2>3. PICK m \in Y : \A y \in Y : f[y] <= f[m]
    BY <2>2
  <2>4. /\ \A y \in X : y = x \/ y \in Y
        /\ f[m] \in Int /\ f[x] \in Int /\ \A y \in X : f[y] \in Int
    BY <1>5
  <2>5. CASE f[m] <= f[x]
    <3>1. \A y \in X : f[y] <= f[x]
      BY <2>3, <2>4, <2>5
    <3>2. QED
      BY <3>1, <1>5
  <2>6. CASE f[x] <= f[m]
    <3>1. \A y \in X : f[y] <= f[m]
      BY <2>3, <2>4, <2>6
    <3>2. QED
      BY <3>1, <2>3
  <2>7. QED
    BY <2>4, <2>5, <2>6
<1>8. QED
  BY <1>6, <1>7

(* Mergeable says in numbers what SameLengths says of updates.             *)
LEMMA MergeableMeans ==
  ASSUME NEW us \in SUBSET Update, IsFiniteSet(us)
  PROVE  Mergeable(us) <=> SameLengths(us)
<1>1. ASSUME SameLengths(us) PROVE Mergeable(us)
  <2> SUFFICES ASSUME NEW k \in Keys PROVE Cardinality(Lengths(us, k)) <= 1
    BY DEF Mergeable
  <2>1. CASE Lengths(us, k) = {}
    BY <2>1, FS_EmptySet
  <2>2. CASE Lengths(us, k) # {}
    <3>1. PICK a \in Lengths(us, k) : TRUE
      BY <2>2
    <3>2. Lengths(us, k) = {a}
      BY <1>1, <3>1 DEF Lengths, SameLengths
    <3>3. Cardinality({a}) = 1
      BY FS_Singleton
    <3>4. QED
      BY <3>2, <3>3
  <2>3. QED
    BY <2>1, <2>2
<1>2. ASSUME Mergeable(us) PROVE SameLengths(us)
  <2> SUFFICES ASSUME NEW u \in us, NEW v \in us, NEW k \in Keys,
                      u.sizes[k] # 0, v.sizes[k] # 0, u.sizes[k] # v.sizes[k]
               PROVE  FALSE
    BY DEF SameLengths
  <2> DEFINE a == u.sizes[k]
             b == v.sizes[k]
             L == Lengths(us, k)
             f == [w \in us |-> w.sizes[k]]
             I == {w.sizes[k] : w \in us}
  <2>1. f \in Surjection(us, I)
    BY DEF Surjection
  <2>2. IsFiniteSet(I)
    BY <2>1, FS_Surjection
  <2>3. L \in SUBSET I
    BY DEF Lengths
  <2>4. IsFiniteSet(L) /\ Cardinality(L) \in Nat
    BY <2>2, <2>3, FS_Subset, FS_CardinalityType
  <2>5. {a} \in SUBSET L /\ b \in L /\ b \notin {a}
    BY DEF Lengths
  <2>6. Cardinality({a}) = 1 /\ Cardinality({a}) <= Cardinality(L)
    BY <2>4, <2>5, FS_Singleton, FS_Subset
  <2>7. Cardinality(L) = 1
    BY <1>2, <2>4, <2>6 DEF Mergeable
  <2>8. L = {a}
    <3> HIDE DEF L, a
    <3>1. QED
      BY <2>4, <2>5, <2>6, <2>7, FS_Subset
  <2>9. QED
    BY <2>5, <2>8
<1>3. QED
  BY <1>1, <1>2

-----------------------------------------------------------------------------
(* The clocks of a shard never go back, and count what is applied and that *)
(* only.                                                                   *)

ClocksCount(s, us) ==
  /\ appliedClock' \in [Shards -> [Workers -> Clocks \cup {-1}]]
  /\ \A w \in Workers :
       \/ appliedClock'[s][w] = appliedClock[s][w]
       \/ \E u \in us : u.worker = w /\ u.clock = appliedClock'[s][w]
  /\ \A w \in Workers : appliedClock[s][w] <= appliedClock'[s][w]
  /\ \A u \in us : u.clock <= appliedClock'[s][u.worker]
  /\ \A r \in Shards : r # s => appliedClock'[r] = appliedClock[r]

LEMMA ClocksAreInts ==
  /\ \A c \in Clocks \cup {-1} : c \in Int
  /\ StateOK => \A s \in Shards, w \in Workers : /\ appliedClock[s][w] \in Clocks \cup {-1}
                                                 /\ appliedClock[s][w] \in Int
  /\ \A u \in Update : u.clock \in Clocks /\ u.clock \in Int /\ u.worker \in Workers
<1>1. \A c \in Clocks \cup {-1} : c \in Int
  BY ClocksAssumption
<1>2. QED
  BY <1>1 DEF StateOK, Update

LEMMA ClocksStay ==
  ASSUME StateOK, NEW s \in Shards, UNCHANGED appliedClock
  PROVE  ClocksCount(s, {})
BY ClocksAreInts DEF StateOK, ClocksCount

LEMMA AdvanceCounts ==
  ASSUME StateOK, NEW s \in Shards, NEW ws, NEW clock \in Clocks, AdvanceClocks(s, ws, clock),
         NEW us \in SUBSET Update, \A u \in us : u.worker \in ws /\ u.clock = clock,
         \A w \in ws : \E u \in us : u.worker = w
  PROVE  ClocksCount(s, us)
<1> DEFINE c == [w \in Workers |-> IF w \in ws THEN Later(appliedClock[s][w], clock)
                                              ELSE appliedClock[s][w]]
<1>1. appliedClock' = [appliedClock EXCEPT ![s] = c]
  BY DEF AdvanceClocks
<1>2. ASSUME NEW w \in Workers
      PROVE  /\ c[w] \in Clocks \cup {-1} /\ appliedClock[s][w] <= c[w]
             /\ w \in ws => clock <= c[w]
             /\ c[w] = appliedClock[s][w] \/ (w \in ws /\ c[w] = clock)
  <2>1. appliedClock[s][w] \in Clocks \cup {-1} /\ appliedClock[s][w] \in Int /\ clock \in Int
    BY ClocksAreInts
  <2>2. QED
    BY <2>1 DEF Later
<1>3. c \in [Workers -> Clocks \cup {-1}]
  BY <1>2
<1> HIDE DEF c
<1>4. appliedClock'[s] = c /\ appliedClock' \in [Shards -> [Workers -> Clocks \cup {-1}]]
  BY <1>1, <1>3 DEF StateOK
<1>5. \A u \in us : u.worker \in Workers
  BY DEF Update
<1>6. QED
  BY <1>1, <1>2, <1>4, <1>5 DEF ClocksCount, StateOK

LEMMA FlushCounts ==
  ASSUME StateOK, NEW s \in Shards, NEW us \in SUBSET Update, IsFiniteSet(us),
         appliedClock' = [appliedClock EXCEPT ![s] = ClocksAfterFlush(s, us)]
  PROVE  ClocksCount(s, us)
<1> DEFINE mine(w) == {u \in us : u.worker = w}
           last(w, c) == \A u \in us : u.worker = w => u.clock <= c /\ appliedClock[s][w] <= c
           clocks(w) == {appliedClock[s][w]} \cup {u.clock : u \in mine(w)}
           flushed == ClocksAfterFlush(s, us)
<1>1. \A w \in Workers : appliedClock[s][w] \in Clocks \cup {-1} /\ appliedClock[s][w] \in Int
  BY ClocksAreInts
<1>2. \A u \in us : u.clock \in Clocks /\ u.clock \in Int /\ u.worker \in Workers
  BY ClocksAreInts
<1>3. ASSUME NEW w \in Workers PROVE \E c \in clocks(w) : last(w, c)
  <2>1. CASE mine(w) = {}
    BY <2>1
  <2>2. CASE mine(w) # {}
    <3> DEFINE f == [u \in mine(w) |-> u.clock]
    <3>1. IsFiniteSet(mine(w)) /\ \A u \in mine(w) : f[u] \in Int
      BY <1>2, FS_Subset
    <3>2. \E m \in mine(w) : \A u \in mine(w) : f[u] <= f[m]
      BY <2>2, <3>1, FiniteMax
    <3>3. PICK m \in mine(w) : \A u \in mine(w) : u.clock <= m.clock
      BY <3>2
    <3>4. CASE appliedClock[s][w] <= m.clock
      <4>1. m.clock \in clocks(w) /\ last(w, m.clock)
        BY <3>3, <3>4
      <4>2. QED
        BY <4>1
    <3>5. CASE m.clock <= appliedClock[s][w]
      <4>1. appliedClock[s][w] \in clocks(w) /\ last(w, appliedClock[s][w])
        BY <1>1, <1>2, <3>3, <3>5
      <4>2. QED
        BY <4>1
    <3>6. QED
      BY <1>1, <1>2, <3>4, <3>5
  <2>3. QED
    BY <2>1, <2>2
<1>4. ASSUME NEW w \in Workers PROVE flushed[w] \in clocks(w) /\ last(w, flushed[w])
  <2>1. flushed[w] = CHOOSE c \in clocks(w) : last(w, c)
    BY DEF ClocksAfterFlush
  <2> HIDE DEF flushed, clocks, last
  <2>2. QED
    BY <1>3, <2>1
<1>5. flushed = [w \in Workers |-> flushed[w]]
  BY DEF ClocksAfterFlush
<1> HIDE DEF flushed
<1>6. ASSUME NEW w \in Workers
      PROVE  /\ flushed[w] \in Clocks \cup {-1} /\ appliedClock[s][w] <= flushed[w]
             /\ \A u \in mine(w) : u.clock <= flushed[w]
             /\ \/ flushed[w] = appliedClock[s][w]
                \/ \E u \in us : u.worker = w /\ u.clock = flushed[w]
  <2>1. flushed[w] \in Clocks \cup {-1} /\ \A u \in mine(w) : u.clock <= flushed[w]
    BY <1>1, <1>2, <1>4
  <2>2. CASE mine(w) = {}
    <3>1. flushed[w] = appliedClock[s][w]
      BY <1>4, <2>2
    <3>2. QED
      BY <1>1, <2>1, <3>1
  <2>3. CASE mine(w) # {}
    BY <1>4, <2>1, <2>3
  <2>4. QED
    BY <2>2, <2>3
<1>7. appliedClock'[s] = flushed /\ appliedClock' \in [Shards -> [Workers -> Clocks \cup {-1}]]
  BY <1>5, <1>6 DEF StateOK, flushed
<1>8. QED
  BY <1>2, <1>6, <1>7 DEF ClocksCount, StateOK

(* Added values have a length of some entry, or keep their own.            *)
LEMMA SizesOfEntries ==
  ASSUME StateOK, NEW s \in Shards, NEW us \in SUBSET Update,
         NEW entries \in SUBSET (us \X Keys), Apply(s, entries)
  PROVE  /\ size' \in [Shards -> [Keys -> Nat]]
         /\ \A r \in Shards : r # s => size'[r] = size[r]
         /\ \A k \in Keys : size'[s][k] = size[s][k] \/ \E u \in us : u.sizes[k] = size'[s][k]
<1> DEFINE has(k) == \E e \in entries : e[2] = k
           first(k) == CHOOSE e \in entries : e[2] = k
           new == [k \in Keys |-> IF size[s][k] = 0 /\ has(k) THEN first(k)[1].sizes[k]
                                                              ELSE size[s][k]]
<1>1. size' = [size EXCEPT ![s] = new]
  BY DEF Apply
<1>2. ASSUME NEW k \in Keys
      PROVE  new[k] \in Nat /\ (new[k] = size[s][k] \/ \E u \in us : u.sizes[k] = new[k])
  <2>1. CASE has(k)
    <3>1. first(k) \in entries
      BY <2>1
    <3>2. first(k)[1] \in us /\ first(k)[1].sizes \in [Keys -> Nat]
      <4> HIDE DEF first
      <4>1. QED
        BY <3>1, PayloadsAssumption DEF Update
    <3>3. QED
      BY <3>2 DEF StateOK
  <2>2. CASE ~has(k)
    BY <2>2 DEF StateOK
  <2>3. QED
    BY <2>1, <2>2
<1>3. new \in [Keys -> Nat]
  BY <1>2
<1> HIDE DEF new
<1>4. QED
  BY <1>1, <1>2, <1>3 DEF StateOK

-----------------------------------------------------------------------------
(* What a step does to the modes, and to the calls, of a shard; the other   *)
(* shards are not touched.                                                 *)

ModeStep(s) ==
  /\ mode' \in [Shards -> Modes]
  /\ workers' \in [Shards -> SUBSET Workers]
  /\ workerMode' \in [Shards -> [Workers -> Modes]]
  /\ workers[s] \subseteq workers'[s]
  /\ \A r \in Shards : r # s =>
       mode'[r] = mode[r] /\ workers'[r] = workers[r] /\ workerMode'[r] = workerMode[r]

(* A call leaves with a result, or stays. *)
CallLeaves(s, u) ==
  /\ Threads(s)' = Threads(s) \ {u}
  /\ outcome'[s][u.id] \in Results
  /\ \A i \in Pushes : i # u.id => outcome'[s][i] = outcome[s][i]

CallStays(s, u) ==
  /\ Threads(s)' = Threads(s) \cup {u}
  /\ outcome'[s] = outcome[s]

CallStep(s, arrived) ==
  /\ asleep' \in [Shards -> SUBSET Update] /\ awake' \in [Shards -> SUBSET Update]
  /\ outcome' \in [Shards -> [Pushes -> Results \cup {"none"}]]
  /\ \A r \in Shards : r # s =>
       asleep'[r] = asleep[r] /\ awake'[r] = awake[r] /\ outcome'[r] = outcome[r]
  /\ asleep'[s] \cap awake'[s] = {}
  /\ \/ arrived = {} /\ Threads(s)' = Threads(s) /\ outcome'[s] = outcome[s]
     \/ \E u \in Threads(s) \cup arrived :
          arrived \subseteq {u} /\ (CallLeaves(s, u) \/ CallStays(s, u))

LEMMA CallStepKeeps ==
  ASSUME TypeInv, NEW s \in Shards, NEW arrived, NEW us,
         AddingStep(s, arrived, us), CallStep(s, arrived)
  PROVE  CallsOK'
<1>1. SentOK /\ CallsOK /\ SentOK'
  BY AddingStepKeeps DEF TypeInv, OnceInv
<1>2. /\ sent'[s] = sent[s] \cup arrived
      /\ \A r \in Shards : r # s => sent'[r] = sent[r]
      /\ arrived \subseteq Update
      /\ \A u \in arrived, v \in sent[s] : u.id # v.id
  BY <1>1 DEF AddingStep, SentOK
<1>3. DistinctNames(sent'[s]) /\ \A u \in sent'[s] : u.id \in Pushes
  BY <1>1 DEF SentOK, Update
<1>4. IsFiniteSet(arrived)
  <2>1. CASE arrived = {}
    BY <2>1, FS_EmptySet
  <2>2. CASE arrived # {}
    <3>1. PICK u : arrived \subseteq {u}
      BY <2>2 DEF CallStep
    <3>2. arrived = {u}
      BY <2>2, <3>1
    <3>3. IsFiniteSet({u})
      BY FS_Singleton
    <3>4. QED
      BY <3>2, <3>3
  <2>3. QED
    BY <2>1, <2>2
<1>5. IsFiniteSet(sent'[s])
  <2>1. IsFiniteSet(sent[s])
    BY <1>1 DEF CallsOK
  <2>2. IsFiniteSet(sent[s] \cup arrived)
    BY <1>4, <2>1, FS_Union
  <2>3. QED
    BY <1>2, <2>2
<1>6. \A u \in arrived : outcome[s][u.id] = "none"
  BY <1>1, <1>2, <1>3 DEF CallsOK
<1>7. /\ Threads(s)' \subseteq sent'[s]
      /\ \A u \in sent'[s] : outcome'[s][u.id] = "none" <=> u \in Threads(s)'
      /\ \A i \in Pushes : outcome'[s][i] # "none" => \E u \in sent'[s] : u.id = i
  <2> DEFINE old == Threads(s)
             new == Threads(s)'
  <2>0. /\ old \subseteq sent[s]
        /\ \A u \in sent[s] : outcome[s][u.id] = "none" <=> u \in old
        /\ \A i \in Pushes : outcome[s][i] # "none" => \E u \in sent[s] : u.id = i
    BY <1>1 DEF CallsOK
  <2>1. CASE arrived = {} /\ new = old /\ outcome'[s] = outcome[s]
    BY <1>2, <2>0, <2>1
  <2>2. ASSUME NEW u \in old \cup arrived, arrived \subseteq {u}, CallLeaves(s, u)
        PROVE  /\ new \subseteq sent'[s]
               /\ \A v \in sent'[s] : outcome'[s][v.id] = "none" <=> v \in new
               /\ \A i \in Pushes : outcome'[s][i] # "none" => \E v \in sent'[s] : v.id = i
    <3>1. u \in sent'[s] /\ new = old \ {u} /\ outcome'[s][u.id] # "none"
      BY <1>2, <2>0, <2>2 DEF CallLeaves, Results
    <3>2. \A v \in sent'[s] : v # u => v.id # u.id /\ v \in sent[s]
      BY <1>2, <1>3, <2>2, <3>1 DEF DistinctNames
    <3>3. \A v \in sent'[s] : v # u => outcome'[s][v.id] = outcome[s][v.id]
      BY <1>3, <2>2, <3>2 DEF CallLeaves
    <3>4. \A i \in Pushes : i # u.id => outcome'[s][i] = outcome[s][i]
      BY <2>2 DEF CallLeaves
    <3> HIDE DEF old, new
    <3>5. QED
      BY <1>2, <2>0, <3>1, <3>2, <3>3, <3>4
  <2>3. ASSUME NEW u \in old \cup arrived, arrived \subseteq {u}, CallStays(s, u)
        PROVE  /\ new \subseteq sent'[s]
               /\ \A v \in sent'[s] : outcome'[s][v.id] = "none" <=> v \in new
               /\ \A i \in Pushes : outcome'[s][i] # "none" => \E v \in sent'[s] : v.id = i
    <3>1. u \in sent'[s] /\ new = old \cup {u} /\ outcome'[s] = outcome[s]
      BY <1>2, <2>0, <2>3 DEF CallStays
    <3>2. outcome[s][u.id] = "none"
      BY <1>6, <2>0
    <3> HIDE DEF old, new
    <3>3. QED
      BY <1>2, <2>0, <2>3, <3>1, <3>2
  <2>4. QED
    BY <2>1, <2>2, <2>3 DEF CallStep
<1>8. QED
  <2>1. ASSUME NEW r \in Shards, r # s
        PROVE  /\ IsFiniteSet(sent'[r])
               /\ Threads(r)' \subseteq sent'[r] /\ asleep'[r] \cap awake'[r] = {}
               /\ \A u \in sent'[r] : outcome'[r][u.id] = "none" <=> u \in Threads(r)'
               /\ \A i \in Pushes : outcome'[r][i] # "none" => \E u \in sent'[r] : u.id = i
    <3>1. /\ sent'[r] = sent[r] /\ asleep'[r] = asleep[r] /\ awake'[r] = awake[r]
          /\ outcome'[r] = outcome[r]
      BY <1>2, <2>1 DEF CallStep
    <3>2. Threads(r)' = Threads(r)
      BY <3>1 DEF Threads
    <3>3. QED
      BY <1>1, <3>1, <3>2 DEF CallsOK
  <2>2. QED
    BY <1>5, <1>7, <2>1 DEF CallsOK, CallStep

(* The other shards. *)
Elsewhere(s) ==
  \A r \in Shards : r # s =>
    /\ mode'[r] = mode[r] /\ workers'[r] = workers[r] /\ workerMode'[r] = workerMode[r]
    /\ pending'[r] = pending[r] /\ appliedClock'[r] = appliedClock[r]
    /\ size'[r] = size[r] /\ applied'[r] = applied[r]
    /\ asleep'[r] = asleep[r] /\ sent'[r] = sent[r] /\ outcome'[r] = outcome[r]

(* What never goes back: pushes and workers come, results stay, what has   *)
(* left the barrier is out of it, and applied clocks are clocks of pushes. *)
Grows(s) ==
  /\ sent[s] \subseteq sent'[s] /\ workers[s] \subseteq workers'[s]
  /\ \A u \in sent[s] : u \notin pending[s] => u \notin pending'[s]
  /\ \A i \in Pushes : outcome[s][i] # "none" => outcome'[s][i] = outcome[s][i]
  /\ \A w \in Workers :
       \/ appliedClock'[s][w] = appliedClock[s][w]
       \/ \E u \in sent'[s] : u.worker = w /\ u.clock = appliedClock'[s][w]

LEMMA GrowsElsewhere ==
  ASSUME NEW s \in Shards, NEW r \in Shards, r # s, Elsewhere(s) PROVE Grows(r)
BY DEF Elsewhere, Grows

LEMMA StepGrows ==
  ASSUME TypeInv, NEW s \in Shards, NEW arrived, NEW us, NEW counted,
         AddingStep(s, arrived, us), ModeStep(s), CallStep(s, arrived),
         counted \subseteq pending[s] \cup arrived, ClocksCount(s, counted)
  PROVE  Grows(s)
<1>1. SentOK /\ CallsOK
  BY DEF TypeInv, OnceInv
<1>2. /\ sent'[s] = sent[s] \cup arrived
      /\ \A u \in arrived : u \notin sent[s] /\ \A v \in sent[s] : v.id # u.id
      /\ pending'[s] \subseteq pending[s] \cup arrived
      /\ counted \subseteq sent'[s]
  BY <1>1 DEF AddingStep, SentOK
<1>3. ASSUME NEW i \in Pushes, outcome[s][i] # "none" PROVE outcome'[s][i] = outcome[s][i]
  <2>1. PICK v \in sent[s] : v.id = i
    BY <1>1, <1>3 DEF CallsOK
  <2>2. ASSUME NEW u \in Threads(s) \cup arrived PROVE u.id # i
    <3>1. CASE u \in arrived
      BY <1>2, <2>1, <3>1
    <3>2. CASE u \in Threads(s)
      BY <1>1, <1>3, <3>2 DEF CallsOK
    <3>3. QED
      BY <3>1, <3>2
  <2>3. QED
    BY <1>3, <2>2 DEF CallStep, CallLeaves, CallStays
<1>4. QED
  BY <1>2, <1>3 DEF Grows, ModeStep, ClocksCount

LEMMA StepKeepsTypes ==
  ASSUME TypeInv, NEW s \in Shards, NEW arrived, NEW us, NEW counted,
         AddingStep(s, arrived, us), ModeStep(s), CallStep(s, arrived),
         counted \subseteq pending[s] \cup arrived, ClocksCount(s, counted)
  PROVE  TypeInv' /\ Elsewhere(s) /\ Grows(s)
<1>1. OnceInv' /\ OnceInv /\ StateOK
  BY AddingStepKeeps DEF TypeInv
<1>2. CallsOK'
  BY CallStepKeeps
<1>3. /\ size' \in [Shards -> [Keys -> Nat]]
      /\ \A r \in Shards : r # s => size'[r] = size[r] /\ applied'[r] = applied[r]
  <2>1. CASE UNCHANGED valueVars
    BY <1>1, <2>1 DEF valueVars, StateOK
  <2>2. ASSUME NEW entries \in SUBSET Entries(us), Apply(s, entries)
        PROVE  /\ size' \in [Shards -> [Keys -> Nat]]
               /\ \A r \in Shards : r # s => size'[r] = size[r] /\ applied'[r] = applied[r]
    <3>1. us \in SUBSET Update
      BY <1>1 DEF AddingStep, Adds, OnceInv, SentOK
    <3>2. /\ size' \in [Shards -> [Keys -> Nat]]
          /\ \A r \in Shards : r # s => size'[r] = size[r]
      <4>1. entries \in SUBSET (us \X Keys)
        BY DEF Entries
      <4>2. QED
        BY <1>1, <2>2, <3>1, <4>1, SizesOfEntries
    <3>3. \A r \in Shards : r # s => applied'[r] = applied[r]
      BY <1>1, <2>2 DEF Apply, OnceInv, AppliedOK
    <3>4. QED
      BY <3>2, <3>3
  <2>3. QED
    BY <2>1, <2>2 DEF AddingStep, Adds
<1>4. StateOK'
  BY <1>3 DEF StateOK, ModeStep, ClocksCount
<1>5. Elsewhere(s)
  BY <1>1, <1>3 DEF Elsewhere, ModeStep, ClocksCount, CallStep, AddingStep, OnceInv, SentOK
<1>6. QED
  BY <1>1, <1>2, <1>4, <1>5, StepGrows DEF TypeInv

(* Every operation is such a step. *)

LEMMA ModesStay ==
  ASSUME TypeInv, NEW s \in Shards, UNCHANGED modeVars
  PROVE  ModeStep(s)
BY DEF TypeInv, StateOK, ModeStep, modeVars

LEMMA CallsStay ==
  ASSUME TypeInv, NEW s \in Shards, UNCHANGED callVars, Notify(s) \/ UNCHANGED threadVars
  PROVE  CallStep(s, {})
<1>1. /\ asleep' \in [Shards -> SUBSET Update] /\ awake' \in [Shards -> SUBSET Update]
      /\ outcome' \in [Shards -> [Pushes -> Results \cup {"none"}]]
      /\ \A r \in Shards : r # s =>
           asleep'[r] = asleep[r] /\ awake'[r] = awake[r] /\ outcome'[r] = outcome[r]
      /\ asleep'[s] \cap awake'[s] = {} /\ outcome'[s] = outcome[s]
      /\ asleep'[s] \cup awake'[s] = asleep[s] \cup awake[s]
  <2>1. /\ asleep \in [Shards -> SUBSET Update] /\ awake \in [Shards -> SUBSET Update]
        /\ outcome \in [Shards -> [Pushes -> Results \cup {"none"}]] /\ outcome' = outcome
        /\ asleep[s] \cap awake[s] = {}
    BY DEF TypeInv, CallsOK, callVars
  <2>2. CASE Notify(s)
    BY <2>1, <2>2 DEF Notify
  <2>3. CASE UNCHANGED threadVars
    BY <2>1, <2>3 DEF threadVars
  <2>4. QED
    BY <2>2, <2>3
<1>2. QED
  BY <1>1 DEF CallStep, Threads

LEMMA TurnCalls ==
  ASSUME TypeInv, NEW s \in Shards, NEW arrived, NEW u \in Threads(s) \cup arrived, NEW late,
         NEW barrier, u \in Update, arrived \subseteq {u}, Turn(s, u, barrier, late)
  PROVE  CallStep(s, arrived)
<1> DEFINE round == Round(InSync(workers'[s], workerMode'[s]), u, barrier)
           syncs == InSync(workers'[s], workerMode'[s])
<1>1. /\ asleep \in [Shards -> SUBSET Update] /\ awake \in [Shards -> SUBSET Update]
      /\ outcome \in [Shards -> [Pushes -> Results \cup {"none"}]]
      /\ asleep[s] \cap awake[s] = {} /\ u.id \in Pushes
  BY DEF TypeInv, CallsOK, Update
<1>2. ASSUME NEW result \in Results, Return(s, u, result),
             \/ Leave(s, u)
             \/ /\ asleep' = [asleep EXCEPT ![s] = {}]
                /\ awake' = [awake EXCEPT ![s] = (@ \cup asleep[s]) \ {u}]
      PROVE  CallStep(s, arrived)
  <2>1. /\ asleep' \in [Shards -> SUBSET Update] /\ awake' \in [Shards -> SUBSET Update]
        /\ \A r \in Shards : r # s => asleep'[r] = asleep[r] /\ awake'[r] = awake[r]
        /\ asleep'[s] \cap awake'[s] = {}
        /\ asleep'[s] \cup awake'[s] = (asleep[s] \cup awake[s]) \ {u}
    BY <1>1, <1>2 DEF Leave
  <2>2. /\ outcome' \in [Shards -> [Pushes -> Results \cup {"none"}]]
        /\ \A r \in Shards : r # s => outcome'[r] = outcome[r]
        /\ outcome'[s][u.id] = result
        /\ \A i \in Pushes : i # u.id => outcome'[s][i] = outcome[s][i]
    BY <1>1, <1>2 DEF Return
  <2>3. CallLeaves(s, u)
    BY <2>1, <2>2 DEF CallLeaves, Threads
  <2>4. QED
    BY <2>1, <2>2, <2>3 DEF CallStep
<1>3. CASE /\ asleep' = [asleep EXCEPT ![s] = @ \cup {u}]
           /\ awake' = [awake EXCEPT ![s] = @ \ {u}]
           /\ UNCHANGED outcome
  <2>1. /\ asleep' \in [Shards -> SUBSET Update] /\ awake' \in [Shards -> SUBSET Update]
        /\ \A r \in Shards : r # s => asleep'[r] = asleep[r] /\ awake'[r] = awake[r]
        /\ asleep'[s] \cap awake'[s] = {}
        /\ asleep'[s] \cup awake'[s] = (asleep[s] \cup awake[s]) \cup {u}
    BY <1>1, <1>3
  <2>2. CallStays(s, u)
    BY <1>3, <2>1 DEF CallStays, Threads
  <2>3. QED
    BY <1>1, <1>3, <2>1, <2>2 DEF CallStep
<1>4. CASE RoundApplies(s, u, syncs, round) \/ RoundRaises(s, u, round)
  BY <1>2, <1>4 DEF RoundApplies, RoundRaises, Results
<1>5. QED
  BY <1>2, <1>3, <1>4 DEF Turn, Results

LEMMA TurnCounts ==
  ASSUME TypeInv, NEW s \in Shards, NEW arrived \in SUBSET Update, NEW u \in Update, NEW late,
         Turn(s, u, pending[s] \cup arrived, late)
  PROVE  \E us : us \subseteq pending[s] \cup arrived /\ ClocksCount(s, us)
<1> DEFINE barrier == pending[s] \cup arrived
           syncs == InSync(workers'[s], workerMode'[s])
           round == Round(syncs, u, barrier)
<1>1. StateOK /\ SentOK
  BY DEF TypeInv, OnceInv
<1>2. CASE UNCHANGED appliedClock
  BY <1>1, <1>2, ClocksStay
<1>3. CASE Ready(syncs, u, barrier) /\ AdvanceClocks(s, syncs, u.clock)
  <2>1. /\ round \in SUBSET Update /\ \A v \in round : v.worker \in syncs /\ v.clock = u.clock
        /\ \A w \in syncs : \E v \in round : v.worker = w
        /\ round \subseteq barrier
    BY <1>1, <1>3 DEF Round, Ready, SentOK
  <2>2. u.clock \in Clocks
    BY DEF Update
  <2> HIDE DEF round, syncs
  <2>3. QED
    BY <1>1, <1>3, <2>1, <2>2, AdvanceCounts
<1>4. QED
  BY <1>2, <1>3 DEF Turn, RoundApplies, RoundRaises

LEMMA RegisterStep ==
  ASSUME TypeInv, NEW s \in Shards, NEW w \in Workers, Register(s, w)
  PROVE  TypeInv' /\ Elsewhere(s) /\ Grows(s)
<1>1. ModeStep(s)
  BY DEF Register, TypeInv, StateOK, ModeStep
<1>2. CallStep(s, {})
  BY CallsStay DEF Register
<1>3. AddingStep(s, {}, {})
  BY NothingAddedStep DEF Register, TypeInv, OnceInv, barrierVars, callVars
<1>4. ClocksCount(s, {})
  BY ClocksStay DEF Register, TypeInv, barrierVars
<1>5. QED
  BY <1>1, <1>2, <1>3, <1>4, StepKeepsTypes

LEMMA EnlistStep ==
  ASSUME TypeInv, NEW s \in Shards, NEW w \in Workers, Enlist(s, w)
  PROVE  ModeStep(s)
<1>1. CASE UNCHANGED modeVars
  BY <1>1, ModesStay
<1>2. CASE /\ workers' = [workers EXCEPT ![s] = @ \cup {w}]
           /\ workerMode' = [workerMode EXCEPT ![s][w] = mode[s]]
           /\ UNCHANGED mode
  <2>1. StateOK
    BY DEF TypeInv
  <2>2. /\ workerMode' \in [Shards -> [Workers -> Modes]]
        /\ \A r \in Shards : r # s => workerMode'[r] = workerMode[r]
    BY <1>2, <2>1 DEF StateOK
  <2>3. QED
    BY <1>2, <2>1, <2>2 DEF StateOK, ModeStep
<1>3. QED
  BY <1>1, <1>2 DEF Enlist, modeVars

LEMMA PushStep ==
  ASSUME TypeInv, NEW s \in Shards, NEW u \in Update, Push(s, u)
  PROVE  TypeInv' /\ Elsewhere(s) /\ Grows(s)
<1>1. SentOK /\ StateOK /\ CallsOK
  BY DEF TypeInv, OnceInv
<1>2. Enter(s, u) /\ u.worker \in Workers /\ u.clock \in Clocks /\ u.id \in Pushes
  BY DEF Push, PushAsync, PushRefused, PushSync, Update
<1>3. ModeStep(s)
  BY <1>2, EnlistStep DEF Enter
<1>4. PICK us : AddingStep(s, {u}, us)
  BY <1>1, PushIsAddingStep
<1>5. u \notin sent[s]
  BY <1>2 DEF Enter
<1>6. ASSUME UNCHANGED threadVars, NEW result \in Results, Return(s, u, result)
      PROVE  CallStep(s, {u})
  <2>1. /\ u \notin Threads(s) /\ Threads(s)' = Threads(s)
        /\ asleep' = asleep /\ awake' = awake /\ asleep[s] \cap awake[s] = {}
    BY <1>1, <1>5, <1>6 DEF CallsOK, Threads, threadVars
  <2>2. /\ outcome' \in [Shards -> [Pushes -> Results \cup {"none"}]]
        /\ \A r \in Shards : r # s => outcome'[r] = outcome[r]
        /\ outcome'[s][u.id] = result
        /\ \A i \in Pushes : i # u.id => outcome'[s][i] = outcome[s][i]
    BY <1>1, <1>2, <1>6 DEF Return, CallsOK
  <2>3. CallLeaves(s, u)
    BY <2>1, <2>2 DEF CallLeaves
  <2>4. QED
    BY <1>1, <2>1, <2>2, <2>3 DEF CallStep, CallsOK
<1>7. CASE PushAsync(s, u)
  <2>1. CallStep(s, {u})
    BY <1>6, <1>7 DEF PushAsync, Results
  <2>2. \E x : x \subseteq pending[s] \cup {u} /\ ClocksCount(s, x)
    <3>1. /\ {u} \in SUBSET Update /\ \A v \in {u} : v.worker \in {u.worker} /\ v.clock = u.clock
          /\ \A w \in {u.worker} : \E v \in {u} : v.worker = w
      OBVIOUS
    <3>2. CASE AdvanceClocks(s, {u.worker}, u.clock)
      <4>1. ClocksCount(s, {u})
        BY <1>1, <1>2, <3>1, <3>2, AdvanceCounts
      <4>2. QED
        BY <4>1
    <3>3. CASE UNCHANGED appliedClock
      BY <1>1, <3>3, ClocksStay
    <3>4. QED
      BY <1>7, <3>2, <3>3 DEF PushAsync
  <2>3. QED
    BY <1>3, <1>4, <2>1, <2>2, StepKeepsTypes
<1>8. CASE PushRefused(s, u)
  <2>1. CallStep(s, {u})
    BY <1>6, <1>8 DEF PushRefused, Results
  <2>2. ClocksCount(s, {})
    BY <1>1, <1>8, ClocksStay DEF PushRefused, barrierVars
  <2>3. QED
    BY <1>3, <1>4, <2>1, <2>2, StepKeepsTypes
<1>9. CASE PushSync(s, u)
  <2>1. Turn(s, u, pending[s] \cup {u}, FALSE)
    BY <1>9 DEF PushSync
  <2>2. CallStep(s, {u})
    BY <2>1, TurnCalls
  <2>3. \E x : x \subseteq pending[s] \cup {u} /\ ClocksCount(s, x)
    BY <2>1, TurnCounts
  <2>4. QED
    BY <1>3, <1>4, <2>2, <2>3, StepKeepsTypes
<1>10. QED
  BY <1>7, <1>8, <1>9 DEF Push

LEMMA WakeStep ==
  ASSUME TypeInv, NEW s \in Shards, NEW u \in Threads(s), Wake(s, u) \/ Expire(s, u)
  PROVE  TypeInv' /\ Elsewhere(s) /\ Grows(s)
<1>1. SentOK /\ CallsOK /\ u \in Update
  BY DEF TypeInv, OnceInv, CallsOK, SentOK
<1>2. ModeStep(s)
  BY ModesStay DEF Wake, Expire
<1>3. PICK us : AddingStep(s, {}, us)
  BY <1>1, WakeIsAddingStep
<1>4. PICK late \in BOOLEAN : Turn(s, u, pending[s], late)
  BY DEF Wake, Expire
<1>5. CallStep(s, {})
  BY <1>1, <1>4, TurnCalls
<1>6. \E x : x \subseteq pending[s] \cup {} /\ ClocksCount(s, x)
  <2>1. pending[s] \cup {} = pending[s] /\ {} \in SUBSET Update
    OBVIOUS
  <2>2. Turn(s, u, pending[s] \cup {}, late)
    BY <1>4, <2>1
  <2>3. QED
    BY <1>1, <2>1, <2>2, TurnCounts
<1>7. QED
  BY <1>2, <1>3, <1>5, <1>6, StepKeepsTypes

LEMMA SetModeStep ==
  ASSUME TypeInv, NEW s \in Shards, NEW m \in Modes, NEW ws, SetMode(s, m, ws)
  PROVE  TypeInv' /\ Elsewhere(s) /\ Grows(s)
<1>1. SentOK /\ StateOK /\ CallsOK
  BY DEF TypeInv, OnceInv
<1>2. PICK us : AddingStep(s, {}, us)
  BY <1>1, SetModeIsAddingStep
<1>3. ASSUME NEW n \in Modes, SetWorkerModes(s, n, ws), UNCHANGED workers,
             mode' = mode \/ mode' = [mode EXCEPT ![s] = n]
      PROVE  ModeStep(s)
  <2>1. /\ workerMode' \in [Shards -> [Workers -> Modes]]
        /\ \A r \in Shards : r # s => workerMode'[r] = workerMode[r]
    BY <1>1, <1>3 DEF SetWorkerModes, StateOK
  <2>2. QED
    BY <1>1, <1>3, <2>1 DEF ModeStep, StateOK
<1>4. CASE SetSameMode(s, m, ws)
  <2>1. ModeStep(s)
    BY <1>3, <1>4 DEF SetSameMode
  <2>2. CallStep(s, {}) /\ ClocksCount(s, {})
    BY <1>1, <1>4, CallsStay, ClocksStay DEF SetSameMode, barrierVars
  <2>3. QED
    BY <1>2, <2>1, <2>2, StepKeepsTypes
<1>5. CASE m = "sync" /\ SwitchToSync(s, ws)
  <2>1. ModeStep(s)
    BY <1>3, <1>5 DEF SwitchToSync
  <2>2. CallStep(s, {}) /\ ClocksCount(s, {})
    BY <1>1, <1>5, CallsStay, ClocksStay DEF SwitchToSync, barrierVars
  <2>3. QED
    BY <1>2, <2>1, <2>2, StepKeepsTypes
<1>6. CASE m = "async" /\ SwitchToAsync(s, ws)
  <2>1. ModeStep(s)
    BY <1>3, <1>6 DEF SwitchToAsync
  <2>2. CallStep(s, {})
    BY <1>6, CallsStay DEF SwitchToAsync, Flush, FlushRaises
  <2>3. PICK flushed \in SUBSET pending[s] :
               appliedClock' = [appliedClock EXCEPT ![s] = ClocksAfterFlush(s, flushed)]
    BY <1>6 DEF SwitchToAsync, Flush, FlushRaises, EarlierSlots
  <2>4. flushed \in SUBSET Update /\ IsFiniteSet(flushed)
    <3>1. IsFiniteSet(sent[s]) /\ flushed \in SUBSET sent[s]
      BY <1>1 DEF CallsOK, SentOK
    <3>2. QED
      BY <1>1, <3>1, FS_Subset DEF SentOK
  <2>5. ClocksCount(s, flushed)
    BY <1>1, <2>3, <2>4, FlushCounts
  <2>6. QED
    BY <1>2, <2>1, <2>2, <2>5, StepKeepsTypes
<1>7. QED
  BY <1>4, <1>5, <1>6 DEF SetMode

-----------------------------------------------------------------------------
(* As long as all pushes agree on the lengths nothing can raise.           *)

LEMMA NothingRaises ==
  ASSUME TypeInv, NEW s \in Shards, Kept(s), NEW all \in SUBSET Update, IsFiniteSet(all),
         sent[s] \subseteq all, SameLengths(all), NEW us \in SUBSET all
  PROVE  /\ Mergeable(us) /\ Mismatched(s, us) = {} /\ Prefixes(s, us) = {}
         /\ us \subseteq pending[s] => \A u \in us : Misfits(s, u) = {}
<1>1. Mergeable(us)
  <2>1. us \in SUBSET Update /\ IsFiniteSet(us) /\ SameLengths(us)
    BY FS_Subset DEF SameLengths
  <2>2. QED
    BY <2>1, MergeableMeans
<1>2. \A u \in all, k \in Keys : u.sizes[k] # 0 => size[s][k] \in {0, u.sizes[k]}
  BY DEF Kept, SameLengths
<1>3. Mismatched(s, us) = {}
  BY <1>2 DEF Mismatched, Lengths
<1>4. Prefixes(s, us) = {}
  BY <1>3 DEF Prefixes
<1>5. ASSUME us \subseteq pending[s], NEW u \in us PROVE Misfits(s, u) = {}
  <2> SUFFICES ASSUME NEW k \in Keys, u.sizes[k] # 0
               PROVE  ({size[s][k]} \cup Lengths(EarlierSlots(s, u), k)) \ {0, u.sizes[k]} = {}
    BY DEF Misfits
  <2>1. \A v \in EarlierSlots(s, u) : v \in all
    BY DEF EarlierSlots, TypeInv, OnceInv, SentOK
  <2>2. Lengths(EarlierSlots(s, u), k) \subseteq {0, u.sizes[k]}
    BY <2>1 DEF Lengths, SameLengths
  <2>3. QED
    BY <1>2, <2>2
<1>6. QED
  BY <1>1, <1>3, <1>4, <1>5

(* Some updates leave the barrier, are added to every key they carry, and   *)
(* their clocks are counted.                                               *)
Takes(s, arrived, us) ==
  /\ us \subseteq pending[s] \cup arrived
  /\ arrived \subseteq Update
  /\ \A u \in arrived : u.id \notin {v.id : v \in sent[s]}
  /\ sent' = [sent EXCEPT ![s] = @ \cup arrived]
  /\ \/ pending' = [pending EXCEPT ![s] = (pending[s] \cup arrived) \ us]
     \/ arrived = us /\ UNCHANGED pending
  /\ ClocksCount(s, us)
  /\ Apply(s, Entries(us)) \/ (us = {} /\ UNCHANGED valueVars)

LEMMA TakesKeeps ==
  ASSUME TypeInv, TypeInv', NEW s \in Shards, NEW arrived, NEW us, Takes(s, arrived, us), Kept(s)
  PROVE  Kept(s)'
<1> DEFINE barrier == pending[s] \cup arrived
<1>1. SentOK /\ SentOK' /\ AppliedOK /\ AppliedOK' /\ PendingIsNotApplied /\ AppliedWasSent
      /\ StateOK /\ StateOK'
  BY DEF TypeInv, OnceInv
<1>2. /\ sent'[s] = sent[s] \cup arrived /\ DistinctNames(sent'[s])
      /\ \A u \in arrived : u \notin sent[s] /\ \A v \in sent[s] : u.id # v.id
  BY <1>1 DEF Takes, SentOK
<1>3. pending'[s] = barrier \ us
  <2>1. CASE pending' = [pending EXCEPT ![s] = barrier \ us]
    BY <1>1, <2>1 DEF SentOK
  <2>2. CASE arrived = us /\ UNCHANGED pending
    <3>1. \A u \in pending[s] : u \notin us
      BY <1>1, <1>2, <2>2 DEF SentOK
    <3>2. QED
      BY <2>2, <3>1
  <2>3. QED
    BY <2>1, <2>2 DEF Takes
<1>4. \A u \in sent'[s] : u \in Update /\ u.id \in Pushes /\ u.worker \in Workers /\ u.clock \in Int
  BY <1>1, ClocksAreInts DEF SentOK, Update
<1>5. us \subseteq sent'[s] /\ us \in SUBSET Update /\ DistinctNames(us)
  BY <1>1, <1>2, <1>4 DEF Takes, SentOK, DistinctNames
<1>6. \A w \in Workers : /\ appliedClock[s][w] \in Int /\ appliedClock'[s][w] \in Int
                         /\ appliedClock[s][w] <= appliedClock'[s][w]
  <2>1. \A w \in Workers : appliedClock[s][w] \in Int
    BY <1>1, ClocksAreInts
  <2>2. \A w \in Workers : appliedClock'[s][w] \in Clocks \cup {-1}
    BY <1>1 DEF StateOK
  <2>3. QED
    BY <2>1, <2>2, ClocksAreInts DEF Takes, ClocksCount
<1> DEFINE these(i, k) == {e \in Entries(us) : e[1].id = i /\ e[2] = k}
<1>7. CASE us = {} /\ UNCHANGED valueVars
  <2>1. \A u \in sent'[s] \ pending'[s] : u \in sent[s] \ pending[s]
    BY <1>2, <1>3, <1>7
  <2>2. applied' = applied /\ size' = size
    BY <1>7 DEF valueVars
  <2>3. ASSUME NEW u \in sent'[s] \ pending'[s]
        PROVE  /\ u.clock <= appliedClock'[s][u.worker]
               /\ \A k \in Keys : u.sizes[k] # 0 => applied'[s][u.id][k] = 1
    <3>1. u.clock <= appliedClock[s][u.worker] /\ \A k \in Keys : u.sizes[k] # 0 => applied[s][u.id][k] = 1
      BY <2>1 DEF Kept
    <3>2. QED
      BY <1>4, <1>6, <2>2, <3>1
  <2>4. \A k \in Keys : size'[s][k] = 0 \/ \E u \in sent'[s] : u.sizes[k] = size'[s][k]
    BY <1>2, <2>2 DEF Kept
  <2>5. QED
    BY <2>3, <2>4 DEF Kept
<1>8. CASE Apply(s, Entries(us))
  <2>1. \A i \in Pushes, k \in Keys :
          applied'[s][i][k] = applied[s][i][k] + Cardinality(these(i, k))
    BY <1>1, <1>8 DEF Apply, AppliedOK
  <2>2. ASSUME NEW i \in Pushes, NEW k \in Keys PROVE Cardinality(these(i, k)) \in {0, 1}
    BY <1>5, OneEntry
  <2>3. ASSUME NEW u \in us, NEW k \in Keys, u.sizes[k] # 0
        PROVE  Cardinality(these(u.id, k)) = 1
    <3>1. \A e \in these(u.id, k) : e = <<u, k>>
      BY <1>5 DEF Entries, DistinctNames
    <3>2. <<u, k>> \in these(u.id, k)
      BY <2>3 DEF Entries
    <3>3. these(u.id, k) = {<<u, k>>}
      BY <3>1, <3>2
    <3>4. Cardinality({<<u, k>>}) = 1
      BY FS_Singleton
    <3>5. QED
      BY <3>3, <3>4
  <2> HIDE DEF these
  <2>4. ASSUME NEW u \in sent'[s] \ pending'[s]
        PROVE  /\ u.clock <= appliedClock'[s][u.worker]
               /\ \A k \in Keys : u.sizes[k] # 0 => applied'[s][u.id][k] = 1
    <3>1. CASE u \in us
      <4>1. u.clock <= appliedClock'[s][u.worker]
        BY <3>1 DEF Takes, ClocksCount
      <4>2. ASSUME NEW k \in Keys, u.sizes[k] # 0 PROVE applied'[s][u.id][k] = 1
        <5>1. applied'[s][u.id][k] = applied[s][u.id][k] + 1
          BY <1>4, <2>1, <2>3, <3>1, <4>2
        <5>2. applied[s][u.id][k] \in {0, 1} /\ applied'[s][u.id][k] \in {0, 1}
          BY <1>1, <1>4 DEF AppliedOK
        <5>3. QED
          BY <5>1, <5>2
      <4>3. QED
        BY <4>1, <4>2
    <3>2. CASE u \notin us
      <4>1. u \in sent[s] \ pending[s]
        BY <1>2, <1>3, <3>2
      <4>2. u.clock <= appliedClock[s][u.worker]
        BY <4>1 DEF Kept
      <4>3. u.clock <= appliedClock'[s][u.worker]
        BY <1>4, <1>6, <4>2
      <4>4. ASSUME NEW k \in Keys, u.sizes[k] # 0 PROVE applied'[s][u.id][k] = 1
        <5>1. applied[s][u.id][k] = 1
          BY <4>1, <4>4 DEF Kept
        <5>2. applied'[s][u.id][k] \in {0, 1} /\ Cardinality(these(u.id, k)) \in {0, 1}
          BY <1>1, <1>4, <2>2 DEF AppliedOK
        <5>3. QED
          BY <1>4, <2>1, <5>1, <5>2
      <4>5. QED
        BY <4>3, <4>4
    <3>3. QED
      BY <3>1, <3>2
  <2>5. ASSUME NEW k \in Keys
        PROVE  size'[s][k] = 0 \/ \E u \in sent'[s] : u.sizes[k] = size'[s][k]
    <3>1. size'[s][k] = size[s][k] \/ \E u \in us : u.sizes[k] = size'[s][k]
      <4>1. Entries(us) \in SUBSET (us \X Keys)
        BY DEF Entries
      <4>2. \A j \in Keys : size'[s][j] = size[s][j] \/ \E u \in us : u.sizes[j] = size'[s][j]
        BY <1>1, <1>5, <1>8, <4>1, SizesOfEntries
      <4>3. QED
        BY <4>2
    <3>2. QED
      BY <1>2, <1>5, <3>1 DEF Kept
  <2>6. QED
    BY <2>4, <2>5 DEF Kept
<1>9. QED
  BY <1>7, <1>8 DEF Takes

-----------------------------------------------------------------------------
(* A turn of the loop in push. *)

Barrier(s) == Kept(s) /\ Waits(s) /\ Sleeps(s)

(* A round that is not complete stays so when more workers are waited for   *)
(* and updates of other rounds come.                                       *)
LEMMA NotReadyGrows ==
  ASSUME NEW ss, NEW ts, ss \subseteq ts, NEW b, NEW c, b \subseteq c, NEW u,
         \A v \in c \ b : v.clock # u.clock, ~Ready(ss, u, b)
  PROVE  ~Ready(ts, u, c)
<1>1. {v.worker : v \in Round(ss, u, b)} \subseteq ss
  BY DEF Round
<1>2. PICK w \in ss : w \notin {v.worker : v \in Round(ss, u, b)}
  BY <1>1 DEF Ready
<1>3. \A v \in Round(ts, u, c) : v \in b /\ v.clock = u.clock
  BY DEF Round
<1>4. w \notin {v.worker : v \in Round(ts, u, c)}
  BY <1>2, <1>3 DEF Round
<1>5. QED
  BY <1>2, <1>4 DEF Ready

(* The updates of a shard are finitely many; those of earlier agree if     *)
(* those of later do.                                                      *)
LEMMA LengthsOfBefore ==
  ASSUME NEW s \in Shards, sent[s] \subseteq sent'[s], SameLengths(sent'[s])
  PROVE  SameLengths(sent[s])
BY DEF SameLengths

LEMMA TurnBarrier ==
  ASSUME TypeInv, TypeInv', NEW s \in Shards, Barrier(s), SameLengths(sent'[s]),
         NEW arrived \in SUBSET Update, NEW u \in Update, NEW late \in BOOLEAN,
         u \in Threads(s) \cup arrived, arrived \subseteq {u}, late => arrived = {},
         \A v \in arrived : v.id \notin {w.id : w \in sent[s]},
         sent' = [sent EXCEPT ![s] = @ \cup arrived],
         mode'[s] = mode[s],
         SyncWorkers(s) \subseteq SyncWorkers(s)',
         arrived = {} => SyncWorkers(s)' = SyncWorkers(s),
         arrived # {} => mode[s] = "sync" /\ u.worker \in SyncWorkers(s)',
         Turn(s, u, pending[s] \cup arrived, late)
  PROVE  Barrier(s)'
<1> DEFINE barrier == pending[s] \cup arrived
           syncs == InSync(workers'[s], workerMode'[s])
           round == Round(syncs, u, barrier)
<1>1. /\ SentOK /\ SentOK' /\ StateOK /\ CallsOK /\ CallsOK'
      /\ Kept(s) /\ Waits(s) /\ Sleeps(s)
      /\ sent'[s] = sent[s] \cup arrived /\ sent[s] \subseteq sent'[s]
      /\ barrier \subseteq sent'[s] /\ u \in sent'[s] /\ sent'[s] \in SUBSET Update
      /\ IsFiniteSet(sent'[s])
      /\ DistinctNames(sent'[s])
      /\ u.id \in Pushes
      /\ syncs = SyncWorkers(s)'
  <2>1. SentOK /\ SentOK' /\ StateOK /\ CallsOK /\ CallsOK' /\ Kept(s) /\ Waits(s) /\ Sleeps(s)
    BY DEF TypeInv, OnceInv, Barrier
  <2>2. sent'[s] = sent[s] \cup arrived /\ pending[s] \subseteq sent[s] /\ Threads(s) \subseteq sent[s]
    BY <2>1 DEF SentOK, CallsOK
  <2>3. /\ sent'[s] \in SUBSET Update /\ IsFiniteSet(sent'[s]) /\ DistinctNames(sent'[s])
    BY <2>1 DEF SentOK, CallsOK
  <2>4. u.id \in Pushes /\ syncs = SyncWorkers(s)'
    BY DEF Update, SyncWorkers
  <2>5. QED
    BY <2>1, <2>2, <2>3, <2>4
<1>2. ASSUME NEW us \in SUBSET barrier, pending' = [pending EXCEPT ![s] = barrier \ us],
             ClocksCount(s, us), Apply(s, Entries(us)) \/ (us = {} /\ UNCHANGED valueVars)
      PROVE  Kept(s)' /\ pending'[s] = barrier \ us
  <2>1. Takes(s, arrived, us)
    BY <1>2 DEF Takes
  <2>2. pending'[s] = barrier \ us
    BY <1>1, <1>2 DEF SentOK
  <2>3. QED
    BY <1>1, <2>1, <2>2, TakesKeeps
<1>3. ASSUME pending' = [pending EXCEPT ![s] = barrier], UNCHANGED <<appliedClock, valueVars>>
      PROVE  Kept(s)' /\ pending'[s] = barrier
  <2>1. barrier \ {} = barrier /\ {} \in SUBSET barrier
    OBVIOUS
  <2>2. ClocksCount(s, {})
    BY <1>1, <1>3, ClocksStay
  <2>3. QED
    BY <1>2, <1>3, <2>1, <2>2
<1>4. \A v \in barrier : mode'[s] = "sync" /\ v.worker \in SyncWorkers(s)'
  BY <1>1 DEF Waits
<1>5. /\ \A v \in sent'[s] : v # u => v.id # u.id /\ v.id \in Pushes
      /\ \A v \in pending[s] : outcome[s][v.id] \notin {"applied", "switched"}
      /\ \A v \in arrived : outcome[s][v.id] = "none"
  <2>1. \A v \in sent'[s] : v # u => v.id # u.id /\ v.id \in Pushes
    BY <1>1 DEF DistinctNames, Update
  <2>2. \A v \in pending[s] : outcome[s][v.id] \notin {"applied", "switched"}
    BY <1>1 DEF Waits
  <2>3. \A v \in arrived : outcome[s][v.id] = "none"
    BY <1>1 DEF CallsOK
  <2>4. QED
    BY <2>1, <2>2, <2>3
<1>6. ASSUME NEW result, Return(s, u, result), pending'[s] \subseteq barrier,
             u \in pending'[s] => result \notin {"applied", "switched"}
      PROVE  Waits(s)'
  <2>1. outcome'[s][u.id] = result
    BY <1>1, <1>6 DEF Return, CallsOK
  <2>2. \A v \in barrier : v # u => outcome'[s][v.id] = outcome[s][v.id]
    BY <1>1, <1>5, <1>6 DEF Return, CallsOK
  <2>3. \A v \in barrier : v # u => outcome[s][v.id] \notin {"applied", "switched"}
    BY <1>5
  <2>4. QED
    BY <1>4, <1>6, <2>1, <2>2, <2>3 DEF Waits
<1>7. ASSUME Leave(s, u), arrived = {}, pending'[s] = barrier PROVE Sleeps(s)'
  <2>1. asleep'[s] \subseteq asleep[s] /\ pending'[s] = pending[s] /\ SyncWorkers(s)' = SyncWorkers(s)
    BY <1>1, <1>7 DEF Leave, CallsOK
  <2>2. QED
    BY <1>1, <2>1 DEF Sleeps, SameSlot
<1>8. u \in barrier => u \in SameSlot(barrier, u)
  BY DEF SameSlot
<1>9. CASE /\ mode[s] = "async" /\ Leave(s, u) /\ Return(s, u, "switched")
           /\ pending' = [pending EXCEPT ![s] = barrier]
           /\ UNCHANGED <<appliedClock, valueVars>>
  <2>1. arrived = {} /\ pending[s] = {}
    BY <1>1, <1>9 DEF Waits
  <2>2. Kept(s)' /\ pending'[s] = barrier /\ u \notin pending'[s]
    BY <1>3, <1>9, <2>1
  <2>3. QED
    BY <1>6, <1>7, <1>9, <2>1, <2>2 DEF Barrier
<1>10. CASE /\ Joined(s, u, barrier) /\ Leave(s, u) /\ Return(s, u, "applied")
            /\ pending' = [pending EXCEPT ![s] = barrier]
            /\ UNCHANGED <<appliedClock, valueVars>>
  <2>1. u \notin barrier /\ arrived = {}
    BY <1>8, <1>10 DEF Joined
  <2>2. Kept(s)' /\ pending'[s] = barrier
    BY <1>3, <1>10
  <2>3. QED
    BY <1>6, <1>7, <1>10, <2>1, <2>2 DEF Barrier
<1>11. CASE /\ Ready(syncs, u, barrier)
            /\ pending' = [pending EXCEPT ![s] = barrier \ round]
            /\ RoundApplies(s, u, syncs, round) \/ RoundRaises(s, u, round)
  <2>1. /\ round \in SUBSET barrier /\ (u \in barrier => u \in round)
        /\ \A v \in round : v.worker \in syncs /\ v.clock = u.clock
        /\ \A w \in syncs : \E v \in round : v.worker = w
    BY <1>1, <1>4, <1>11 DEF Round, Ready
  <2> HIDE DEF round, syncs
  <2>2. Mergeable(round) /\ Prefixes(s, round) = {}
    BY <1>1, <2>1, NothingRaises
  <2>3. RoundApplies(s, u, syncs, round)
    BY <1>11, <2>2 DEF RoundRaises
  <2>4. ClocksCount(s, round)
    <3>1. u.clock \in Clocks /\ round \in SUBSET Update
      BY <1>1, <2>1 DEF Update
    <3>2. AdvanceClocks(s, syncs, u.clock)
      BY <2>3 DEF RoundApplies
    <3>3. \A v \in round : v.worker \in syncs /\ v.clock = u.clock
      BY <2>1
    <3>4. \A w \in syncs : \E v \in round : v.worker = w
      BY <2>1
    <3>5. QED
      BY <1>1, <3>1, <3>2, <3>3, <3>4, AdvanceCounts
  <2>5. Kept(s)' /\ pending'[s] = barrier \ round
    <3>1. Apply(s, Entries(round)) /\ pending' = [pending EXCEPT ![s] = barrier \ round]
      BY <1>11, <2>3 DEF RoundApplies
    <3>2. Takes(s, arrived, round)
      BY <2>1, <2>4, <3>1 DEF Takes
    <3>3. pending'[s] = barrier \ round
      BY <1>1, <3>1 DEF SentOK
    <3>4. QED
      BY <1>1, <3>2, <3>3, TakesKeeps
  <2>6. Waits(s)'
    BY <1>6, <2>1, <2>3, <2>5 DEF RoundApplies
  <2>7. Sleeps(s)'
    BY <1>1, <2>3 DEF RoundApplies, Sleeps, CallsOK
  <2>8. QED
    BY <2>5, <2>6, <2>7 DEF Barrier
<1>12. CASE /\ late /\ Leave(s, u) /\ Return(s, u, "error")
            /\ pending' = [pending EXCEPT ![s] = barrier]
            /\ UNCHANGED <<appliedClock, valueVars>>
  <2>1. Kept(s)' /\ pending'[s] = barrier
    BY <1>3, <1>12
  <2>2. QED
    BY <1>6, <1>7, <1>12, <2>1 DEF Barrier
<1>13. CASE /\ mode[s] = "sync" /\ ~Joined(s, u, barrier) /\ ~Ready(syncs, u, barrier)
            /\ pending' = [pending EXCEPT ![s] = barrier]
            /\ UNCHANGED <<appliedClock, valueVars>>
            /\ asleep' = [asleep EXCEPT ![s] = @ \cup {u}]
            /\ UNCHANGED outcome
  <2>1. Kept(s)' /\ pending'[s] = barrier
    BY <1>3, <1>13
  <2>2. Waits(s)'
    BY <1>4, <1>5, <1>13, <2>1 DEF Waits
  <2>3. SameSlot(barrier, u) # {}
    <3>1. CASE u \in barrier
      BY <1>8, <3>1
    <3>2. CASE u \notin barrier
      <4>1. u \in sent[s] \ pending[s]
        BY <1>1, <3>2
      <4>2. u.clock <= appliedClock[s][u.worker]
        BY <1>1, <4>1 DEF Kept
      <4>3. u.clock \in Int /\ appliedClock[s][u.worker] \in Int
        BY <1>1, ClocksAreInts DEF Update
      <4>4. QED
        BY <1>13, <4>2, <4>3 DEF Joined
    <3>3. QED
      BY <3>1, <3>2
  <2>4. ASSUME NEW v \in asleep[s] PROVE ~Ready(SyncWorkers(s)', v, barrier)
    <3>1. ~Ready(SyncWorkers(s), v, pending[s])
      BY <1>1 DEF Sleeps
    <3>2. CASE arrived = {} \/ v.clock # u.clock
      BY <3>1, <3>2, NotReadyGrows
    <3>3. CASE v.clock = u.clock
      BY <1>1, <1>13, <3>3 DEF Ready, Round
    <3>4. QED
      BY <3>2, <3>3
  <2>5. \A v \in asleep[s] : SameSlot(barrier, v) # {}
    BY <1>1 DEF Sleeps, SameSlot
  <2>6. asleep'[s] = asleep[s] \cup {u}
    BY <1>1, <1>13 DEF CallsOK
  <2>7. Sleeps(s)'
    BY <1>1, <1>13, <2>1, <2>3, <2>4, <2>5, <2>6 DEF Sleeps
  <2>8. QED
    BY <2>1, <2>2, <2>7 DEF Barrier
<1>14. QED
  BY <1>9, <1>10, <1>11, <1>12, <1>13 DEF Turn

-----------------------------------------------------------------------------
(* The operations keep the barrier as long as all pushes agree on lengths.  *)

LEMMA KeptStays ==
  ASSUME NEW s \in Shards, Kept(s), UNCHANGED <<sent, barrierVars, valueVars>>
  PROVE  Kept(s)'
BY DEF Kept, barrierVars, valueVars

(* Who sleeps stays asleep: the barrier is the same and the workers waited  *)
(* for are more.                                                           *)
LEMMA SleepsStays ==
  ASSUME NEW s \in Shards, Sleeps(s), pending'[s] = pending[s], asleep'[s] = asleep[s],
         mode'[s] = mode[s], mode[s] = "sync" => SyncWorkers(s) \subseteq SyncWorkers(s)'
  PROVE  Sleeps(s)'
<1> SUFFICES ASSUME NEW u \in asleep[s]
             PROVE  /\ mode[s] = "sync"
                    /\ SameSlot(pending[s], u) # {}
                    /\ ~Ready(SyncWorkers(s)', u, pending[s])
  <2>1. \A u : SameSlot(pending[s], u)' = SameSlot(pending[s], u)
    BY DEF SameSlot
  <2>2. \A u : Ready(SyncWorkers(s), u, pending[s])' <=> Ready(SyncWorkers(s)', u, pending[s])
    BY DEF Ready, Round
  <2>3. QED
    BY <2>1, <2>2 DEF Sleeps
<1>1. mode[s] = "sync" /\ SameSlot(pending[s], u) # {} /\ ~Ready(SyncWorkers(s), u, pending[s])
  BY DEF Sleeps
<1>2. pending[s] \ pending[s] = {}
  OBVIOUS
<1>3. QED
  BY <1>1, <1>2, NotReadyGrows

LEMMA WaitsStays ==
  ASSUME NEW s \in Shards, Waits(s), pending'[s] = pending[s], mode'[s] = mode[s],
         \A u \in pending[s] : outcome'[s][u.id] = outcome[s][u.id],
         mode[s] = "sync" => SyncWorkers(s) \subseteq SyncWorkers(s)'
  PROVE  Waits(s)'
BY DEF Waits

(* In mode sync a worker that comes or is named is in sync mode. *)
LEMMA SyncWorkersGrow ==
  ASSUME TypeInv, NEW s \in Shards, mode[s] = "sync",
         \/ \E w \in Workers : Register(s, w) \/ Enlist(s, w)
         \/ \E ws : SetWorkerModes(s, "sync", ws) /\ UNCHANGED workers
  PROVE  SyncWorkers(s) \subseteq SyncWorkers(s)'
<1>1. StateOK
  BY DEF TypeInv
<1>2. CASE /\ UNCHANGED <<workers, workerMode>>
  BY <1>2 DEF SyncWorkers, InSync
<1>3. ASSUME NEW w \in Workers, workers' = [workers EXCEPT ![s] = @ \cup {w}],
             workerMode' = [workerMode EXCEPT ![s][w] = mode[s]]
      PROVE  SyncWorkers(s) \subseteq SyncWorkers(s)'
  <2>1. workers'[s] = workers[s] \cup {w} /\ workers[s] \subseteq Workers
    BY <1>1, <1>3 DEF StateOK
  <2>2. workerMode'[s] = [workerMode[s] EXCEPT ![w] = "sync"]
        /\ workerMode[s] \in [Workers -> Modes]
    BY <1>1, <1>3 DEF StateOK
  <2>3. QED
    BY <2>1, <2>2 DEF SyncWorkers, InSync
<1>4. ASSUME NEW ws, SetWorkerModes(s, "sync", ws), UNCHANGED workers
      PROVE  SyncWorkers(s) \subseteq SyncWorkers(s)'
  BY <1>1, <1>4 DEF SetWorkerModes, StateOK, SyncWorkers, InSync
<1>5. QED
  BY <1>2, <1>3, <1>4 DEF Register, Enlist

LEMMA RegisterBarrier ==
  ASSUME TypeInv, NEW s \in Shards, Barrier(s), NEW w \in Workers, Register(s, w)
  PROVE  Barrier(s)'
<1>1. Kept(s)'
  BY KeptStays DEF Barrier, Register, callVars
<1>2. Waits(s)'
  BY SyncWorkersGrow, WaitsStays DEF Barrier, Register, barrierVars, callVars
<1>3. Sleeps(s)'
  BY DEF Register, Notify, Sleeps, TypeInv, CallsOK
<1>4. QED
  BY <1>1, <1>2, <1>3 DEF Barrier

LEMMA PushBarrier ==
  ASSUME TypeInv, TypeInv', NEW s \in Shards, Barrier(s), SameLengths(sent'[s]),
         NEW u \in Update, Push(s, u)
  PROVE  Barrier(s)'
<1>1. /\ SentOK /\ SentOK' /\ StateOK /\ CallsOK /\ CallsOK'
      /\ Kept(s) /\ Waits(s) /\ Sleeps(s) /\ Enter(s, u)
  BY DEF TypeInv, OnceInv, Barrier, Push, PushAsync, PushRefused, PushSync
<1>2. /\ sent'[s] = sent[s] \cup {u} /\ sent' = [sent EXCEPT ![s] = @ \cup {u}]
      /\ \A v \in {u} : v.id \notin {w.id : w \in sent[s]}
      /\ sent'[s] \in SUBSET Update /\ IsFiniteSet(sent'[s])
      /\ pending[s] \subseteq sent[s]
      /\ u.id \in Pushes /\ u.worker \in Workers /\ u.clock \in Clocks
  <2>1. /\ sent' = [sent EXCEPT ![s] = @ \cup {u}]
        /\ \A v \in {u} : v.id \notin {w.id : w \in sent[s]}
    BY <1>1 DEF Enter
  <2>2. sent'[s] = sent[s] \cup {u} /\ sent'[s] \in SUBSET Update /\ pending[s] \subseteq sent[s]
    BY <1>1, <2>1 DEF SentOK
  <2>3. IsFiniteSet(sent'[s])
    BY <1>1 DEF CallsOK
  <2>4. u.id \in Pushes /\ u.worker \in Workers /\ u.clock \in Clocks
    BY DEF Update
  <2>5. QED
    BY <2>1, <2>2, <2>3, <2>4
<1>3. /\ mode' = mode /\ u.worker \in workers'[s]
      /\ mode[s] = "sync" => SyncWorkers(s) \subseteq SyncWorkers(s)'
  <2>1. Enlist(s, u.worker)
    BY <1>1 DEF Enter
  <2>2. mode[s] = "sync" => SyncWorkers(s) \subseteq SyncWorkers(s)'
    BY <1>2, <2>1, SyncWorkersGrow
  <2>3. QED
    BY <1>1, <2>1, <2>2 DEF Enlist, StateOK
<1>4. ASSUME NEW us \in SUBSET sent'[s]
      PROVE  Mergeable(us) /\ Prefixes(s, us) = {}
  BY <1>1, <1>2, NothingRaises
<1>5. CASE PushAsync(s, u)
  <2>1. Prefixes(s, {u}) = {}
    <3>1. {u} \in SUBSET sent'[s]
      BY <1>2
    <3>2. QED
      BY <1>4, <3>1
  <2>2. /\ Apply(s, Entries({u})) /\ AdvanceClocks(s, {u.worker}, u.clock)
        /\ Return(s, u, "applied") /\ UNCHANGED <<pending, threadVars>>
    BY <1>5, <2>1 DEF PushAsync
  <2>3. Kept(s)'
    <3>1. ClocksCount(s, {u})
      <4>1. /\ {u} \in SUBSET Update /\ \A v \in {u} : v.worker \in {u.worker} /\ v.clock = u.clock
            /\ \A w \in {u.worker} : \E v \in {u} : v.worker = w
        OBVIOUS
      <4>2. QED
        BY <1>1, <1>2, <2>2, <4>1, AdvanceCounts
    <3>2. Takes(s, {u}, {u})
      BY <1>2, <2>2, <3>1 DEF Takes
    <3>3. QED
      BY <1>1, <3>2, TakesKeeps
  <2>4. Waits(s)'
    <3>1. \A v \in pending[s] : v.id # u.id /\ v.id \in Pushes
      BY <1>1, <1>2 DEF SentOK, Update
    <3>2. \A v \in pending[s] : outcome'[s][v.id] = outcome[s][v.id]
      BY <1>1, <1>2, <2>2, <3>1 DEF Return, CallsOK
    <3>3. QED
      BY <1>1, <1>3, <2>2, <3>2, WaitsStays
  <2>5. Sleeps(s)'
    BY <1>1, <1>3, <2>2, SleepsStays DEF threadVars
  <2>6. QED
    BY <2>3, <2>4, <2>5 DEF Barrier
<1>6. CASE PushRefused(s, u)
  <2>1. SameSlot(pending[s], u) \cup {u} \in SUBSET sent'[s]
    BY <1>2 DEF SameSlot
  <2>2. QED
    BY <1>4, <1>6, <2>1 DEF PushRefused
<1>7. CASE PushSync(s, u)
  <2>1. /\ Turn(s, u, pending[s] \cup {u}, FALSE) /\ mode[s] # "async"
        /\ workerMode'[s][u.worker] # "async"
    BY <1>7 DEF PushSync, RunsAsync
  <2>2. mode[s] = "sync" /\ workerMode'[s][u.worker] = "sync"
    <3>1. mode[s] \in Modes /\ workerMode'[s][u.worker] \in Modes
      BY <1>1, <1>2 DEF TypeInv, StateOK
    <3>2. QED
      BY <2>1, <3>1 DEF Modes
  <2>3. u.worker \in SyncWorkers(s)'
    BY <1>3, <2>2 DEF SyncWorkers, InSync
  <2>4. /\ {u} \in SUBSET Update /\ u \in Threads(s) \cup {u} /\ {u} \subseteq {u} /\ {u} # {}
        /\ FALSE \in BOOLEAN /\ mode'[s] = mode[s] /\ SyncWorkers(s) \subseteq SyncWorkers(s)'
    BY <1>3, <2>2
  <2>5. QED
    BY <1>2, <2>1, <2>2, <2>3, <2>4, TurnBarrier
<1>8. QED
  BY <1>5, <1>6, <1>7 DEF Push

LEMMA WakeBarrier ==
  ASSUME TypeInv, TypeInv', NEW s \in Shards, Barrier(s), SameLengths(sent'[s]),
         NEW u \in Threads(s), Wake(s, u) \/ Expire(s, u)
  PROVE  Barrier(s)'
<1>1. /\ SentOK /\ u \in Update
  BY DEF TypeInv, OnceInv, CallsOK, SentOK
<1>2. /\ {} \in SUBSET Update /\ pending[s] \cup {} = pending[s]
      /\ sent' = [sent EXCEPT ![s] = @ \cup {}]
      /\ mode'[s] = mode[s] /\ SyncWorkers(s)' = SyncWorkers(s)
  <2>1. UNCHANGED <<modeVars, sent>>
    BY DEF Wake, Expire
  <2>2. QED
    BY <1>1, <2>1 DEF SentOK, modeVars, SyncWorkers
<1>3. PICK late \in BOOLEAN : Turn(s, u, pending[s] \cup {}, late)
  BY <1>2 DEF Wake, Expire
<1>4. QED
  BY <1>1, <1>2, <1>3, TurnBarrier

LEMMA SetModeBarrier ==
  ASSUME TypeInv, TypeInv', NEW s \in Shards, Barrier(s), SameLengths(sent[s]),
         NEW m \in Modes, NEW ws, SetMode(s, m, ws)
  PROVE  Barrier(s)'
<1>1. SentOK /\ StateOK /\ CallsOK /\ Kept(s) /\ Waits(s) /\ Sleeps(s)
  BY DEF TypeInv, OnceInv, Barrier
<1>2. mode[s] = "async" => pending[s] = {} /\ asleep[s] = {}
  BY <1>1 DEF Waits, Sleeps
<1>3. CASE SetSameMode(s, m, ws)
  <2>1. /\ mode[s] = m /\ SetWorkerModes(s, m, ws)
        /\ UNCHANGED <<mode, workers, barrierVars, valueVars, threadVars, callVars>>
    BY <1>3 DEF SetSameMode
  <2>2. mode[s] = "sync" => SyncWorkers(s) \subseteq SyncWorkers(s)'
    BY <2>1, SyncWorkersGrow
  <2>3. Kept(s)'
    BY <1>1, <2>1, KeptStays DEF callVars
  <2>4. Waits(s)'
    BY <1>1, <2>1, <2>2, WaitsStays DEF barrierVars, callVars
  <2>5. Sleeps(s)'
    BY <1>1, <2>1, <2>2, SleepsStays DEF barrierVars, threadVars
  <2>6. QED
    BY <2>3, <2>4, <2>5 DEF Barrier
<1>4. CASE SwitchToSync(s, ws)
  <2>1. Kept(s)'
    BY <1>1, <1>4, KeptStays DEF SwitchToSync, callVars
  <2>2. pending'[s] = {} /\ asleep'[s] = {}
    BY <1>1, <1>2, <1>4 DEF SwitchToSync, Notify, barrierVars, CallsOK
  <2>3. QED
    BY <2>1, <2>2 DEF Barrier, Waits, Sleeps
<1>5. CASE SwitchToAsync(s, ws)
  <2>1. \A u \in pending[s] : Misfits(s, u) = {}
    <3>1. /\ sent[s] \in SUBSET Update /\ IsFiniteSet(sent[s])
          /\ pending[s] \in SUBSET sent[s] /\ sent[s] \subseteq sent[s]
      BY <1>1 DEF SentOK, CallsOK
    <3>2. QED
      BY <1>1, <3>1, NothingRaises
  <2>2. Flush(s) /\ UNCHANGED callVars
    BY <1>5, <2>1 DEF SwitchToAsync, FlushRaises
  <2>3. pending'[s] = {} /\ asleep'[s] = {}
    BY <1>1, <2>2 DEF Flush, Notify, SentOK, CallsOK
  <2>4. Takes(s, {}, pending[s])
    <3>1. pending[s] \in SUBSET Update /\ IsFiniteSet(pending[s])
      <4>1. IsFiniteSet(sent[s]) /\ pending[s] \in SUBSET sent[s]
        BY <1>1 DEF SentOK, CallsOK
      <4>2. QED
        BY <1>1, <4>1, FS_Subset DEF SentOK
    <3>2. ClocksCount(s, pending[s])
      BY <1>1, <2>2, <3>1, FlushCounts DEF Flush
    <3>3. sent' = [sent EXCEPT ![s] = @ \cup {}] /\ (pending[s] \cup {}) \ pending[s] = {}
      BY <1>1, <2>2 DEF callVars, SentOK
    <3>4. QED
      BY <2>2, <3>2, <3>3 DEF Takes, Flush
  <2>5. Kept(s)'
    BY <1>1, <2>4, TakesKeeps
  <2>6. QED
    BY <2>3, <2>5 DEF Barrier, Waits, Sleeps
<1>6. QED
  BY <1>3, <1>4, <1>5 DEF SetMode

-----------------------------------------------------------------------------
LEMMA BarrierElsewhere ==
  ASSUME NEW s \in Shards, NEW r \in Shards, r # s, Elsewhere(s), Barrier(r)
  PROVE  Barrier(r)'
<1>1. Kept(r)'
  BY DEF Elsewhere, Barrier, Kept
<1>2. SyncWorkers(r)' = SyncWorkers(r)
  BY DEF Elsewhere, SyncWorkers
<1>3. Waits(r)'
  BY <1>2 DEF Elsewhere, Barrier, Waits
<1>4. Sleeps(r)'
  BY <1>2, SleepsStays DEF Elsewhere, Barrier
<1>5. QED
  BY <1>1, <1>3, <1>4 DEF Barrier

LEMMA BarrierInit == ShardInit => BarrierInv
<1> SUFFICES ASSUME ShardInit PROVE BarrierInv
  OBVIOUS
<1>1. StateOK
  BY ModeAssumption DEF ShardInit, StateOK
<1>2. CallsOK
  <2>1. \A s \in Shards : sent[s] = {} /\ asleep[s] = {} /\ awake[s] = {}
    BY DEF ShardInit
  <2>2. IsFiniteSet({})
    BY FS_EmptySet
  <2>3. QED
    BY <2>1, <2>2 DEF ShardInit, CallsOK, Threads
<1>3. \A s \in Shards : Kept(s) /\ Waits(s) /\ Sleeps(s)
  BY DEF ShardInit, Kept, Waits, Sleeps
<1>4. QED
  BY <1>1, <1>2, <1>3, OnceInit DEF BarrierInv, TypeInv

(* What the operations do, taken together. *)
LEMMA ShardSteps ==
  ASSUME BarrierInv, ShardNext
  PROVE  /\ TypeInv'
         /\ \E s \in Shards : /\ Elsewhere(s) /\ Grows(s)
                              /\ SameLengths(sent[s]) /\ SameLengths(sent'[s]) => Barrier(s)'
<1>1. TypeInv /\ \A s \in Shards : SameLengths(sent[s]) => Barrier(s)
  BY DEF BarrierInv, Barrier
<1>2. ASSUME NEW s \in Shards, NEW w \in Workers, Register(s, w)
      PROVE  /\ TypeInv' /\ Elsewhere(s) /\ Grows(s)
             /\ SameLengths(sent[s]) /\ SameLengths(sent'[s]) => Barrier(s)'
  BY <1>1, <1>2, RegisterStep, RegisterBarrier
<1>3. ASSUME NEW s \in Shards, NEW u \in Update, Push(s, u)
      PROVE  /\ TypeInv' /\ Elsewhere(s) /\ Grows(s)
             /\ SameLengths(sent[s]) /\ SameLengths(sent'[s]) => Barrier(s)'
  BY <1>1, <1>3, PushStep, PushBarrier
<1>4. ASSUME NEW s \in Shards, NEW u \in asleep[s] \cup awake[s], Wake(s, u) \/ Expire(s, u)
      PROVE  /\ TypeInv' /\ Elsewhere(s) /\ Grows(s)
             /\ SameLengths(sent[s]) /\ SameLengths(sent'[s]) => Barrier(s)'
  <2>1. u \in Threads(s)
    BY DEF Threads
  <2>2. QED
    BY <1>1, <1>4, <2>1, WakeStep, WakeBarrier
<1>5. ASSUME NEW s \in Shards, NEW m \in Modes, NEW ws, SetMode(s, m, ws)
      PROVE  /\ TypeInv' /\ Elsewhere(s) /\ Grows(s)
             /\ SameLengths(sent[s]) /\ SameLengths(sent'[s]) => Barrier(s)'
  BY <1>1, <1>5, SetModeStep, SetModeBarrier
<1>6. PICK s \in Shards :
        \/ \E w \in Workers : Register(s, w)
        \/ \E u \in Update : Push(s, u)
        \/ \E u \in asleep[s] \cup awake[s] : Wake(s, u) \/ Expire(s, u)
        \/ \E m \in Modes : \E ws : SetMode(s, m, ws)
  BY DEF ShardNext
<1>7. QED
  BY <1>2, <1>3, <1>4, <1>5, <1>6

LEMMA AllGrow ==
  ASSUME BarrierInv, [ShardNext]_shardVars
  PROVE  \A s \in Shards : Grows(s)
<1>1. CASE ShardNext
  BY <1>1, ShardSteps, GrowsElsewhere
<1>2. CASE UNCHANGED shardVars
  BY <1>2 DEF shardVars, modeVars, barrierVars, callVars, Grows
<1>3. QED
  BY <1>1, <1>2

LEMMA BarrierNext == BarrierInv /\ [ShardNext]_shardVars => BarrierInv'
<1> SUFFICES ASSUME BarrierInv, [ShardNext]_shardVars PROVE BarrierInv'
  OBVIOUS
<1>1. CASE UNCHANGED shardVars
  <2>1. UNCHANGED <<mode, workers, workerMode, pending, appliedClock, size, applied, asleep,
                    awake, sent, outcome>>
    BY <1>1 DEF shardVars, modeVars, barrierVars, valueVars, threadVars, callVars
  <2>2. OnceInv'
    BY <1>1, OnceNext DEF BarrierInv, TypeInv
  <2>3. StateOK' /\ CallsOK'
    BY <2>1 DEF BarrierInv, TypeInv, StateOK, CallsOK, Threads
  <2>4. ASSUME NEW r \in Shards, SameLengths(sent'[r]) PROVE Barrier(r)'
    <3>1. Barrier(r)
      BY <2>1, <2>4 DEF BarrierInv, Barrier
    <3>2. SyncWorkers(r)' = SyncWorkers(r)
      BY <2>1 DEF SyncWorkers
    <3>3. Kept(r)' /\ Waits(r)'
      BY <2>1, <3>1, <3>2, KeptStays DEF Barrier, Waits, barrierVars, valueVars
    <3>4. Sleeps(r)'
      BY <2>1, <3>1, <3>2, SleepsStays DEF Barrier
    <3>5. QED
      BY <3>3, <3>4 DEF Barrier
  <2>5. QED
    BY <2>2, <2>3, <2>4 DEF BarrierInv, TypeInv, Barrier
<1>2. CASE ShardNext
  <2>1. TypeInv'
    BY <1>2, ShardSteps
  <2>2. PICK s \in Shards :
          /\ Elsewhere(s) /\ Grows(s)
          /\ SameLengths(sent[s]) /\ SameLengths(sent'[s]) => Barrier(s)'
    BY <1>2, ShardSteps
  <2>3. sent[s] \subseteq sent'[s]
    BY <2>2 DEF Grows
  <2>4. ASSUME NEW r \in Shards, SameLengths(sent'[r]) PROVE Barrier(r)'
    <3>1. CASE r = s
      BY <2>2, <2>3, <2>4, <3>1, LengthsOfBefore
    <3>2. CASE r # s
      <4>1. SameLengths(sent[r])
        BY <2>2, <2>4, <3>2 DEF Elsewhere
      <4>2. Barrier(r)
        BY <4>1 DEF BarrierInv, Barrier
      <4>3. QED
        BY <2>2, <3>2, <4>2, BarrierElsewhere
    <3>3. QED
      BY <3>1, <3>2
  <2>5. QED
    BY <2>1, <2>4 DEF BarrierInv, Barrier
<1>3. QED
  BY <1>1, <1>2

-----------------------------------------------------------------------------
LEMMA ShardInvariant == ShardSpec => []BarrierInv
BY BarrierInit, BarrierNext, PTL DEF ShardSpec

LEMMA BarrierTypes == BarrierInv => ShardTypeOK
<1> SUFFICES ASSUME BarrierInv PROVE ShardTypeOK
  OBVIOUS
<1>1. SentOK /\ AppliedOK /\ StateOK /\ CallsOK
  BY DEF BarrierInv, TypeInv, OnceInv
<1>2. applied \in [Shards -> [Pushes -> [Keys -> Nat]]]
  BY <1>1 DEF AppliedOK
<1>3. QED
  BY <1>1, <1>2 DEF ShardTypeOK, StateOK, CallsOK, SentOK, Threads, Results

(* The fields of a shard keep their types, and a push is told something    *)
(* exactly when its thread leaves the shard.                               *)
THEOREM ShardTypes == ShardSpec => []ShardTypeOK
BY BarrierTypes, ShardInvariant, PTL

(* The invariant of a shard whose pushes agree on the lengths. *)
LEMMA UniformMeans ==
  ASSUME BarrierInv, NEW s \in Shards, Uniform(s)
  PROVE  TypeInv /\ Kept(s) /\ Waits(s) /\ Sleeps(s)
<1>1. sent[s] \in SUBSET Update /\ IsFiniteSet(sent[s])
  BY DEF BarrierInv, TypeInv, OnceInv, SentOK, CallsOK
<1>2. SameLengths(sent[s])
  BY <1>1, MergeableMeans DEF Uniform
<1>3. QED
  BY <1>2 DEF BarrierInv

LEMMA BarrierKeeps == BarrierInv => AcknowledgedIsApplied
<1> SUFFICES ASSUME BarrierInv, NEW s \in Shards, NEW u \in sent[s], Uniform(s),
                    outcome[s][u.id] \in {"applied", "switched"},
                    NEW k \in Keys, u.sizes[k] # 0
             PROVE  applied[s][u.id][k] = 1
  BY DEF AcknowledgedIsApplied
<1>1. Kept(s) /\ Waits(s)
  BY UniformMeans
<1>2. u \notin pending[s]
  BY <1>1 DEF Waits
<1>3. QED
  BY <1>1, <1>2 DEF Kept

(* No acknowledged work is lost: a push that returned "applied" or         *)
(* "switched" has been added to every key it carried, whether it closed    *)
(* the round itself, slept while another push did, or was flushed by a     *)
(* switch of modes, as long as no two pushes clash in a length.            *)
THEOREM AcknowledgedKept == ShardSpec => []AcknowledgedIsApplied
BY BarrierKeeps, ShardInvariant, PTL

LEMMA BarrierWakes == BarrierInv => NobodySleepsThrough
<1> SUFFICES ASSUME BarrierInv, NEW s \in Shards, NEW u \in asleep[s], Uniform(s)
             PROVE  /\ mode[s] = "sync" /\ ~Joined(s, u, pending[s])
                    /\ ~Ready(SyncWorkers(s), u, pending[s])
  BY DEF NobodySleepsThrough
<1>1. Sleeps(s)
  BY UniformMeans
<1>2. QED
  BY <1>1 DEF Sleeps, Joined

(* No lost wakeup: a push that is in Condition.wait belongs to a round that *)
(* some worker in sync mode has not submitted yet; a round that becomes    *)
(* complete, an applied round and a switch of modes have all notified it.  *)
THEOREM SleepersWait == ShardSpec => []NobodySleepsThrough
BY BarrierWakes, ShardInvariant, PTL
=============================================================================
