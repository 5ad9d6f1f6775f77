----------------------- MODULE SparseExperiment_proofs -----------------------
(***************************************************************************)
(* Proofs about a sparse training job, by itself and as the experiment     *)
(* runs it: the shards stay in step, synchronous epochs are bulk           *)
(* synchronous and nobody waits for a clock that has passed, for any       *)
(* number of shards, workers, epochs and mini-batches, and whoever crashes,*)
(* is killed or loses an answer.                                           *)
(***************************************************************************)
EXTENDS SparseExperiment, SparseServer_proofs

(* A step of the job in its environment: any worker may fail at any time.  *)
JobStep == TrainingNext \/ \E w \in Workers : Fail(w)

InEpoch == {"switching", "pulling", "pushing", "waiting"}

Places == {"registering", "gathering", "looping"} \cup InEpoch \cup Ended

-----------------------------------------------------------------------------
(* Where the loop of a worker stands. *)

ClientTypes ==
  /\ algorithm \in Algorithms
  /\ pc \in [Workers -> Places]
  /\ at \in [Workers -> Shards]
  /\ epoch \in [Workers -> 0 .. Epochs]
  /\ batch \in [Workers -> 0 .. Batches - 1]
  /\ current \in [Workers -> Modes]
  /\ snapshot \in [Workers -> [Shards -> SUBSET Pushes]]

(* A worker at p with mini-batch b of epoch e, its operation at shard s.    *)
Stands(p, s, e, b, m) ==
  /\ p \in InEpoch => e < Epochs
  /\ p \in {"gathering", "looping", "done"} => s = 1
  /\ p \in {"registering", "gathering", "looping", "switching"} => b = 0
  /\ p \in {"pushing", "waiting"} => m = "async" \/ b + 1 = Batches
  /\ p \in {"registering", "gathering"} => e = 0
  /\ p = "done" => e = Epochs

(* A worker is in its second mode from the start of epoch SwitchAt on. *)
SwitchesAt(p, e, m) ==
  /\ p \in {"registering", "gathering"} => m = InitialMode
  /\ p = "switching" => m # InitialMode
  /\ m # InitialMode => SwitchAt \in 0 .. e /\ SwitchAt < Epochs
  /\ m # InitialMode /\ p = "looping" => SwitchAt < e
  /\ m = InitialMode /\ p \in InEpoch => SwitchAt \notin 0 .. e
  /\ m = InitialMode /\ p = "looping" => SwitchAt \notin 0 .. e - 1

ClientOK(w) ==
  /\ Stands(pc[w], at[w], epoch[w], batch[w], current[w])
  /\ SwitchesAt(pc[w], epoch[w], current[w])

ClientInv == ClientTypes /\ \A w \in Workers : ClientOK(w)

(* A sweep without a pull passes no shards before its pushes. *)
AtFirst(w) == pc[w] = "pulling" /\ PullsNothing(w) => at[w] = 1

-----------------------------------------------------------------------------
(* The pushes of a worker, shard by shard. *)

Acked(s, i, clock) ==
  \E v \in sent[s] :
    v.id = i /\ v.clock = clock /\ outcome[s][i] \in {"applied", "switched"}

(* Pushes have the worker's name and come in the order of its loop; of the  *)
(* current one the shards behind it know, of the others all.               *)
Own(w, s, u) ==
  /\ u.id[1] = w
  /\ u.id[2] < epoch[w] \/ (u.id[2] = epoch[w] /\ u.id[3] <= batch[w])
  /\ u.id = Name(w) =>
       \/ pc[w] = "pushing" /\ s < at[w]
       \/ pc[w] = "waiting" /\ s <= at[w]
       \/ pc[w] = "failed"
  /\ u.id # Name(w) => \A t \in Shards : Acked(t, u.id, u.clock)

UnderWay(w) ==
  /\ pc[w] \in {"pushing", "waiting"} =>
       \A s \in Shards : s < at[w] => Acked(s, Name(w), ClockOf(w))
  /\ pc[w] = "waiting" => \E u \in sent[at[w]] : u.id = Name(w) /\ u.clock = ClockOf(w)

PushesOK ==
  /\ \A s \in Shards : \A u \in sent[s] : Own(u.worker, s, u)
  /\ \A w \in Workers : UnderWay(w)

ShardByShard ==
  \A s, t \in Shards : s < t => \A u \in sent[t] : Acked(s, u.id, u.clock)

ClocksOfPushes ==
  \A s \in Shards, w \in Workers :
    \/ appliedClock[s][w] = -1
    \/ \E u \in sent[s] : u.worker = w /\ u.clock = appliedClock[s][w]

JobInv ==
  /\ BarrierInv /\ ClientInv
  /\ \A w \in Workers : AtFirst(w)
  /\ PushesOK /\ ShardByShard /\ ClocksOfPushes

-----------------------------------------------------------------------------
(* Synchronous epochs, of a job that does not switch to sync. *)

NeverToSync == InitialMode = "sync" \/ SwitchAt \notin 0 .. Epochs - 1

SyncEpoch(e) == InitialMode = "sync" /\ SwitchAt \notin 0 .. e

(* All workers have pushed epoch e, and nothing of it waits any more. *)
RoundDone(s, e) ==
  \A v \in Workers : \E u \in sent[s] : u \notin pending[s] /\ u.worker = v /\ u.id[2] = e

Started(w) == pc[w] \in {"looping", "done"} \cup InEpoch \/ current[w] # InitialMode

EverybodyThere ==
  (\E w \in Workers : Started(w)) \/ (\E s \in Shards : sent[s] # {}) =>
    \A s \in Shards : workers[s] = Workers

ModesAgree ==
  \A s \in Shards :
    /\ mode[s] = "sync" =>
         InitialMode = "sync" /\ \A w \in Workers : workerMode[s][w] = "sync"
    /\ mode[s] = "async" =>
         InitialMode = "async" \/ \E w \in Workers : current[w] = "async"

Declared ==
  \A w \in Workers, s \in Shards :
    /\ current[w] = "async"
    /\ \/ pc[w] \in {"looping", "pulling", "pushing", "waiting"}
       \/ pc[w] = "switching" /\ s < at[w]
    => mode[s] = "async"

SyncPushes ==
  \A s \in Shards : \A u \in sent[s] :
    /\ SyncEpoch(u.id[2]) => u.clock = u.id[2] /\ u.id[3] = Batches - 1
    /\ ~SyncEpoch(u.id[2]) => mode[s] = "async"

PassedRounds ==
  \A w \in Workers, e \in 0 .. Epochs - 1, s \in Shards :
    e < epoch[w] /\ SyncEpoch(e) => RoundDone(s, e)

AppliedRounds ==
  \A s \in Shards : \A u \in sent[s] :
    u \notin pending[s] /\ SyncEpoch(u.id[2]) => RoundDone(s, u.id[2])

(* Shard s has been asked for the values of the worker's current epoch. *)
Pulled(w, s) ==
  \/ pc[w] \in {"pushing", "waiting"}
  \/ pc[w] = "pulling" /\ (batch[w] > 0 \/ s < at[w])

Sees(w, s) ==
  \A u \in sent[s] : u.sizes # Heartbeat /\ s \in Touches[w] =>
    (u.id \in snapshot[w][s] <=> u.id[2] < epoch[w])

Snapshot(w, s) ==
  /\ current[w] = "sync" /\ Pulled(w, s) => Sees(w, s)
  /\ PullsNothing(w) => snapshot[w][s] = {}
  /\ \A i \in snapshot[w][s] : \E u \in sent[s] : u.id = i

SnapshotsOK == \A w \in Workers, s \in Shards : Snapshot(w, s)

SyncInv ==
  /\ EverybodyThere /\ ModesAgree /\ Declared
  /\ SyncPushes /\ PassedRounds /\ AppliedRounds /\ SnapshotsOK

JobBarriers == \A s \in Shards : Barrier(s)
-----------------------------------------------------------------------------
(* Facts about the constants. *)

LEMMA Numbers ==
  /\ Shards \subseteq Nat /\ 1 \in Shards
  /\ \A s \in Shards : s >= 1 /\ (s + 1 \notin Shards => \A t \in Shards : t <= s)
  /\ Epochs \in Nat /\ Batches \in Nat /\ Batches >= 1 /\ SwitchAt \in Int
  /\ 0 \in 0 .. Epochs /\ 0 \in 0 .. Batches - 1
<1>1. Cardinality(Shards) \in Nat
  BY ShardNumbers, FS_CardinalityType
<1>2. QED
  BY <1>1, ShardNumbers, LoopAssumption

LEMMA OtherMode ==
  \A m \in Modes : Other(m) \in Modes /\ Other(m) # m
BY DEF Other, Modes

-----------------------------------------------------------------------------
(* The clients alone. *)

(* One worker has moved. *)
LEMMA ClientMoves ==
  ASSUME ClientInv, NEW w \in Workers,
         NEW p \in Places, NEW s \in Shards, NEW e \in 0 .. Epochs, NEW b \in 0 .. Batches - 1,
         NEW m \in Modes,
         pc' = [pc EXCEPT ![w] = p], at' = [at EXCEPT ![w] = s],
         epoch' = [epoch EXCEPT ![w] = e], batch' = [batch EXCEPT ![w] = b],
         current' = [current EXCEPT ![w] = m],
         algorithm' = algorithm, snapshot' \in [Workers -> [Shards -> SUBSET Pushes]],
         Stands(p, s, e, b, m), SwitchesAt(p, e, m)
  PROVE  ClientInv'
<1>1. ClientTypes'
  BY DEF ClientInv, ClientTypes
<1>2. /\ pc'[w] = p /\ at'[w] = s /\ epoch'[w] = e /\ batch'[w] = b /\ current'[w] = m
      /\ \A v \in Workers : v # w =>
           /\ pc'[v] = pc[v] /\ at'[v] = at[v] /\ epoch'[v] = epoch[v]
           /\ batch'[v] = batch[v] /\ current'[v] = current[v]
  BY DEF ClientInv, ClientTypes
<1>3. ASSUME NEW v \in Workers PROVE ClientOK(v)'
  <2>1. CASE v = w
    BY <1>2, <2>1 DEF ClientOK
  <2>2. CASE v # w
    BY <1>2, <2>2 DEF ClientOK, ClientInv
  <2>3. QED
    BY <2>1, <2>2
<1>4. QED
  BY <1>1, <1>3 DEF ClientInv

(* What is known of a worker, in its own terms. *)
LEMMA ClientHas ==
  ASSUME ClientInv, NEW w \in Workers
  PROVE  /\ pc[w] \in Places /\ at[w] \in Shards /\ epoch[w] \in 0 .. Epochs
         /\ batch[w] \in 0 .. Batches - 1 /\ current[w] \in Modes
         /\ pc = [pc EXCEPT ![w] = pc[w]] /\ at = [at EXCEPT ![w] = at[w]]
         /\ epoch = [epoch EXCEPT ![w] = epoch[w]] /\ batch = [batch EXCEPT ![w] = batch[w]]
         /\ current = [current EXCEPT ![w] = current[w]]
         /\ snapshot \in [Workers -> [Shards -> SUBSET Pushes]]
         /\ Stands(pc[w], at[w], epoch[w], batch[w], current[w])
         /\ SwitchesAt(pc[w], epoch[w], current[w])
BY DEF ClientInv, ClientTypes, ClientOK

LEMMA VisitMoves ==
  ASSUME ClientInv, NEW w \in Workers, NEW here, NEW next \in Places, Visit(w, here, next)
  PROVE  /\ pc[w] = here
         /\ \/ /\ at[w] + 1 \in Shards
               /\ at' = [at EXCEPT ![w] = at[w] + 1] /\ pc' = [pc EXCEPT ![w] = here]
            \/ /\ at[w] + 1 \notin Shards
               /\ at' = [at EXCEPT ![w] = 1] /\ pc' = [pc EXCEPT ![w] = next]
BY ClientHas DEF Visit

LEMMA ClientNext ==
  ASSUME ClientInv, NEW w \in Workers, ClientStep(w) \/ Resend(w) \/ Fail(w)
  PROVE  ClientInv'
<1>0. /\ pc[w] \in Places /\ at[w] \in Shards /\ epoch[w] \in 0 .. Epochs
      /\ batch[w] \in 0 .. Batches - 1 /\ current[w] \in Modes
      /\ pc = [pc EXCEPT ![w] = pc[w]] /\ at = [at EXCEPT ![w] = at[w]]
      /\ epoch = [epoch EXCEPT ![w] = epoch[w]] /\ batch = [batch EXCEPT ![w] = batch[w]]
      /\ current = [current EXCEPT ![w] = current[w]]
      /\ snapshot \in [Workers -> [Shards -> SUBSET Pushes]]
      /\ Stands(pc[w], at[w], epoch[w], batch[w], current[w])
      /\ SwitchesAt(pc[w], epoch[w], current[w])
  BY ClientHas
<1>a. /\ "registering" \in Places /\ "gathering" \in Places /\ "looping" \in Places
      /\ "switching" \in Places /\ "pulling" \in Places /\ "pushing" \in Places
      /\ "waiting" \in Places /\ "done" \in Places /\ "failed" \in Places
  BY DEF Places, InEpoch, Ended
<1>b. Epochs \in Nat /\ Batches \in Nat /\ SwitchAt \in Int /\ 1 \in Shards
      /\ 0 \in 0 .. Batches - 1
  BY Numbers
<1>c. epoch[w] \in 0 .. Epochs /\ batch[w] \in 0 .. Batches - 1
  BY <1>0
<1>d. UNCHANGED snapshot => snapshot' \in [Workers -> [Shards -> SUBSET Pushes]]
  BY <1>0
<1>e. /\ UNCHANGED pc => pc' = [pc EXCEPT ![w] = pc[w]]
      /\ UNCHANGED at => at' = [at EXCEPT ![w] = at[w]]
      /\ UNCHANGED epoch => epoch' = [epoch EXCEPT ![w] = epoch[w]]
      /\ UNCHANGED batch => batch' = [batch EXCEPT ![w] = batch[w]]
      /\ UNCHANGED current => current' = [current EXCEPT ![w] = current[w]]
  BY <1>0
<1>1. CASE RegisterAt(w)
  <2>1. Visit(w, "registering", "gathering")
        /\ UNCHANGED <<algorithm, epoch, batch, current, snapshot>>
    BY <1>1 DEF RegisterAt
  <2>2. PICK p \in {"registering", "gathering"}, s \in Shards :
          /\ at' = [at EXCEPT ![w] = s] /\ pc' = [pc EXCEPT ![w] = p]
          /\ pc[w] = "registering" /\ p = "gathering" => s = 1
    BY <1>0, <1>a, <2>1, VisitMoves, <1>b
  <2>3. p \in Places
    BY <1>a
  <2>4. /\ Stands(p, s, epoch[w], batch[w], current[w])
        /\ SwitchesAt(p, epoch[w], current[w])
    BY <1>0, <2>2, VisitMoves, <2>1, <1>a DEF Stands, SwitchesAt, InEpoch
  <2>5. QED
    BY <1>0, <2>1, <2>2, <2>3, <2>4, <1>d, <1>e, ClientMoves
<1>2. CASE Gather(w)
  <2>1. /\ pc[w] = "gathering" /\ pc' = [pc EXCEPT ![w] = "looping"]
        /\ UNCHANGED <<algorithm, at, epoch, batch, current, snapshot>>
    BY <1>2 DEF Gather
  <2>2. Stands("looping", at[w], epoch[w], batch[w], current[w])
    BY <1>0, <2>1 DEF Stands, InEpoch
  <2>3. SwitchesAt("looping", epoch[w], current[w])
    BY <1>0, <1>b, <2>1 DEF SwitchesAt, InEpoch, Stands
  <2>4. PICK p \in Places, s \in Shards :
          /\ pc' = [pc EXCEPT ![w] = p] /\ at' = [at EXCEPT ![w] = s]
          /\ Stands(p, s, epoch[w], batch[w], current[w]) /\ SwitchesAt(p, epoch[w], current[w])
    BY <1>0, <1>a, <1>e, <2>1, <2>2, <2>3
  <2>5. UNCHANGED <<algorithm, epoch, batch, current, snapshot>>
    BY <2>1
  <2>6. QED
    BY <1>0, <2>4, <2>5, <1>d, <1>e, ClientMoves
<1>3. CASE BeginEpoch(w)
  <2>1. PICK p \in {"done", "switching", "pulling"}, m \in Modes :
          /\ pc[w] = "looping" /\ pc' = [pc EXCEPT ![w] = p]
          /\ current' = [current EXCEPT ![w] = m]
          /\ UNCHANGED <<algorithm, at, epoch, batch, snapshot>>
          /\ \/ p = "done" /\ epoch[w] = Epochs /\ m = current[w]
             \/ p = "switching" /\ epoch[w] # Epochs /\ epoch[w] = SwitchAt /\ m = Other(InitialMode)
             \/ p = "pulling" /\ epoch[w] # Epochs /\ epoch[w] # SwitchAt /\ m = current[w]
    BY <1>0, <1>3, OtherMode, ModeAssumption DEF BeginEpoch
  <2>6. Stands("looping", at[w], epoch[w], batch[w], current[w])
        /\ SwitchesAt("looping", epoch[w], current[w])
    BY <1>0, <2>1
  <2>7. at[w] = 1 /\ batch[w] = 0 /\ (p # "done" => epoch[w] < Epochs)
    BY <1>b, <1>c, <2>1, <2>6 DEF Stands
  <2>2. Stands(p, at[w], epoch[w], batch[w], m)
    BY <2>1, <2>7 DEF Stands, InEpoch
  <2>8. Other(InitialMode) # InitialMode
    BY OtherMode, ModeAssumption
  <2>3. SwitchesAt(p, epoch[w], m)
    <3>1. CASE p = "done"
      BY <2>1, <2>6, <3>1 DEF SwitchesAt, InEpoch
    <3>2. CASE p = "switching"
      BY <1>b, <1>c, <2>1, <2>7, <2>8, <3>2 DEF SwitchesAt, InEpoch
    <3>3. CASE p = "pulling"
      BY <1>b, <1>c, <2>1, <2>6, <3>3 DEF SwitchesAt, InEpoch
    <3>4. QED
      BY <3>1, <3>2, <3>3
  <2>4. p \in Places
    BY <1>a
  <2>5. QED
    BY <1>0, <2>1, <2>2, <2>3, <2>4, <1>d, <1>e, ClientMoves
<1>4. CASE DeclareMode(w)
  <2>1. Visit(w, "switching", "pulling")
        /\ UNCHANGED <<algorithm, epoch, batch, current, snapshot>>
    BY <1>4 DEF DeclareMode
  <2>2. PICK p \in {"switching", "pulling"}, s \in Shards :
          /\ at' = [at EXCEPT ![w] = s] /\ pc' = [pc EXCEPT ![w] = p]
          /\ pc[w] = "switching"
    BY <1>0, <1>a, <2>1, VisitMoves, <1>b
  <2>3. p \in Places
    BY <1>a
  <2>4. Stands(p, s, epoch[w], batch[w], current[w])
    BY <1>0, <2>2 DEF Stands, InEpoch
  <2>5. SwitchesAt(p, epoch[w], current[w])
    BY <1>0, <2>2 DEF SwitchesAt, InEpoch
  <2>6. QED
    BY <1>0, <2>1, <2>2, <2>3, <2>4, <2>5, <1>d, <1>e, ClientMoves
<1>5. ASSUME NEW p \in {"pulling", "pushing"}, NEW s \in Shards, NEW b \in 0 .. Batches - 1,
             pc[w] = "pulling",
             pc' = [pc EXCEPT ![w] = p], at' = [at EXCEPT ![w] = s],
             batch' = [batch EXCEPT ![w] = b],
             UNCHANGED <<algorithm, epoch, current>>,
             snapshot' \in [Workers -> [Shards -> SUBSET Pushes]],
             p = "pushing" => current[w] = "async" \/ b + 1 = Batches
      PROVE  ClientInv'
  <2>1. p \in Places
    BY <1>a
  <2>2. Stands(p, s, epoch[w], b, current[w])
    BY <1>0, <1>5 DEF Stands, InEpoch
  <2>3. SwitchesAt(p, epoch[w], current[w])
    BY <1>0, <1>5 DEF SwitchesAt, InEpoch
  <2>4. QED
    BY <1>0, <1>5, <2>1, <2>2, <2>3, <1>d, <1>e, ClientMoves
<1>6. ~PushesNow(w) => batch[w] + 1 \in 0 .. Batches - 1
  BY <1>b, <1>c DEF PushesNow, LastBatch
<1>7. CASE AssignTopics(w)
  <2>1. CASE PushesNow(w)
    <3>1. /\ pc[w] = "pulling" /\ pc' = [pc EXCEPT ![w] = "pushing"]
          /\ current[w] = "async" \/ batch[w] + 1 = Batches
          /\ UNCHANGED <<algorithm, at, epoch, batch, current, snapshot>>
      BY <1>7, <2>1 DEF AssignTopics, PushesNow, LastBatch
    <3>2. QED
      BY <1>0, <1>5, <3>1
  <2>2. CASE ~PushesNow(w)
    <3>1. /\ pc[w] = "pulling" /\ batch' = [batch EXCEPT ![w] = batch[w] + 1]
          /\ UNCHANGED <<algorithm, at, epoch, pc, current, snapshot>>
      BY <1>7, <2>2 DEF AssignTopics
    <3>2. pc' = [pc EXCEPT ![w] = "pulling"]
      BY <1>0, <3>1
    <3>3. QED
      BY <1>0, <1>5, <1>6, <2>2, <3>1, <3>2
  <2>3. QED
    BY <2>1, <2>2
<1>8. CASE PullAt(w)
  <2>1. snapshot' \in [Workers -> [Shards -> SUBSET Pushes]]
    BY <1>0, <1>8 DEF PullAt, Present
  <2>2. UNCHANGED <<algorithm, epoch, current>>
    BY <1>8 DEF PullAt
  <2>3. CASE PushesNow(w)
    <3>1. Visit(w, "pulling", "pushing") /\ UNCHANGED batch
      BY <1>8, <2>3 DEF PullAt
    <3>2. PICK p \in {"pulling", "pushing"}, s \in Shards :
            /\ at' = [at EXCEPT ![w] = s] /\ pc' = [pc EXCEPT ![w] = p]
            /\ pc[w] = "pulling"
      BY <1>0, <1>a, <3>1, VisitMoves, <1>b
    <3>3. current[w] = "async" \/ batch[w] + 1 = Batches
      BY <2>3 DEF PushesNow, LastBatch
    <3>4. QED
      BY <1>0, <1>5, <2>1, <2>2, <3>1, <3>2, <3>3
  <2>4. CASE ~PushesNow(w)
    <3>1. Visit(w, "pulling", "pulling")
          /\ batch' = [batch EXCEPT ![w] = IF at[w] + 1 \in Shards THEN batch[w] ELSE batch[w] + 1]
      BY <1>8, <2>4 DEF PullAt
    <3>2. PICK s \in Shards :
            /\ at' = [at EXCEPT ![w] = s] /\ pc' = [pc EXCEPT ![w] = "pulling"]
            /\ pc[w] = "pulling"
      BY <1>0, <1>a, <3>1, VisitMoves, <1>b
    <3>3. PICK b \in 0 .. Batches - 1 : batch' = [batch EXCEPT ![w] = b]
      BY <1>0, <1>6, <2>4, <3>1
    <3>4. QED
      BY <1>0, <1>5, <2>1, <2>2, <3>2, <3>3
  <2>5. QED
    BY <2>3, <2>4
<1>9. CASE PushAt(w)
  <2>1. /\ pc[w] = "pushing" /\ pc' = [pc EXCEPT ![w] = "waiting"]
        /\ UNCHANGED <<algorithm, at, epoch, batch, current, snapshot>>
    BY <1>9 DEF PushAt
  <2>2. Stands("waiting", at[w], epoch[w], batch[w], current[w])
        /\ SwitchesAt("waiting", epoch[w], current[w])
    BY <1>0, <2>1 DEF Stands, SwitchesAt, InEpoch
  <2>3. PICK p \in Places, s \in Shards :
          /\ pc' = [pc EXCEPT ![w] = p] /\ at' = [at EXCEPT ![w] = s]
          /\ Stands(p, s, epoch[w], batch[w], current[w]) /\ SwitchesAt(p, epoch[w], current[w])
    BY <1>0, <1>a, <1>e, <2>1, <2>2
  <2>4. UNCHANGED <<algorithm, epoch, batch, current, snapshot>>
    BY <2>1
  <2>5. QED
    BY <1>0, <2>3, <2>4, <1>d, <1>e, ClientMoves
<1>10. CASE Answered(w)
  <2>0. pc[w] = "waiting" /\ UNCHANGED <<algorithm, current, snapshot>>
    BY <1>10 DEF Answered
  <2>1. CASE at[w] + 1 \in Shards
    <3>1. /\ at' = [at EXCEPT ![w] = at[w] + 1] /\ pc' = [pc EXCEPT ![w] = "pushing"]
          /\ UNCHANGED <<epoch, batch>>
      BY <1>10, <2>1 DEF Answered
    <3>2. Stands("pushing", at[w] + 1, epoch[w], batch[w], current[w])
          /\ SwitchesAt("pushing", epoch[w], current[w])
      BY <1>0, <2>0 DEF Stands, SwitchesAt, InEpoch
    <3>3. PICK p \in Places, s \in Shards :
            /\ pc' = [pc EXCEPT ![w] = p] /\ at' = [at EXCEPT ![w] = s]
            /\ Stands(p, s, epoch[w], batch[w], current[w]) /\ SwitchesAt(p, epoch[w], current[w])
      BY <1>a, <2>1, <3>1, <3>2
    <3>4. UNCHANGED <<algorithm, epoch, batch, current, snapshot>>
      BY <2>0, <3>1
    <3>5. QED
      BY <1>0, <3>3, <3>4, <1>d, <1>e, ClientMoves
  <2>2. CASE at[w] + 1 \notin Shards /\ LastBatch(w)
    <3>1. /\ at' = [at EXCEPT ![w] = 1] /\ pc' = [pc EXCEPT ![w] = "looping"]
          /\ epoch' = [epoch EXCEPT ![w] = epoch[w] + 1] /\ batch' = [batch EXCEPT ![w] = 0]
      BY <1>10, <2>2 DEF Answered
    <3>2. epoch[w] + 1 \in 0 .. Epochs
      BY <1>0, <1>b, <2>0 DEF Stands, InEpoch
    <3>3. Stands("looping", 1, epoch[w] + 1, 0, current[w])
      BY DEF Stands, InEpoch
    <3>4. SwitchesAt("looping", epoch[w] + 1, current[w])
      BY <1>0, <1>b, <2>0 DEF SwitchesAt, InEpoch
    <3>5. QED
      BY <1>0, <1>a, <2>0, <3>1, <3>2, <3>3, <3>4, <1>d, <1>e, ClientMoves, <1>b
  <2>3. CASE at[w] + 1 \notin Shards /\ ~LastBatch(w)
    <3>1. /\ at' = [at EXCEPT ![w] = 1] /\ pc' = [pc EXCEPT ![w] = "pulling"]
          /\ batch' = [batch EXCEPT ![w] = batch[w] + 1] /\ UNCHANGED epoch
      BY <1>10, <2>3 DEF Answered
    <3>2. batch[w] + 1 \in 0 .. Batches - 1
      BY <1>b, <1>c, <2>3 DEF LastBatch
    <3>3. Stands("pulling", 1, epoch[w], batch[w] + 1, current[w])
          /\ SwitchesAt("pulling", epoch[w], current[w])
      BY <1>0, <2>0 DEF Stands, SwitchesAt, InEpoch
    <3>4. PICK p \in Places, s \in Shards, b \in 0 .. Batches - 1 :
            /\ pc' = [pc EXCEPT ![w] = p] /\ at' = [at EXCEPT ![w] = s]
            /\ batch' = [batch EXCEPT ![w] = b]
            /\ Stands(p, s, epoch[w], b, current[w]) /\ SwitchesAt(p, epoch[w], current[w])
      BY <1>a, <1>b, <3>1, <3>2, <3>3
    <3>5. UNCHANGED <<algorithm, epoch, current, snapshot>>
      BY <2>0, <3>1
    <3>6. QED
      BY <1>0, <3>4, <3>5, <1>d, <1>e, ClientMoves
  <2>4. QED
    BY <2>1, <2>2, <2>3
<1>11. CASE Fail(w)
  <2>1. /\ pc' = [pc EXCEPT ![w] = "failed"]
        /\ UNCHANGED <<algorithm, at, epoch, batch, current, snapshot>>
    BY <1>11 DEF Fail
  <2>2. Stands("failed", at[w], epoch[w], batch[w], current[w])
        /\ SwitchesAt("failed", epoch[w], current[w])
    BY <1>0 DEF Stands, SwitchesAt, InEpoch
  <2>3. PICK p \in Places, s \in Shards :
          /\ pc' = [pc EXCEPT ![w] = p] /\ at' = [at EXCEPT ![w] = s]
          /\ Stands(p, s, epoch[w], batch[w], current[w]) /\ SwitchesAt(p, epoch[w], current[w])
    BY <1>0, <1>a, <1>e, <2>1, <2>2
  <2>4. UNCHANGED <<algorithm, epoch, batch, current, snapshot>>
    BY <2>1
  <2>5. QED
    BY <1>0, <2>3, <2>4, <1>d, <1>e, ClientMoves
<1>12. CASE Resend(w)
  <2>1. UNCHANGED clientVars
    BY <1>12 DEF Resend
  <2>2. QED
    BY <2>1 DEF clientVars, ClientInv, ClientTypes, ClientOK
<1>13. QED
  BY <1>1, <1>2, <1>3, <1>4, <1>7, <1>8, <1>9, <1>10, <1>11, <1>12 DEF ClientStep, Refused

LEMMA ClientJob == ClientInv /\ [JobStep]_vars => ClientInv'
<1> SUFFICES ASSUME ClientInv, [JobStep]_vars PROVE ClientInv'
  OBVIOUS
<1>1. CASE UNCHANGED clientVars
  BY <1>1 DEF clientVars, ClientInv, ClientTypes, ClientOK
<1>2. ASSUME NEW w \in Workers, ClientStep(w) \/ Resend(w) \/ Fail(w) PROVE ClientInv'
  BY <1>2, ClientNext
<1>3. QED
  BY <1>1, <1>2 DEF JobStep, TrainingNext, Crash, vars

LEMMA ClientStart == TrainingInit => ClientInv
<1> SUFFICES ASSUME TrainingInit PROVE ClientInv
  OBVIOUS
<1>1. ClientTypes
  BY Numbers, ModeAssumption DEF TrainingInit, ClientTypes, Places
<1>2. ASSUME NEW w \in Workers PROVE ClientOK(w)
  BY DEF TrainingInit, ClientOK, Stands, SwitchesAt, InEpoch
<1>3. QED
  BY <1>1, <1>2 DEF ClientInv

-----------------------------------------------------------------------------
(* What a client asks of a shard is what the shard expects. *)

LEMMA Multiples ==
  ASSUME NEW k \in Nat, NEW m \in Nat, NEW n \in Nat, m < n
  PROVE  m * k \in Nat /\ n * k \in Nat /\ m * k + k <= n * k
<1>1. PICK d \in Nat : n = m + 1 + d
  <2>1. n - m - 1 \in Nat /\ n = m + 1 + (n - m - 1)
    OBVIOUS
  <2>2. QED
    BY <2>1
<1>2. n * k = m * k + k + d * k
  BY <1>1
<1>3. d * k \in Nat /\ m * k \in Nat /\ n * k \in Nat
  OBVIOUS
<1>4. QED
  BY <1>2, <1>3

LEMMA NamesAndClocks ==
  ASSUME ClientInv, NEW w \in Workers, pc[w] \in InEpoch
  PROVE  Name(w) \in Pushes /\ ClockOf(w) \in Clocks
<1>1. /\ epoch[w] \in 0 .. Epochs /\ batch[w] \in 0 .. Batches - 1 /\ current[w] \in Modes
      /\ epoch[w] < Epochs /\ SwitchesAt(pc[w], epoch[w], current[w])
  BY ClientHas DEF Stands
<1>2. Epochs \in Nat /\ Batches \in Nat /\ Batches >= 1 /\ SwitchAt \in Int
  BY Numbers
<1>3. Name(w) \in Pushes
  BY <1>1, <1>2, PushNames DEF Name
<1>4. ASSUME NEW e \in Nat, NEW b \in 0 .. Batches - 1, e < Epochs
      PROVE  e * Batches + b \in Clocks /\ e \in Clocks
  <2>1. /\ e * Batches \in Nat /\ Epochs * Batches \in Nat
        /\ e * Batches + Batches <= Epochs * Batches
    BY <1>2, <1>4, Multiples
  <2>2. e * Batches + b \in 0 .. Epochs * Batches - 1
    BY <1>2, <2>1
  <2>3. e <= e * Batches
    <3>1. CASE e = 0
      BY <1>2, <3>1
    <3>2. CASE e > 0
      <4>1. PICK d \in Nat : Batches = d + 1
        <5>1. Batches - 1 \in Nat /\ Batches = (Batches - 1) + 1
          BY <1>2
        <5>2. QED
          BY <5>1
      <4>2. e * Batches = e * d + e /\ e * d \in Nat
        BY <4>1
      <4>3. QED
        BY <4>2
    <3>3. QED
      BY <3>1, <3>2
  <2>4. e \in 0 .. Epochs * Batches - 1
    BY <1>2, <2>1, <2>3
  <2>5. QED
    BY <2>2, <2>4, ClockRange
<1>5. CASE current[w] = "sync"
  <2>1. ClockOf(w) = epoch[w] /\ epoch[w] \in Nat /\ 0 \in 0 .. Batches - 1
    BY <1>1, <1>2, <1>5 DEF ClockOf
  <2>2. QED
    BY <1>1, <1>3, <1>4, <2>1
<1>6. CASE current[w] = "async"
  <2> DEFINE since == IF algorithm = "lr" \/ InitialMode = "async" THEN 0 ELSE SwitchAt
  <2>1. ClockOf(w) = (epoch[w] - since) * Batches + batch[w]
    BY <1>6 DEF ClockOf
  <2>2. since \in Int /\ 0 <= since /\ since <= epoch[w]
    BY <1>1, <1>2, <1>6 DEF SwitchesAt
  <2> HIDE DEF since
  <2>3. epoch[w] - since \in Nat /\ epoch[w] - since < Epochs
    BY <1>1, <1>2, <2>2
  <2>4. QED
    BY <1>1, <1>3, <1>4, <2>1, <2>3
<1>7. QED
  BY <1>1, <1>5, <1>6 DEF Modes

(* The update a worker pushes to the shard it has come to. *)
Sends(w, u) ==
  /\ u \in Update
  /\ u.id = Name(w) /\ u.worker = w /\ u.clock = ClockOf(w)
  /\ (at[w] \notin Touches[w] => u.sizes = Heartbeat)

LEMMA PushSends ==
  ASSUME ClientInv, NEW w \in Workers, PushAt(w)
  PROVE  /\ \E u : Sends(w, u) /\ Push(at[w], u)
         /\ pc[w] = "pushing" /\ pc' = [pc EXCEPT ![w] = "waiting"]
         /\ UNCHANGED <<algorithm, at, epoch, batch, current, snapshot>>
<1>1. /\ pc[w] = "pushing" /\ pc' = [pc EXCEPT ![w] = "waiting"]
      /\ UNCHANGED <<algorithm, at, epoch, batch, current, snapshot>>
  BY DEF PushAt
<1>2. PICK sizes \in Grouped(w, at[w]) :
        Push(at[w], [id |-> Name(w), worker |-> w, clock |-> ClockOf(w), sizes |-> sizes])
  BY DEF PushAt
<1> DEFINE u == [id |-> Name(w), worker |-> w, clock |-> ClockOf(w), sizes |-> sizes]
<1>3. sizes \in Payloads /\ (at[w] \notin Touches[w] => sizes = Heartbeat)
  BY ScalarPayloads DEF Grouped, Heartbeat
<1>4. Name(w) \in Pushes /\ ClockOf(w) \in Clocks
  BY <1>1, NamesAndClocks DEF InEpoch
<1>5. Sends(w, u)
  BY <1>3, <1>4 DEF Sends, Update
<1>6. QED
  BY <1>1, <1>2, <1>5

LEMMA JobIsShards ==
  ASSUME ClientInv, [JobStep]_vars
  PROVE  [ShardNext]_shardVars
<1>1. \A w \in Workers : at[w] \in Shards /\ current[w] \in Modes
  BY DEF ClientInv, ClientTypes
<1>2. ASSUME NEW w \in Workers, NEW s \in Shards, Register(s, w) PROVE ShardNext
  BY <1>2 DEF ShardNext
<1>3. ASSUME NEW w \in Workers, NEW s \in Shards, NEW m \in Modes, SetMode(s, m, {w})
      PROVE  ShardNext
  BY <1>3 DEF ShardNext
<1>4. ASSUME NEW w \in Workers, PushAt(w) PROVE ShardNext
  <2>1. PICK u : Sends(w, u) /\ Push(at[w], u)
    BY <1>4, PushSends
  <2>2. QED
    BY <1>1, <2>1 DEF Sends, ShardNext
<1>5. ASSUME NEW s \in Shards, ShardStep(s) PROVE ShardNext
  BY <1>5 DEF ShardStep, ShardNext
<1>6. ASSUME NEW w \in Workers, ClientStep(w) PROVE ShardNext \/ UNCHANGED shardVars
  <2>1. CASE RegisterAt(w)
    BY <1>1, <1>2, <2>1 DEF RegisterAt
  <2>2. CASE DeclareMode(w)
    BY <1>1, <1>3, <2>2 DEF DeclareMode
  <2>3. CASE PushAt(w)
    BY <1>4, <2>3
  <2>4. CASE Gather(w) \/ BeginEpoch(w) \/ AssignTopics(w)
    BY <2>4 DEF Gather, BeginEpoch, AssignTopics
  <2>5. CASE PullAt(w) \/ Answered(w) \/ Refused(w)
    BY <2>5 DEF PullAt, Answered, Refused, Fail
  <2>6. QED
    BY <1>6, <2>1, <2>2, <2>3, <2>4, <2>5 DEF ClientStep
<1>7. ASSUME NEW w \in Workers, Resend(w) PROVE ShardNext
  BY <1>1, <1>2, <1>3, <1>7 DEF Resend
<1>8. ASSUME NEW w \in Workers, Fail(w) PROVE UNCHANGED shardVars
  BY <1>8 DEF Fail
<1>9. CASE UNCHANGED vars
  BY <1>9 DEF vars
<1>10. QED
  BY <1>5, <1>6, <1>7, <1>8, <1>9 DEF JobStep, TrainingNext, Crash

-----------------------------------------------------------------------------
(* The shards of a job: pushes never clash in a length, so that their        *)
(* barriers are in order.                                                  *)

LEMMA BarriersHold ==
  ASSUME BarrierInv PROVE TypeInv /\ SentOK /\ CallsOK /\ \A s \in Shards : Barrier(s)
<1>1. ASSUME NEW s \in Shards PROVE SameLengths(sent[s])
  <2>1. sent[s] \subseteq Update
    BY DEF BarrierInv, TypeInv, OnceInv, SentOK
  <2>2. \A u \in Update : u.sizes \in [Keys -> {0, 1}]
    BY ScalarPayloads DEF Update
  <2>3. QED
    BY <2>1, <2>2 DEF SameLengths
<1>2. QED
  BY <1>1 DEF BarrierInv, Barrier, TypeInv, OnceInv

LEMMA AckedStays ==
  ASSUME SentOK, NEW s \in Shards, Grows(s), NEW i, NEW clock, Acked(s, i, clock)
  PROVE  Acked(s, i, clock)'
<1>1. PICK v \in sent[s] : v.id = i /\ v.clock = clock /\ outcome[s][i] \in {"applied", "switched"}
  BY DEF Acked
<1>2. i \in Pushes /\ v \in sent'[s]
  BY <1>1 DEF SentOK, Update, Grows
<1>3. outcome'[s][i] = outcome[s][i]
  BY <1>1, <1>2 DEF Grows
<1>4. QED
  BY <1>1, <1>2, <1>3 DEF Acked

(* What a shard has acknowledged has left its barrier, and is counted. *)
LEMMA AckedLeft ==
  ASSUME BarrierInv, NEW s \in Shards, NEW u \in sent[s],
         outcome[s][u.id] \in {"applied", "switched"}
  PROVE  u \notin pending[s] /\ u.clock <= appliedClock[s][u.worker]
<1>1. u \notin pending[s]
  BY BarriersHold DEF Barrier, Waits
<1>2. QED
  BY <1>1, BarriersHold DEF Barrier, Kept

(* What a step of the worker w leaves alone. *)
Frame(w) ==
  /\ algorithm' = algorithm
  /\ \A v \in Workers : v # w =>
       /\ pc'[v] = pc[v] /\ at'[v] = at[v] /\ epoch'[v] = epoch[v] /\ batch'[v] = batch[v]
       /\ current'[v] = current[v] /\ snapshot'[v] = snapshot[v]

(* The worker neither is in a push nor sends one. *)
Rests(w) ==
  /\ pc[w] \notin {"pushing", "waiting", "failed"}
  /\ pc'[w] # "waiting" /\ (pc'[w] = "pushing" => at'[w] = 1)
  /\ epoch'[w] = epoch[w] /\ batch'[w] \in {batch[w], batch[w] + 1}
  /\ UNCHANGED sent

LEMMA ClientFrame ==
  ASSUME ClientInv, NEW w \in Workers, AtFirst(w), ClientStep(w) \/ Resend(w) \/ Fail(w)
  PROVE  Frame(w) /\ (Rests(w) \/ PushAt(w) \/ Answered(w) \/ Fail(w))
<1>1. /\ pc \in [Workers -> Places] /\ at \in [Workers -> Shards]
      /\ epoch \in [Workers -> 0 .. Epochs] /\ batch \in [Workers -> 0 .. Batches - 1]
      /\ current \in [Workers -> Modes] /\ snapshot \in [Workers -> [Shards -> SUBSET Pushes]]
  BY DEF ClientInv, ClientTypes
<1>2. ASSUME NEW here, NEW next, Visit(w, here, next), here \notin {"pushing", "waiting", "failed"},
             next # "waiting"
      PROVE  /\ pc[w] \notin {"pushing", "waiting", "failed"}
             /\ pc'[w] # "waiting" /\ (pc'[w] = "pushing" => at'[w] = 1)
             /\ \A v \in Workers : v # w => pc'[v] = pc[v] /\ at'[v] = at[v]
  BY <1>1, <1>2 DEF Visit
<1>3. CASE RegisterAt(w)
  <2>1. /\ Visit(w, "registering", "gathering")
        /\ UNCHANGED <<algorithm, epoch, batch, current, snapshot>> /\ UNCHANGED sent
    BY <1>3 DEF RegisterAt, Register, callVars
  <2>2. QED
    BY <1>2, <2>1 DEF Frame, Rests
<1>4. CASE Gather(w)
  <2>1. /\ pc[w] = "gathering" /\ pc' = [pc EXCEPT ![w] = "looping"]
        /\ UNCHANGED <<algorithm, at, epoch, batch, current, snapshot, sent>>
    BY <1>4 DEF Gather, shardVars, callVars
  <2>2. QED
    BY <1>1, <2>1 DEF Frame, Rests
<1>5. CASE BeginEpoch(w)
  <2>1. /\ pc[w] = "looping"
        /\ \E p \in {"done", "switching", "pulling"} : pc' = [pc EXCEPT ![w] = p]
        /\ current' = current \/ current' = [current EXCEPT ![w] = Other(InitialMode)]
        /\ UNCHANGED <<algorithm, at, epoch, batch, snapshot, sent>>
    BY <1>5 DEF BeginEpoch, shardVars, callVars
  <2>2. QED
    BY <1>1, <2>1 DEF Frame, Rests
<1>6. CASE DeclareMode(w)
  <2>1. /\ Visit(w, "switching", "pulling")
        /\ UNCHANGED <<algorithm, epoch, batch, current, snapshot>> /\ UNCHANGED sent
    BY <1>6 DEF DeclareMode, SetMode, SetSameMode, SwitchToSync, SwitchToAsync, callVars
  <2>2. QED
    BY <1>2, <2>1 DEF Frame, Rests
<1>7. CASE AssignTopics(w)
  <2>1. CASE PushesNow(w)
    <3>1. /\ pc[w] = "pulling" /\ pc' = [pc EXCEPT ![w] = "pushing"]
          /\ UNCHANGED <<algorithm, at, epoch, batch, current, snapshot, sent>>
      BY <1>7, <2>1 DEF AssignTopics, shardVars, callVars
    <3>2. at[w] = 1
      BY <1>7, <3>1 DEF AssignTopics, AtFirst
    <3>3. QED
      BY <1>1, <3>1, <3>2 DEF Frame, Rests
  <2>2. CASE ~PushesNow(w)
    <3>1. /\ pc[w] = "pulling" /\ batch' = [batch EXCEPT ![w] = batch[w] + 1]
          /\ UNCHANGED <<algorithm, at, epoch, pc, current, snapshot, sent>>
      BY <1>7, <2>2 DEF AssignTopics, shardVars, callVars
    <3>2. QED
      BY <1>1, <3>1 DEF Frame, Rests
  <2>3. QED
    BY <2>1, <2>2
<1>8. CASE PullAt(w)
  <2>1. PICK b \in {batch[w], batch[w] + 1} :
          /\ Visit(w, "pulling", "pushing") \/ Visit(w, "pulling", "pulling")
          /\ batch' = [batch EXCEPT ![w] = b]
          /\ \E x : snapshot' = [snapshot EXCEPT ![w] = x]
          /\ UNCHANGED <<algorithm, epoch, current, sent>>
    <3>1. /\ UNCHANGED <<algorithm, epoch, current, sent>>
          /\ Visit(w, "pulling", "pushing") \/ Visit(w, "pulling", "pulling")
      BY <1>8 DEF PullAt, shardVars, callVars
    <3>2. \E x : snapshot' = [snapshot EXCEPT ![w] = x]
      BY <1>1, <1>8 DEF PullAt
    <3>3. \E b \in {batch[w], batch[w] + 1} : batch' = [batch EXCEPT ![w] = b]
      BY <1>1, <1>8 DEF PullAt
    <3>4. QED
      BY <3>1, <3>2, <3>3
  <2>2. QED
    BY <1>1, <1>2, <2>1 DEF Frame, Rests
<1>9. CASE PushAt(w)
  BY <1>1, <1>9, PushSends DEF Frame
<1>10. CASE Answered(w)
  <2>1. /\ UNCHANGED <<algorithm, current, snapshot>>
        /\ \E p, s : pc' = [pc EXCEPT ![w] = p] /\ at' = [at EXCEPT ![w] = s]
        /\ \E e, b : epoch' = [epoch EXCEPT ![w] = e] /\ batch' = [batch EXCEPT ![w] = b]
    BY <1>1, <1>10 DEF Answered
  <2>2. QED
    BY <1>1, <1>10, <2>1 DEF Frame
<1>11. CASE Fail(w)
  BY <1>1, <1>11 DEF Fail, Frame
<1>12. CASE Resend(w)
  <2>1. /\ UNCHANGED <<algorithm, pc, at, epoch, batch, current, snapshot, sent>>
        /\ pc[w] \in {"registering", "switching"}
    BY <1>12 DEF Resend, clientVars, Register, SetMode, SetSameMode, SwitchToSync, SwitchToAsync,
                 callVars
  <2>2. QED
    BY <2>1 DEF Frame, Rests
<1>13. QED
  BY <1>3, <1>4, <1>5, <1>6, <1>7, <1>8, <1>9, <1>10, <1>11, <1>12 DEF ClientStep, Refused

LEMMA AtFirstStep ==
  ASSUME ClientInv, NEW w \in Workers, AtFirst(w), ClientStep(w) \/ Resend(w) \/ Fail(w)
  PROVE  AtFirst(w)'
<1>1. /\ pc \in [Workers -> Places] /\ at \in [Workers -> Shards]
      /\ batch \in [Workers -> 0 .. Batches - 1] /\ Batches >= 1 /\ Batches \in Nat
      /\ Stands(pc[w], at[w], epoch[w], batch[w], current[w])
  BY Numbers, ClientHas DEF ClientInv, ClientTypes
<1>2. ASSUME NEW here, NEW next, Visit(w, here, next)
      PROVE  pc'[w] = here \/ (pc'[w] = next /\ at'[w] = 1)
  BY <1>1, <1>2 DEF Visit
<1>3. CASE RegisterAt(w) \/ DeclareMode(w)
  BY <1>2, <1>3 DEF RegisterAt, DeclareMode, AtFirst
<1>4. CASE BeginEpoch(w)
  <2>1. pc[w] = "looping" /\ UNCHANGED at
    BY <1>4 DEF BeginEpoch
  <2>2. QED
    BY <1>1, <2>1 DEF Stands, AtFirst
<1>5. CASE AssignTopics(w)
  <2>1. UNCHANGED at /\ at[w] = 1
    BY <1>5 DEF AssignTopics, AtFirst
  <2>2. QED
    BY <2>1 DEF AtFirst
<1>6. CASE PullAt(w)
  BY <1>6 DEF PullAt, AtFirst, PullsNothing
<1>7. CASE Answered(w)
  <2>1. pc'[w] = "pulling" => at'[w] = 1
    BY <1>1, <1>7 DEF Answered
  <2>2. QED
    BY <2>1 DEF AtFirst
<1>8. CASE Gather(w) \/ PushAt(w) \/ Fail(w)
  <2>1. pc'[w] # "pulling"
    BY <1>1, <1>8 DEF Gather, PushAt, Fail
  <2>2. QED
    BY <2>1 DEF AtFirst
<1>9. CASE Resend(w)
  BY <1>9 DEF Resend, clientVars, AtFirst, PullsNothing
<1>10. QED
  BY <1>3, <1>4, <1>5, <1>6, <1>7, <1>8, <1>9 DEF ClientStep, Refused

-----------------------------------------------------------------------------
(* A step of the job, and what it does to the pushes.                      *)

LEMMA JobCases ==
  ASSUME ClientInv, \A w \in Workers : AtFirst(w), [JobStep]_vars
  PROVE  \/ UNCHANGED clientVars /\ UNCHANGED sent
         \/ \E w \in Workers : Frame(w) /\ (Rests(w) \/ PushAt(w) \/ Answered(w) \/ Fail(w))
<1>1. ASSUME NEW s \in Shards, ShardStep(s) PROVE UNCHANGED sent
  BY <1>1 DEF ShardStep, Wake, Expire
<1>2. ASSUME NEW w \in Workers, ClientStep(w) \/ Resend(w) \/ Fail(w)
      PROVE  Frame(w) /\ (Rests(w) \/ PushAt(w) \/ Answered(w) \/ Fail(w))
  BY <1>2, ClientFrame
<1>3. CASE UNCHANGED vars
  BY <1>3 DEF vars, shardVars, callVars
<1>4. QED
  BY <1>1, <1>2, <1>3 DEF JobStep, TrainingNext, Crash

LEMMA AtFirstJob ==
  ASSUME ClientInv, \A w \in Workers : AtFirst(w), [JobStep]_vars
  PROVE  \A w \in Workers : AtFirst(w)'
<1>1. CASE UNCHANGED clientVars
  BY <1>1 DEF clientVars, AtFirst, PullsNothing
<1>2. ASSUME NEW w \in Workers, ClientStep(w) \/ Resend(w) \/ Fail(w)
      PROVE  \A v \in Workers : AtFirst(v)'
  <2>1. AtFirst(w)'
    BY <1>2, AtFirstStep
  <2>2. Frame(w)
    BY <1>2, ClientFrame
  <2>3. ASSUME NEW v \in Workers, v # w PROVE AtFirst(v)'
    BY <2>2, <2>3 DEF Frame, AtFirst, PullsNothing
  <2>4. QED
    BY <2>1, <2>3
<1>3. QED
  BY <1>1, <1>2 DEF JobStep, TrainingNext, Crash, vars

LEMMA PushSent ==
  ASSUME ClientInv, NEW w \in Workers, PushAt(w)
  PROVE  /\ pc[w] = "pushing" /\ pc'[w] = "waiting" /\ at[w] \in Shards
         /\ UNCHANGED <<algorithm, at, epoch, batch, current, snapshot>>
         /\ \E u : /\ Sends(w, u) /\ Push(at[w], u)
                   /\ sent' = [sent EXCEPT ![at[w]] = @ \cup {u}]
<1>1. PICK u : Sends(w, u) /\ Push(at[w], u)
  BY PushSends
<1>2. sent' = [sent EXCEPT ![at[w]] = @ \cup {u}]
  BY <1>1 DEF Push, PushAsync, PushRefused, PushSync, Enter
<1>3. QED
  BY <1>1, <1>2, PushSends DEF ClientInv, ClientTypes

LEMMA NamesDiffer ==
  ASSUME NEW i \in Pushes, NEW w, NEW e, NEW b
  PROVE  i = <<w, e, b>> <=> i[1] = w /\ i[2] = e /\ i[3] = b
BY PushNames

(* The pushes of a worker which does not move. *)
LEMMA OwnStays ==
  ASSUME BarrierInv, ClientInv, \A s \in Shards : Grows(s), algorithm' = algorithm,
         NEW v \in Workers,
         pc'[v] = pc[v], at'[v] = at[v], epoch'[v] = epoch[v], batch'[v] = batch[v],
         current'[v] = current[v]
  PROVE  /\ \A s \in Shards : \A u \in sent[s] : Own(v, s, u) => Own(v, s, u)'
         /\ UnderWay(v) => UnderWay(v)'
<1>1. SentOK
  BY BarriersHold
<1>2. Name(v)' = Name(v) /\ ClockOf(v)' = ClockOf(v)
  BY DEF Name, ClockOf
<1>3. ASSUME NEW s \in Shards, NEW i, NEW clock, Acked(s, i, clock) PROVE Acked(s, i, clock)'
  BY <1>1, <1>3, AckedStays
<1>4. ASSUME NEW s \in Shards, NEW u \in sent[s], Own(v, s, u) PROVE Own(v, s, u)'
  BY <1>2, <1>3, <1>4 DEF Own
<1>5. ASSUME UnderWay(v) PROVE UnderWay(v)'
  <2>1. ASSUME pc'[v] \in {"pushing", "waiting"}, NEW s \in Shards, s < at'[v]
        PROVE  Acked(s, Name(v), ClockOf(v))'
    <3>1. Acked(s, Name(v), ClockOf(v))
      BY <1>5, <2>1 DEF UnderWay
    <3>2. QED
      BY <3>1, <1>2, <1>3
  <2>2. ASSUME pc'[v] = "waiting"
        PROVE  \E u \in sent'[at'[v]] : u.id = Name(v)' /\ u.clock = ClockOf(v)'
    <3>1. at[v] \in Shards
      BY ClientHas
    <3>2. QED
      BY <1>2, <1>5, <2>2, <3>1 DEF UnderWay, Grows
  <2>3. QED
    BY <2>1, <2>2, <1>2 DEF UnderWay
<1>6. QED
  BY <1>4, <1>5

(* The pushes of the worker that moves. *)
LEMMA OwnMoves ==
  ASSUME BarrierInv, ClientInv, PushesOK, \A s \in Shards : Grows(s), NEW w \in Workers,
         Frame(w), Rests(w) \/ PushAt(w) \/ Answered(w) \/ Fail(w)
  PROVE  /\ \A s \in Shards : \A u \in sent[s] : u.worker = w => Own(w, s, u)'
         /\ UnderWay(w)'
<1>1. SentOK
  BY BarriersHold
<1>2. /\ pc \in [Workers -> Places] /\ at \in [Workers -> Shards]
      /\ epoch \in [Workers -> 0 .. Epochs] /\ batch \in [Workers -> 0 .. Batches - 1]
      /\ epoch[w] \in Nat /\ batch[w] \in Nat /\ at[w] \in Nat
  <2>1. /\ pc \in [Workers -> Places] /\ at \in [Workers -> Shards]
        /\ epoch \in [Workers -> 0 .. Epochs] /\ batch \in [Workers -> 0 .. Batches - 1]
    BY DEF ClientInv, ClientTypes
  <2>2. at[w] \in Shards /\ epoch[w] \in 0 .. Epochs /\ batch[w] \in 0 .. Batches - 1
    BY <2>1
  <2>3. at[w] \in Nat
    BY <2>2, Numbers
  <2>4. QED
    BY <2>1, <2>2, <2>3, Numbers
<1>3. ASSUME NEW s \in Shards, NEW i, NEW clock, Acked(s, i, clock) PROVE Acked(s, i, clock)'
  BY <1>1, <1>3, AckedStays
<1>4. UnderWay(w)
  BY DEF PushesOK
<1>5. ASSUME NEW s \in Shards, NEW u \in sent[s], u.worker = w
      PROVE  /\ Own(w, s, u) /\ u.id \in Pushes
             /\ u.id[2] \in Nat /\ u.id[3] \in Nat
             /\ u.id = Name(w) <=> u.id[1] = w /\ u.id[2] = epoch[w] /\ u.id[3] = batch[w]
             /\ u.id = Name(w)' <=> u.id[1] = w /\ u.id[2] = epoch'[w] /\ u.id[3] = batch'[w]
  <2>1. Own(w, s, u) /\ u.id \in Pushes
    BY <1>1, <1>5 DEF PushesOK, SentOK, Update
  <2>2. u.id[2] \in Nat /\ u.id[3] \in Nat
    BY <2>1, PushNames
  <2>3. QED
    BY <2>1, <2>2, NamesDiffer DEF Name
<1>6. CASE Rests(w)
  <2>1. /\ pc[w] \notin {"pushing", "waiting", "failed"}
        /\ pc'[w] # "waiting" /\ (pc'[w] = "pushing" => at'[w] = 1)
        /\ epoch'[w] = epoch[w] /\ batch'[w] \in {batch[w], batch[w] + 1}
    BY <1>6 DEF Rests
  <2>2. ASSUME NEW s \in Shards, NEW u \in sent[s], u.worker = w PROVE Own(w, s, u)'
    <3>1. u.id # Name(w) /\ Own(w, s, u)
      BY <1>5, <2>1, <2>2 DEF Own
    <3>2. /\ u.id[1] = w
          /\ u.id[2] < epoch[w] \/ (u.id[2] = epoch[w] /\ u.id[3] < batch[w])
      BY <1>2, <1>5, <2>2, <3>1 DEF Own
    <3>3. u.id # Name(w)'
      BY <1>2, <1>5, <2>1, <2>2, <3>2
    <3>4. \A t \in Shards : Acked(t, u.id, u.clock)'
      BY <1>3, <3>1 DEF Own
    <3>5. u.id[2] < epoch'[w] \/ (u.id[2] = epoch'[w] /\ u.id[3] <= batch'[w])
      BY <1>2, <1>5, <2>1, <2>2, <3>2
    <3>6. QED
      BY <3>2, <3>3, <3>4, <3>5 DEF Own
  <2>3. UnderWay(w)'
    <3>1. \A s \in Shards : ~(s < 1)
      BY Numbers
    <3>2. QED
      BY <2>1, <3>1 DEF UnderWay
  <2>4. QED
    BY <2>2, <2>3
<1>7. CASE PushAt(w)
  <2>1. /\ pc[w] = "pushing" /\ pc'[w] = "waiting" /\ at[w] \in Shards
        /\ UNCHANGED <<algorithm, at, epoch, batch, current, snapshot>>
    BY <1>7, PushSent
  <2>2. PICK u : Sends(w, u) /\ sent' = [sent EXCEPT ![at[w]] = @ \cup {u}]
    BY <1>7, PushSent
  <2>3. Name(w)' = Name(w) /\ ClockOf(w)' = ClockOf(w)
    BY <2>1 DEF Name, ClockOf
  <2>4. ASSUME NEW s \in Shards, NEW v \in sent[s], v.worker = w PROVE Own(w, s, v)'
    <3>1. Own(w, s, v)
      BY <1>5, <2>4
    <3>2. v.id # Name(w) => \A t \in Shards : Acked(t, v.id, v.clock)'
      BY <1>3, <3>1 DEF Own
    <3>3. v.id = Name(w) => s < at[w]
      BY <2>1, <3>1 DEF Own
    <3>4. QED
      BY <1>2, <2>1, <2>3, <3>1, <3>2, <3>3, Numbers DEF Own
  <2>5. u \in sent'[at[w]] /\ u.id = Name(w) /\ u.clock = ClockOf(w)
    BY <1>1, <2>1, <2>2 DEF Sends, SentOK
  <2>6. ASSUME NEW s \in Shards, s < at[w] PROVE Acked(s, Name(w), ClockOf(w))'
    <3>1. Acked(s, Name(w), ClockOf(w))
      BY <1>4, <2>1, <2>6 DEF UnderWay
    <3>2. QED
      BY <1>3, <2>3, <3>1
  <2>7. UnderWay(w)'
    BY <2>1, <2>3, <2>5, <2>6 DEF UnderWay
  <2>8. QED
    BY <2>4, <2>7
<1>8. CASE Answered(w)
  <2>1. /\ pc[w] = "waiting" /\ outcome[at[w]][Name(w)] \in {"applied", "switched"}
        /\ UNCHANGED <<algorithm, current, sent>>
    BY <1>8 DEF Answered, shardVars, callVars
  <2>2. Acked(at[w], Name(w), ClockOf(w))
    BY <1>4, <2>1 DEF UnderWay, Acked
  <2>3. ASSUME NEW s \in Shards, s <= at[w] PROVE Acked(s, Name(w), ClockOf(w))
    BY <1>2, <1>4, <2>1, <2>2, <2>3, Numbers DEF UnderWay
  <2>4. CASE at[w] + 1 \in Shards
    <3>1. /\ pc'[w] = "pushing" /\ at'[w] = at[w] + 1
          /\ UNCHANGED <<epoch, batch>>
      BY <1>2, <1>8, <2>4 DEF Answered
    <3>2. Name(w)' = Name(w) /\ ClockOf(w)' = ClockOf(w)
      BY <2>1, <3>1 DEF Name, ClockOf
    <3>3. ASSUME NEW s \in Shards, NEW u \in sent[s], u.worker = w PROVE Own(w, s, u)'
      <4>1. Own(w, s, u)
        BY <1>5, <3>3
      <4>2. u.id # Name(w) => \A t \in Shards : Acked(t, u.id, u.clock)'
        BY <1>3, <4>1 DEF Own
      <4>3. u.id = Name(w) => s < at[w] + 1
        BY <1>2, <2>1, <4>1, Numbers DEF Own
      <4>4. QED
        BY <1>2, <3>1, <3>2, <4>1, <4>2, <4>3 DEF Own
    <3>4. ASSUME NEW s \in Shards, s < at[w] + 1 PROVE Acked(s, Name(w), ClockOf(w))'
      <4>1. s <= at[w]
        BY <1>2, <3>4, Numbers
      <4>2. QED
        BY <1>3, <2>3, <3>2, <4>1
    <3>5. UnderWay(w)'
      BY <3>1, <3>2, <3>4 DEF UnderWay
    <3>6. QED
      BY <3>3, <3>5
  <2>5. CASE at[w] + 1 \notin Shards
    <3>1. /\ pc'[w] \in {"looping", "pulling"}
          /\ \/ epoch'[w] = epoch[w] + 1
             \/ epoch'[w] = epoch[w] /\ batch'[w] = batch[w] + 1
      BY <1>2, <1>8, <2>5 DEF Answered
    <3>2. \A s \in Shards : Acked(s, Name(w), ClockOf(w))
      BY <1>2, <2>3, <2>5, Numbers
    <3>3. ASSUME NEW s \in Shards, NEW u \in sent[s], u.worker = w PROVE Own(w, s, u)'
      <4>1. Own(w, s, u)
        BY <1>5, <3>3
      <4>2. u.id = Name(w) => u.clock = ClockOf(w)
        <5>1. PICK v \in sent[s] : v.id = Name(w) /\ v.clock = ClockOf(w)
          BY <3>2 DEF Acked
        <5>2. QED
          BY <1>1, <5>1 DEF SentOK, DistinctNames
      <4>3. \A t \in Shards : Acked(t, u.id, u.clock)
        BY <3>2, <4>1, <4>2 DEF Own
      <4>4. \A t \in Shards : Acked(t, u.id, u.clock)'
        BY <1>3, <4>3
      <4>5. u.id # Name(w)'
        BY <1>2, <1>5, <3>1, <3>3, <4>1 DEF Own
      <4>6. u.id[2] < epoch'[w] \/ (u.id[2] = epoch'[w] /\ u.id[3] <= batch'[w])
        BY <1>2, <1>5, <3>1, <3>3, <4>1 DEF Own
      <4>7. u.id[1] = w
        BY <4>1 DEF Own
      <4>8. QED
        BY <4>4, <4>5, <4>6, <4>7 DEF Own
    <3>4. UnderWay(w)'
      BY <3>1 DEF UnderWay
    <3>5. QED
      BY <3>3, <3>4
  <2>6. QED
    BY <2>4, <2>5
<1>9. CASE Fail(w)
  <2>1. /\ pc'[w] = "failed" /\ UNCHANGED <<algorithm, at, epoch, batch, current, sent>>
    BY <1>2, <1>9 DEF Fail, shardVars, callVars
  <2>2. Name(w)' = Name(w)
    BY <2>1 DEF Name
  <2>3. ASSUME NEW s \in Shards, NEW u \in sent[s], u.worker = w PROVE Own(w, s, u)'
    <3>1. Own(w, s, u)
      BY <1>5, <2>3
    <3>2. u.id # Name(w) => \A t \in Shards : Acked(t, u.id, u.clock)'
      BY <1>3, <3>1 DEF Own
    <3>3. QED
      BY <2>1, <2>2, <3>1, <3>2 DEF Own
  <2>4. QED
    BY <2>1, <2>3 DEF UnderWay
<1>10. QED
  BY <1>6, <1>7, <1>8, <1>9

LEMMA PushesStep ==
  ASSUME BarrierInv, ClientInv, PushesOK, \A w \in Workers : AtFirst(w), [JobStep]_vars
  PROVE  PushesOK'
<1>1. SentOK /\ \A s \in Shards : Grows(s)
  BY BarriersHold, JobIsShards, AllGrow
<1>2. \A s \in Shards : \A u \in sent[s] : u.worker \in Workers
  BY <1>1 DEF SentOK, Update
<1>3. CASE UNCHANGED clientVars /\ UNCHANGED sent
  <2>1. ASSUME NEW v \in Workers
        PROVE  /\ \A s \in Shards : \A u \in sent[s] : Own(v, s, u) => Own(v, s, u)'
               /\ UnderWay(v) => UnderWay(v)'
    BY <1>1, <1>3, OwnStays DEF clientVars
  <2>2. QED
    BY <1>2, <1>3, <2>1 DEF PushesOK
<1>4. ASSUME NEW w \in Workers, Frame(w), Rests(w) \/ PushAt(w) \/ Answered(w) \/ Fail(w)
      PROVE  PushesOK'
  <2>1. ASSUME NEW v \in Workers, v # w
        PROVE  /\ \A s \in Shards : \A u \in sent[s] : Own(v, s, u) => Own(v, s, u)'
               /\ UnderWay(v) => UnderWay(v)'
    BY <1>1, <1>4, <2>1, OwnStays DEF Frame
  <2>2. /\ \A s \in Shards : \A u \in sent[s] : u.worker = w => Own(w, s, u)'
        /\ UnderWay(w)'
    BY <1>1, <1>4, OwnMoves
  <2>3. \A s \in Shards : \A u \in sent[s] : Own(u.worker, s, u)'
    BY <1>2, <2>1, <2>2 DEF PushesOK
  <2>4. ASSUME NEW s \in Shards, NEW u \in sent'[s], u \notin sent[s] PROVE Own(u.worker, s, u)'
    <3>1. PushAt(w)
      <4>1. Rests(w) => UNCHANGED sent
        BY DEF Rests
      <4>2. Answered(w) \/ Fail(w) => UNCHANGED sent
        BY DEF Answered, Fail, shardVars, callVars
      <4>3. QED
        BY <1>4, <2>4, <4>1, <4>2
    <3>2. /\ pc[w] = "pushing" /\ pc'[w] = "waiting" /\ at[w] \in Shards
          /\ UNCHANGED <<algorithm, at, epoch, batch, current, snapshot>>
      BY <3>1, PushSent
    <3>3. PICK v : Sends(w, v) /\ sent' = [sent EXCEPT ![at[w]] = @ \cup {v}]
      BY <3>1, PushSent
    <3>4. u = v /\ s = at[w]
      BY <1>1, <2>4, <3>2, <3>3 DEF SentOK
    <3>5. u.id = Name(w) /\ u.worker = w /\ Name(w)' = Name(w) /\ s <= at'[w]
      BY <3>2, <3>3, <3>4, Numbers DEF Sends, Name
    <3>6. epoch[w] \in Nat /\ batch[w] \in Nat
      BY ClientHas, Numbers
    <3>7. Name(w)[1] = w /\ Name(w)[2] = epoch[w] /\ Name(w)[3] = batch[w]
      BY DEF Name
    <3>8. QED
      BY <3>2, <3>5, <3>6, <3>7 DEF Own
  <2>5. \A v \in Workers : UnderWay(v)'
    BY <2>1, <2>2 DEF PushesOK
  <2>6. QED
    BY <2>3, <2>4, <2>5 DEF PushesOK
<1>5. QED
  BY <1>3, <1>4, JobCases

LEMMA InOrderStep ==
  ASSUME BarrierInv, ClientInv, PushesOK, ShardByShard, ClocksOfPushes,
         \A w \in Workers : AtFirst(w), [JobStep]_vars
  PROVE  ShardByShard' /\ ClocksOfPushes'
<1>1. SentOK /\ \A s \in Shards : Grows(s)
  BY BarriersHold, JobIsShards, AllGrow
<1>2. ASSUME NEW s \in Shards, NEW i, NEW clock, Acked(s, i, clock) PROVE Acked(s, i, clock)'
  BY <1>1, <1>2, AckedStays
<1>3. ASSUME NEW s \in Shards, NEW t \in Shards, s < t, NEW u \in sent'[t]
      PROVE  Acked(s, u.id, u.clock)'
  <2>1. CASE u \in sent[t]
    BY <1>2, <1>3, <2>1 DEF ShardByShard
  <2>2. CASE u \notin sent[t]
    <3>1. PICK w \in Workers : PushAt(w)
      <4>1. sent' # sent
        BY <2>2
      <4>2. \A w \in Workers : Rests(w) => UNCHANGED sent
        BY DEF Rests
      <4>3. \A w \in Workers : Answered(w) \/ Fail(w) => UNCHANGED sent
        BY DEF Answered, Fail, shardVars, callVars
      <4>4. QED
        BY <4>1, <4>2, <4>3, JobCases
    <3>2. pc[w] = "pushing" /\ at[w] \in Shards
      BY <3>1, PushSent
    <3>3. PICK v : Sends(w, v) /\ sent' = [sent EXCEPT ![at[w]] = @ \cup {v}]
      BY <3>1, PushSent
    <3>4. u = v /\ t = at[w]
      BY <1>1, <2>2, <3>2, <3>3 DEF SentOK
    <3>5. Acked(s, Name(w), ClockOf(w))
      BY <1>3, <3>2, <3>4 DEF PushesOK, UnderWay
    <3>6. u.id = Name(w) /\ u.clock = ClockOf(w)
      BY <3>3, <3>4 DEF Sends
    <3>7. Acked(s, u.id, u.clock)
      BY <3>5, <3>6
    <3>8. QED
      BY <1>2, <3>7
  <2>3. QED
    BY <2>1, <2>2
<1>4. ASSUME NEW s \in Shards, NEW w \in Workers
      PROVE  \/ appliedClock'[s][w] = -1
             \/ \E u \in sent'[s] : u.worker = w /\ u.clock = appliedClock'[s][w]
  BY <1>1 DEF ClocksOfPushes, Grows
<1>5. ClocksOfPushes'
  BY <1>4 DEF ClocksOfPushes
<1>6. ShardByShard'
  BY <1>3 DEF ShardByShard
<1>7. QED
  BY <1>5, <1>6

LEMMA JobNext == JobInv /\ [JobStep]_vars => JobInv'
<1> SUFFICES ASSUME JobInv, [JobStep]_vars PROVE JobInv'
  OBVIOUS
<1>1. BarrierInv'
  BY JobIsShards, BarrierNext DEF JobInv
<1>2. ClientInv'
  BY ClientJob DEF JobInv
<1>3. \A w \in Workers : AtFirst(w)'
  BY AtFirstJob DEF JobInv
<1>4. PushesOK' /\ ShardByShard' /\ ClocksOfPushes'
  BY PushesStep, InOrderStep DEF JobInv
<1>5. QED
  BY <1>1, <1>2, <1>3, <1>4 DEF JobInv

LEMMA JobStart == TrainingInit => JobInv
<1> SUFFICES ASSUME TrainingInit PROVE JobInv
  OBVIOUS
<1>1. BarrierInv
  BY BarrierInit DEF TrainingInit
<1>2. ClientInv
  BY ClientStart
<1>3. \A s \in Shards : sent[s] = {} /\ \A w \in Workers : appliedClock[s][w] = -1
  BY DEF TrainingInit, ShardInit
<1>4. \A w \in Workers : pc[w] = "registering"
  BY DEF TrainingInit
<1>5. \A w \in Workers : AtFirst(w) /\ UnderWay(w)
  BY <1>4 DEF AtFirst, UnderWay
<1>6. QED
  BY <1>1, <1>2, <1>3, <1>5 DEF JobInv, PushesOK, ShardByShard, ClocksOfPushes

(* A later shard knows of what an earlier one has acknowledged: all pushes  *)
(* of a worker but the one it is making.                                   *)
LEMMA InStep == JobInv => ShardsInStep
<1> SUFFICES ASSUME JobInv, NEW s \in Shards, NEW t \in Shards, NEW w \in Workers, s < t
             PROVE  LET ahead == appliedClock[s][w]
                        behind == appliedClock[t][w]
                    IN /\ behind <= ahead
                       /\ Cardinality({u \in sent[s] : /\ u.worker = w
                                          /\ u.clock > behind /\ u.clock <= ahead}) <= 1
  BY DEF ShardsInStep
<1>1. TypeInv /\ SentOK /\ BarrierInv /\ \A r \in Shards : appliedClock[r][w] \in Int
  <2>1. TypeInv /\ SentOK /\ BarrierInv
    BY BarriersHold DEF JobInv
  <2>2. QED
    BY <2>1, ClocksAreInts DEF TypeInv
<1>2. ASSUME NEW r \in Shards, NEW u \in Update, Acked(r, u.id, u.clock), u.worker = w,
             \E q \in Shards : u \in sent[q]
      PROVE  u.clock <= appliedClock[r][w]
  <2>1. PICK v \in sent[r] :
          v.id = u.id /\ v.clock = u.clock /\ outcome[r][v.id] \in {"applied", "switched"}
    BY <1>2 DEF Acked
  <2>2. v.clock <= appliedClock[r][v.worker]
    BY <1>1, <2>1, AckedLeft
  <2>3. v.worker \in Workers /\ u.id[1] = u.worker /\ v.id[1] = v.worker
    <3>1. v \in Update
      BY <1>1 DEF SentOK
    <3>2. QED
      BY <1>2, <2>1, <3>1 DEF JobInv, PushesOK, Own, Update
  <2>4. QED
    BY <1>2, <2>1, <2>2, <2>3
<1>3. appliedClock[t][w] <= appliedClock[s][w]
  <2>1. CASE appliedClock[t][w] = -1
    <3>1. appliedClock[s][w] \in Clocks \cup {-1} /\ appliedClock[s][w] \in Int
      BY <1>1, ClocksAreInts DEF TypeInv
    <3>2. \A c \in Clocks : c \in Int /\ c >= 0
      BY ClocksAssumption
    <3>3. QED
      BY <2>1, <3>1, <3>2
  <2>2. CASE \E u \in sent[t] : u.worker = w /\ u.clock = appliedClock[t][w]
    <3>1. PICK u \in sent[t] : u.worker = w /\ u.clock = appliedClock[t][w]
      BY <2>2
    <3>2. Acked(s, u.id, u.clock) /\ u \in Update
      BY <1>1, <3>1 DEF JobInv, ShardByShard, SentOK
    <3>3. QED
      BY <1>2, <3>1, <3>2
  <2>3. QED
    BY <2>1, <2>2 DEF JobInv, ClocksOfPushes
<1> DEFINE between == {u \in sent[s] : /\ u.worker = w
                                       /\ u.clock > appliedClock[t][w]
                                       /\ u.clock <= appliedClock[s][w]}
<1>4. \A u \in between : u.id = Name(w)
  <2>1. SUFFICES ASSUME NEW u \in sent[s], u.worker = w, u.clock > appliedClock[t][w],
                        u.id # Name(w)
                 PROVE  FALSE
    OBVIOUS
  <2>2. Own(w, s, u) /\ u \in Update
    BY <1>1, <2>1 DEF JobInv, PushesOK, SentOK
  <2>3. Acked(t, u.id, u.clock)
    BY <2>1, <2>2 DEF Own
  <2>4. u.clock <= appliedClock[t][w]
    BY <1>2, <2>1, <2>2, <2>3
  <2>5. u.clock \in Int
    BY <2>2, ClocksAreInts
  <2>6. QED
    BY <1>1, <2>1, <2>4, <2>5
<1>5. \A u, v \in between : u = v
  BY <1>1, <1>4 DEF SentOK, DistinctNames
<1> HIDE DEF between
<1>6. Cardinality(between) <= 1
  <2>1. CASE between = {}
    BY <2>1, FS_EmptySet
  <2>2. CASE between # {}
    <3>1. PICK u : between = {u}
      BY <1>5, <2>2, SMTT(30)
    <3>2. QED
      BY <3>1, FS_Singleton
  <2>3. QED
    BY <2>1, <2>2
<1>7. QED
  BY <1>3, <1>6 DEF between

-----------------------------------------------------------------------------
(* Synchronous epochs. *)

LEMMA SwitchingMeans ==
  ASSUME NeverToSync, ClientInv, NEW w \in Workers, current[w] # InitialMode
  PROVE  /\ InitialMode = "sync" /\ current[w] = "async"
         /\ SwitchAt \in 0 .. epoch[w] /\ SwitchAt < Epochs
<1>1. /\ SwitchAt \in 0 .. epoch[w] /\ SwitchAt < Epochs
      /\ epoch[w] \in 0 .. Epochs /\ current[w] \in Modes
  BY ClientHas DEF SwitchesAt
<1>2. SwitchAt \in 0 .. Epochs - 1
  BY <1>1, Numbers
<1>3. QED
  BY <1>1, <1>2, ModeAssumption DEF NeverToSync, Modes

LEMMA SyncMeans ==
  ASSUME NeverToSync, ClientInv, NEW w \in Workers, pc[w] \in InEpoch
  PROVE  /\ current[w] = "sync" <=> SyncEpoch(epoch[w])
         /\ current[w] \in {"sync", "async"} /\ epoch[w] \in 0 .. Epochs - 1
<1>1. /\ current[w] \in Modes /\ SwitchesAt(pc[w], epoch[w], current[w])
      /\ epoch[w] \in 0 .. Epochs /\ epoch[w] < Epochs
  BY ClientHas DEF Stands
<1>2. CASE current[w] = InitialMode
  BY <1>1, <1>2, Numbers DEF SwitchesAt, SyncEpoch, Modes
<1>3. CASE current[w] # InitialMode
  BY <1>1, <1>3, SwitchingMeans, Numbers DEF SyncEpoch, Modes
<1>4. QED
  BY <1>2, <1>3

LEMMA EarlierEpochs ==
  ASSUME NEW e \in Nat, NEW f \in Nat, f <= e, SyncEpoch(e) PROVE SyncEpoch(f)
BY LoopAssumption DEF SyncEpoch

(* Once a worker has left sync mode, all synchronous rounds are over. *)
LEMMA AllRoundsPast ==
  ASSUME NeverToSync, ClientInv, PassedRounds, NEW w \in Workers, current[w] = "async",
         NEW s \in Shards, NEW e \in Nat, SyncEpoch(e)
  PROVE  RoundDone(s, e)
<1>1. InitialMode = "sync"
  BY DEF SyncEpoch
<1>2. SwitchAt \in 0 .. epoch[w] /\ SwitchAt < Epochs
  BY <1>1, SwitchingMeans
<1>3. epoch[w] \in Nat /\ Epochs \in Nat /\ SwitchAt \in Int
  BY ClientHas, Numbers
<1>4. e \in 0 .. Epochs - 1 /\ e < epoch[w]
  BY <1>2, <1>3 DEF SyncEpoch
<1>5. QED
  BY <1>4 DEF PassedRounds

LEMMA RoundStays ==
  ASSUME NEW s \in Shards, NEW e, Grows(s), RoundDone(s, e)
  PROVE  RoundDone(s, e)'
<1>1. ASSUME NEW v \in Workers
      PROVE  \E u \in sent'[s] : u \notin pending'[s] /\ u.worker = v /\ u.id[2] = e
  <2>1. PICK u \in sent[s] : u \notin pending[s] /\ u.worker = v /\ u.id[2] = e
    BY DEF RoundDone
  <2>2. QED
    BY <2>1 DEF Grows
<1>2. QED
  BY <1>1 DEF RoundDone

(* What a step of the job is to the shards. *)
LEMMA ShardCases ==
  ASSUME ClientInv, [JobStep]_vars
  PROVE  \/ UNCHANGED shardVars
         \/ \E w \in Workers, s \in Shards : Register(s, w)
         \/ \E w \in Workers : pc[w] = "switching" /\ SetMode(at[w], current[w], {w})
         \/ \E w \in Workers : PushAt(w)
         \/ \E s \in Shards : \E u \in Threads(s) : Wake(s, u) \/ Expire(s, u)
<1>1. \A w \in Workers : at[w] \in Shards
  BY DEF ClientInv, ClientTypes
<1>2. ASSUME NEW w \in Workers, RegisterAt(w) PROVE Register(at[w], w)
  BY <1>2 DEF RegisterAt
<1>3. ASSUME NEW w \in Workers, DeclareMode(w)
      PROVE  pc[w] = "switching" /\ SetMode(at[w], current[w], {w})
  BY <1>3 DEF DeclareMode, Visit
<1>4. ASSUME NEW w \in Workers, Gather(w) \/ BeginEpoch(w) \/ AssignTopics(w)
      PROVE  UNCHANGED shardVars
  BY <1>4 DEF Gather, BeginEpoch, AssignTopics
<1>5. ASSUME NEW w \in Workers, PullAt(w) \/ Answered(w) \/ Refused(w) \/ Fail(w)
      PROVE  UNCHANGED shardVars
  BY <1>5 DEF PullAt, Answered, Refused, Fail
<1>6. ASSUME NEW w \in Workers, Resend(w)
      PROVE  \/ Register(at[w], w)
             \/ pc[w] = "switching" /\ SetMode(at[w], current[w], {w})
  BY <1>6 DEF Resend
<1>7. ASSUME NEW s \in Shards, ShardStep(s)
      PROVE  \E u \in Threads(s) : Wake(s, u) \/ Expire(s, u)
  BY <1>7 DEF ShardStep, Threads
<1>8. CASE UNCHANGED vars
  BY <1>8 DEF vars
<1>9. CASE JobStep
  BY <1>1, <1>2, <1>3, <1>4, <1>5, <1>6, <1>7, <1>9 DEF JobStep, TrainingNext, ClientStep, Crash
<1>10. QED
  BY <1>8, <1>9

(* No shard goes back to sync mode; only a worker that has left it takes a  *)
(* shard out of it.                                                        *)
LEMMA ModesMove ==
  ASSUME NeverToSync, BarrierInv, ClientInv, ModesAgree, [JobStep]_vars, NEW s \in Shards
  PROVE  /\ mode'[s] \in Modes /\ (mode[s] = "async" => mode'[s] = "async")
         /\ mode'[s] = "sync" => \A v \in Workers : workerMode'[s][v] = "sync"
         /\ mode'[s] # mode[s] => \E w \in Workers : current[w] = "async"
<1>1. StateOK
  BY BarriersHold DEF TypeInv
<1>2. /\ mode[s] \in Modes
      /\ mode[s] = "sync" => \A v \in Workers : workerMode[s][v] = "sync"
  BY <1>1 DEF StateOK, ModesAgree
<1>3. CASE UNCHANGED modeVars
  BY <1>2, <1>3 DEF modeVars
<1>4. ASSUME NEW w \in Workers, NEW r \in Shards,
             UNCHANGED mode, workerMode' = [workerMode EXCEPT ![r][w] = mode[r]]
      PROVE  \A v \in Workers : mode[s] = "sync" => workerMode'[s][v] = "sync"
  BY <1>1, <1>2, <1>4 DEF StateOK
<1>5. ASSUME NEW w \in Workers, NEW r \in Shards, Register(r, w)
      PROVE  /\ mode'[s] \in Modes /\ (mode[s] = "async" => mode'[s] = "async")
             /\ mode'[s] = "sync" => \A v \in Workers : workerMode'[s][v] = "sync"
             /\ mode'[s] # mode[s] => \E v \in Workers : current[v] = "async"
  <2>1. UNCHANGED mode /\ workerMode' = [workerMode EXCEPT ![r][w] = mode[r]]
    BY <1>5 DEF Register
  <2>2. QED
    BY <1>2, <1>4, <2>1
<1>6. ASSUME NEW w \in Workers, PushAt(w)
      PROVE  /\ mode'[s] \in Modes /\ (mode[s] = "async" => mode'[s] = "async")
             /\ mode'[s] = "sync" => \A v \in Workers : workerMode'[s][v] = "sync"
             /\ mode'[s] # mode[s] => \E v \in Workers : current[v] = "async"
  <2>1. PICK u : Sends(w, u) /\ Push(at[w], u)
    BY <1>6, PushSent
  <2>2. Enlist(at[w], w) /\ at[w] \in Shards
    BY <1>6, <2>1, PushSent DEF Push, PushAsync, PushRefused, PushSync, Enter, Sends
  <2>3. /\ UNCHANGED mode
        /\ \/ UNCHANGED workerMode
           \/ workerMode' = [workerMode EXCEPT ![at[w]][w] = mode[at[w]]]
    BY <2>2 DEF Enlist
  <2>4. QED
    BY <1>2, <1>4, <2>2, <2>3
<1>7. ASSUME NEW w \in Workers, pc[w] = "switching", SetMode(at[w], current[w], {w})
      PROVE  /\ mode'[s] \in Modes /\ (mode[s] = "async" => mode'[s] = "async")
             /\ mode'[s] = "sync" => \A v \in Workers : workerMode'[s][v] = "sync"
             /\ mode'[s] # mode[s] => \E v \in Workers : current[v] = "async"
  <2>1. current[w] = "async" /\ at[w] \in Shards
    BY <1>7, SwitchingMeans, ClientHas DEF SwitchesAt
  <2>2. SetWorkerModes(at[w], "async", {w})
    BY <1>7, <2>1 DEF SetMode, SetSameMode, SwitchToAsync
  <2>3. \/ mode' = mode /\ mode[at[w]] = "async"
        \/ mode' = [mode EXCEPT ![at[w]] = "async"]
    BY <1>7, <2>1 DEF SetMode, SetSameMode, SwitchToAsync
  <2>4. s # at[w] => workerMode'[s] = workerMode[s]
    BY <1>1, <2>2 DEF SetWorkerModes, StateOK
  <2>5. mode'[at[w]] = "async" /\ (s # at[w] => mode'[s] = mode[s])
    BY <1>1, <2>1, <2>3 DEF StateOK
  <2>6. QED
    BY <1>2, <2>1, <2>4, <2>5 DEF Modes
<1>8. ASSUME NEW r \in Shards, NEW u \in Threads(r), Wake(r, u) \/ Expire(r, u)
      PROVE  UNCHANGED modeVars
  BY <1>8 DEF Wake, Expire
<1>9. CASE UNCHANGED shardVars
  BY <1>3, <1>9 DEF shardVars
<1>10. QED
  BY <1>3, <1>5, <1>6, <1>7, <1>8, <1>9, ShardCases

(* A worker in its second mode stays there. *)
LEMMA CurrentMoves ==
  ASSUME NeverToSync, ClientInv, [JobStep]_vars
  PROVE  /\ \A w \in Workers : current[w] # InitialMode => current'[w] = current[w]
         /\ current' # current => \E w \in Workers : BeginEpoch(w)
<1>1. CASE UNCHANGED current
  BY <1>1
<1>2. ASSUME NEW w \in Workers, BeginEpoch(w)
      PROVE  \A v \in Workers : current[v] # InitialMode => current'[v] = current[v]
  <2>1. CASE UNCHANGED current
    BY <2>1
  <2>2. CASE current' = [current EXCEPT ![w] = Other(InitialMode)]
    <3>1. \A m \in Modes : m # InitialMode => m = Other(InitialMode)
      BY ModeAssumption DEF Modes, Other
    <3>2. QED
      BY <2>2, <3>1 DEF ClientInv, ClientTypes
  <2>3. QED
    BY <1>2, <2>1, <2>2 DEF BeginEpoch
<1>3. ASSUME NEW w \in Workers, ClientStep(w) \/ Resend(w) \/ Fail(w), ~BeginEpoch(w)
      PROVE  UNCHANGED current
  <2>1. CASE RegisterAt(w) \/ Gather(w) \/ DeclareMode(w) \/ AssignTopics(w)
    BY <2>1 DEF RegisterAt, Gather, DeclareMode, AssignTopics
  <2>2. CASE PullAt(w) \/ PushAt(w) \/ Answered(w) \/ Fail(w)
    BY <2>2 DEF PullAt, PushAt, Answered, Fail
  <2>3. CASE Resend(w)
    BY <2>3 DEF Resend, clientVars
  <2>4. QED
    BY <1>3, <2>1, <2>2, <2>3 DEF ClientStep, Refused
<1>4. CASE UNCHANGED vars
  BY <1>4 DEF vars, clientVars
<1>5. CASE JobStep
  <2>1. CASE \E s \in Shards : ShardStep(s) /\ UNCHANGED clientVars
    BY <1>1, <2>1 DEF clientVars
  <2>2. CASE \E w \in Workers : ClientStep(w) \/ Resend(w) \/ Fail(w)
    BY <1>1, <1>2, <1>3, <2>2
  <2>3. QED
    BY <1>5, <2>1, <2>2 DEF JobStep, TrainingNext, Crash
<1>6. QED
  BY <1>4, <1>5

LEMMA ModesAgreeStep ==
  ASSUME NeverToSync, BarrierInv, ClientInv, ModesAgree, [JobStep]_vars
  PROVE  ModesAgree'
<1> SUFFICES ASSUME NEW s \in Shards
             PROVE  /\ mode'[s] = "sync" =>
                         /\ InitialMode = "sync"
                         /\ \A w \in Workers : workerMode'[s][w] = "sync"
                    /\ mode'[s] = "async" =>
                         InitialMode = "async" \/ \E w \in Workers : current'[w] = "async"
  BY DEF ModesAgree
<1>1. /\ mode'[s] \in Modes /\ (mode[s] = "async" => mode'[s] = "async")
      /\ mode'[s] = "sync" => \A v \in Workers : workerMode'[s][v] = "sync"
      /\ mode'[s] # mode[s] => \E w \in Workers : current[w] = "async"
  BY ModesMove
<1>2. mode[s] \in Modes
  BY BarriersHold DEF TypeInv, StateOK
<1>3. /\ mode[s] = "sync" => InitialMode = "sync"
      /\ mode[s] = "async" => InitialMode = "async" \/ \E w \in Workers : current[w] = "async"
  BY DEF ModesAgree
<1>4. InitialMode = "async" \/ \A w \in Workers : current[w] = "async" => current'[w] = "async"
  BY CurrentMoves, ModeAssumption DEF Modes
<1>5. QED
  BY <1>1, <1>2, <1>3, <1>4 DEF Modes

LEMMA EverybodyStep ==
  ASSUME BarrierInv, ClientInv, EverybodyThere, \A w \in Workers : AtFirst(w), [JobStep]_vars
  PROVE  EverybodyThere'
<1>1. \A s \in Shards : Grows(s) /\ workers'[s] \subseteq Workers
  <2>1. (TypeInv)'
    BY JobIsShards, BarrierNext DEF BarrierInv
  <2>2. QED
    BY <2>1, JobIsShards, AllGrow DEF TypeInv, StateOK
<1>2. ASSUME \A s \in Shards : Workers \subseteq workers[s] PROVE EverybodyThere'
  <2>1. ASSUME NEW s \in Shards PROVE workers'[s] = Workers
    <3>1. workers[s] \subseteq workers'[s] /\ workers'[s] \subseteq Workers
      BY <1>1 DEF Grows
    <3>2. Workers \subseteq workers[s]
      BY <1>2
    <3>3. QED
      BY <3>1, <3>2
  <2>2. QED
    BY <2>1 DEF EverybodyThere
<1>3. CASE \E w \in Workers : Gather(w)
  <2>1. \A s \in Shards : Workers \subseteq workers[s]
    BY <1>3 DEF Gather
  <2>2. QED
    BY <1>2, <2>1
<1>4. CASE \A w \in Workers : ~Started(w) /\ ~Gather(w)
  <2>1. ASSUME NEW w \in Workers, ClientStep(w) \/ Resend(w) \/ Fail(w) PROVE ~Started(w)' /\ ~PushAt(w)
    <3>1. pc[w] \in {"registering", "gathering", "failed"} /\ current[w] = InitialMode
      BY <1>4, ClientHas DEF Started, Places, Ended
    <3>2. pc \in [Workers -> Places]
      BY DEF ClientInv, ClientTypes
    <3>3. CASE RegisterAt(w)
      BY <3>1, <3>2, <3>3 DEF RegisterAt, Visit, Started, InEpoch, PushAt
    <3>4. CASE Resend(w)
      BY <1>4, <3>1, <3>4 DEF Resend, clientVars, Started, PushAt
    <3>5. CASE Fail(w)
      BY <3>1, <3>2, <3>5 DEF Fail, Started, InEpoch, PushAt
    <3>6. QED
      <4>1. ~Gather(w)
        BY <1>4
      <4>2. ~(BeginEpoch(w) \/ AssignTopics(w) \/ PushAt(w) \/ Answered(w))
        BY <3>1 DEF BeginEpoch, AssignTopics, PushAt, Answered
      <4>3. ~(DeclareMode(w) \/ PullAt(w))
        BY <3>1 DEF DeclareMode, PullAt, Visit
      <4>4. QED
        BY <2>1, <3>3, <3>4, <3>5, <4>1, <4>2, <4>3 DEF ClientStep, Refused
  <2>2. ASSUME NEW w \in Workers, ClientStep(w) \/ Resend(w) \/ Fail(w)
        PROVE  \A v \in Workers : ~Started(v)'
    <3>1. Frame(w)
      BY <2>2, ClientFrame
    <3>2. ASSUME NEW v \in Workers, v # w PROVE ~Started(v)'
      <4>1. pc'[v] = pc[v] /\ current'[v] = current[v]
        BY <3>1, <3>2 DEF Frame
      <4>2. QED
        BY <1>4, <4>1 DEF Started
    <3>3. QED
      BY <2>1, <2>2, <3>2
  <2>3. UNCHANGED clientVars => \A v \in Workers : ~Started(v)'
    BY <1>4 DEF clientVars, Started
  <2>4. \A v \in Workers : ~Started(v)'
    BY <2>2, <2>3 DEF JobStep, TrainingNext, Crash, vars
  <2>5. UNCHANGED sent
    <3>1. \A w \in Workers : ~PushAt(w)
      BY <1>4 DEF PushAt, Started, InEpoch
    <3>2. \A w \in Workers : Rests(w) \/ Answered(w) \/ Fail(w) => UNCHANGED sent
      BY DEF Rests, Answered, Fail, shardVars, callVars
    <3>3. QED
      BY <3>1, <3>2, JobCases
  <2>6. CASE \E s \in Shards : sent[s] # {}
    BY <1>2, <2>6 DEF EverybodyThere
  <2>7. CASE \A s \in Shards : sent[s] = {}
    BY <2>4, <2>5, <2>7 DEF EverybodyThere
  <2>8. QED
    BY <2>6, <2>7
<1>5. QED
  BY <1>2, <1>3, <1>4 DEF EverybodyThere

LEMMA DeclaredStep ==
  ASSUME NeverToSync, BarrierInv, ClientInv, ModesAgree, Declared,
         \A w \in Workers : AtFirst(w), [JobStep]_vars
  PROVE  Declared'
<1> DEFINE In(p, a, s) ==
      p \in {"looping", "pulling", "pushing", "waiting"} \/ (p = "switching" /\ s < a)
<1>1. \A s \in Shards : mode'[s] \in Modes /\ (mode[s] = "async" => mode'[s] = "async")
  BY ModesMove
<1>2. ModesAgree'
  BY ModesAgreeStep
<1>3. CASE InitialMode = "async"
  <2>1. \A s \in Shards : mode'[s] = "async"
    BY <1>1, <1>2, <1>3 DEF ModesAgree, Modes
  <2>2. QED
    BY <2>1 DEF Declared
<1>4. ASSUME NEW w \in Workers, NEW s \in Shards, current[w] = "async", In(pc[w], at[w], s)
      PROVE  mode'[s] = "async"
  BY <1>1, <1>4 DEF Declared
<1>5. ASSUME InitialMode = "sync", NEW w \in Workers, ClientStep(w) \/ Resend(w) \/ Fail(w),
             NEW s \in Shards, current'[w] = "async", In(pc'[w], at'[w], s)
      PROVE  mode'[s] = "async"
  <2>1. /\ pc \in [Workers -> Places] /\ at \in [Workers -> Shards]
        /\ current \in [Workers -> Modes] /\ at[w] \in Shards
        /\ Stands(pc[w], at[w], epoch[w], batch[w], current[w])
        /\ SwitchesAt(pc[w], epoch[w], current[w])
    BY ClientHas DEF ClientInv, ClientTypes
  <2>2. CASE RegisterAt(w) \/ Gather(w)
    <3>1. pc[w] \in {"registering", "gathering"} /\ UNCHANGED current
      BY <2>2 DEF RegisterAt, Gather, Visit
    <3>2. QED
      BY <1>5, <2>1, <3>1 DEF SwitchesAt
  <2>3. CASE BeginEpoch(w)
    <3>1. pc[w] = "looping" /\ UNCHANGED at /\ at[w] = 1
      BY <2>1, <2>3 DEF BeginEpoch, Stands
    <3>2. CASE current[w] = "async"
      BY <1>4, <3>1, <3>2
    <3>3. CASE current[w] # "async"
      <4>1. pc'[w] = "switching"
        BY <1>5, <2>1, <2>3, <3>3 DEF BeginEpoch
      <4>2. s < 1
        BY <1>5, <3>1, <4>1
      <4>3. QED
        BY <4>2, Numbers
    <3>4. QED
      BY <3>2, <3>3
  <2>4. CASE DeclareMode(w)
    <3>1. /\ Visit(w, "switching", "pulling") /\ pc[w] = "switching"
          /\ UNCHANGED current /\ SetMode(at[w], current[w], {w})
      BY <2>4 DEF DeclareMode, Visit
    <3>2. current[w] = "async"
      BY <1>5, <3>1
    <3>3. mode'[at[w]] = "async"
      <4>1. StateOK
        BY BarriersHold DEF TypeInv
      <4>2. \/ mode' = mode /\ mode[at[w]] = "async"
            \/ mode' = [mode EXCEPT ![at[w]] = "async"]
        BY <3>1, <3>2 DEF SetMode, SetSameMode, SwitchToAsync
      <4>3. QED
        BY <2>1, <4>1, <4>2 DEF StateOK
    <3>4. s <= at[w]
      <4>1. CASE at[w] + 1 \in Shards
        <5>1. pc'[w] = "switching" /\ at'[w] = at[w] + 1
          BY <2>1, <3>1, <4>1 DEF Visit
        <5>2. s < at[w] + 1 /\ s \in Nat /\ at[w] \in Nat
          BY <1>5, <2>1, <5>1, Numbers
        <5>3. QED
          BY <5>2
      <4>2. CASE at[w] + 1 \notin Shards
        BY <2>1, <4>2, Numbers
      <4>3. QED
        BY <4>1, <4>2
    <3>5. CASE s < at[w]
      BY <1>4, <3>1, <3>2, <3>5
    <3>6. CASE s = at[w]
      BY <3>3, <3>6
    <3>7. QED
      BY <2>1, <3>4, <3>5, <3>6, Numbers
  <2>5. CASE AssignTopics(w) \/ PullAt(w) \/ PushAt(w) \/ Answered(w)
    <3>1. pc[w] \in {"pulling", "pushing", "waiting"} /\ UNCHANGED current
      BY <2>5 DEF AssignTopics, PullAt, PushAt, Answered, Visit
    <3>2. QED
      BY <1>4, <1>5, <3>1
  <2>6. CASE Fail(w)
    <3>1. pc'[w] = "failed"
      BY <2>1, <2>6 DEF Fail
    <3>2. QED
      BY <1>5, <3>1
  <2>7. CASE Resend(w)
    <3>1. UNCHANGED <<pc, at, current>>
      BY <2>7 DEF Resend, clientVars
    <3>2. QED
      BY <1>4, <1>5, <3>1
  <2>8. QED
    BY <1>5, <2>2, <2>3, <2>4, <2>5, <2>6, <2>7 DEF ClientStep, Refused
<1>6. ASSUME InitialMode = "sync", NEW w \in Workers, ClientStep(w) \/ Resend(w) \/ Fail(w)
      PROVE  Declared'
  <2>1. Frame(w)
    BY <1>6, ClientFrame
  <2>2. ASSUME NEW v \in Workers, NEW s \in Shards, current'[v] = "async", In(pc'[v], at'[v], s)
        PROVE  mode'[s] = "async"
    <3>1. CASE v = w
      BY <1>5, <1>6, <2>2, <3>1
    <3>2. CASE v # w
      <4>1. pc'[v] = pc[v] /\ at'[v] = at[v] /\ current'[v] = current[v]
        BY <2>1, <3>2 DEF Frame
      <4>2. QED
        BY <1>4, <2>2, <4>1
    <3>3. QED
      BY <3>1, <3>2
  <2>3. QED
    BY <2>2 DEF Declared
<1>7. CASE UNCHANGED clientVars
  BY <1>4, <1>7 DEF clientVars, Declared
<1>8. QED
  BY <1>3, <1>6, <1>7, ModeAssumption DEF JobStep, TrainingNext, Crash, vars, Modes

(* A push that has just come to a shard. *)
LEMMA NewPush ==
  ASSUME BarrierInv, ClientInv, \A w \in Workers : AtFirst(w), [JobStep]_vars,
         NEW s \in Shards, NEW u \in sent'[s], u \notin sent[s]
  PROVE  \E w \in Workers :
           /\ PushAt(w) /\ pc[w] = "pushing" /\ pc'[w] = "waiting" /\ s = at[w]
           /\ Sends(w, u) /\ Push(s, u) /\ \A v \in sent[s] : v.id # u.id
           /\ UNCHANGED <<algorithm, at, epoch, batch, current, snapshot>>
<1>1. PICK w \in Workers : PushAt(w)
  <2>1. sent' # sent
    OBVIOUS
  <2>2. \A w \in Workers : Rests(w) => UNCHANGED sent
    BY DEF Rests
  <2>3. \A w \in Workers : Answered(w) \/ Fail(w) => UNCHANGED sent
    BY DEF Answered, Fail, shardVars, callVars
  <2>4. QED
    BY <2>1, <2>2, <2>3, JobCases
<1>2. /\ pc[w] = "pushing" /\ pc'[w] = "waiting" /\ at[w] \in Shards
      /\ UNCHANGED <<algorithm, at, epoch, batch, current, snapshot>>
  BY <1>1, PushSent
<1>3. PICK v : /\ Sends(w, v) /\ Push(at[w], v)
               /\ sent' = [sent EXCEPT ![at[w]] = @ \cup {v}]
  BY <1>1, PushSent
<1>4. SentOK
  BY BarriersHold
<1>5. u = v /\ s = at[w]
  BY <1>2, <1>3, <1>4 DEF SentOK
<1>6. \A x \in sent[s] : x.id # u.id
  BY <1>3, <1>5 DEF Push, PushAsync, PushRefused, PushSync, Enter
<1>7. QED
  BY <1>1, <1>2, <1>3, <1>5, <1>6

LEMMA SyncPushesStep ==
  ASSUME NeverToSync, BarrierInv, ClientInv, ModesAgree, Declared, SyncPushes,
         \A w \in Workers : AtFirst(w), [JobStep]_vars
  PROVE  SyncPushes'
<1>1. \A s \in Shards : mode[s] = "async" => mode'[s] = "async"
  BY ModesMove
<1>2. ASSUME NEW s \in Shards, NEW u \in sent'[s]
      PROVE  /\ SyncEpoch(u.id[2]) => u.clock = u.id[2] /\ u.id[3] = Batches - 1
             /\ ~SyncEpoch(u.id[2]) => mode'[s] = "async"
  <2>1. CASE u \in sent[s]
    BY <1>1, <2>1 DEF SyncPushes
  <2>2. CASE u \notin sent[s]
    <3>1. PICK w \in Workers : /\ pc[w] = "pushing" /\ s = at[w] /\ Sends(w, u)
      BY <2>2, NewPush
    <3>2. u.id[2] = epoch[w] /\ u.id[3] = batch[w] /\ u.clock = ClockOf(w)
      BY <3>1 DEF Sends, Name
    <3>3. /\ current[w] = "sync" <=> SyncEpoch(epoch[w])
          /\ current[w] \in {"sync", "async"}
      BY <3>1, SyncMeans DEF InEpoch
    <3>4. CASE SyncEpoch(epoch[w])
      <4>1. batch[w] + 1 = Batches
        BY <3>1, <3>3, <3>4, ClientHas DEF Stands
      <4>2. batch[w] = Batches - 1
        BY <4>1, ClientHas, Numbers
      <4>3. QED
        BY <3>2, <3>3, <3>4, <4>2 DEF ClockOf
    <3>5. CASE ~SyncEpoch(epoch[w])
      <4>1. mode[s] = "async"
        BY <3>1, <3>3, <3>5 DEF Declared
      <4>2. QED
        BY <1>1, <3>2, <3>5, <4>1
    <3>6. QED
      BY <3>4, <3>5
  <2>3. QED
    BY <2>1, <2>2
<1>3. \A e : SyncEpoch(e)' <=> SyncEpoch(e)
  BY DEF SyncEpoch
<1>4. QED
  BY <1>2 DEF SyncPushes, SyncEpoch

(* A round leaves the barrier of a synchronous shard as a whole. *)
LEMMA TurnRound ==
  ASSUME NEW s \in Shards, NEW v, NEW barrier, NEW late, Turn(s, v, barrier, late),
         SyncPushes', sent' \in [Shards -> SUBSET Update], pending \in [Shards -> SUBSET Update],
         barrier \subseteq sent'[s],
         mode'[s] = "sync", workers'[s] = Workers,
         \A w \in Workers : workerMode'[s][w] = "sync",
         NEW u \in barrier, u \notin pending'[s]
  PROVE  RoundDone(s, u.id[2])'
<1> DEFINE syncs == InSync(workers'[s], workerMode'[s])
           round == Round(syncs, v, barrier)
<1>1. syncs = Workers
  BY DEF InSync
<1> HIDE DEF syncs
<1>2. /\ Ready(syncs, v, barrier)
      /\ pending' = [pending EXCEPT ![s] = barrier \ round]
  <2>1. \/ pending' = [pending EXCEPT ![s] = barrier]
        \/ /\ Ready(syncs, v, barrier)
           /\ pending' = [pending EXCEPT ![s] = barrier \ round]
    BY DEF Turn, syncs
  <2>2. QED
    BY <2>1
<1>3. pending'[s] = barrier \ round
  BY <1>2
<1>4. \A x \in round : /\ x \in sent'[s] /\ x \notin pending'[s]
                       /\ x.clock = v.clock
  BY <1>3 DEF Round
<1>5. \A x \in sent'[s] : x.id[2] = x.clock
  BY DEF SyncPushes, SyncEpoch
<1>6. u \in round
  BY <1>3
<1>7. ASSUME NEW w \in Workers
      PROVE  \E x \in sent'[s] : x \notin pending'[s] /\ x.worker = w /\ x.id[2] = u.id[2]
  <2>1. PICK x \in round : x.worker = w
    BY <1>1, <1>2 DEF Ready
  <2>2. QED
    BY <1>4, <1>5, <1>6, <2>1
<1>8. QED
  BY <1>7 DEF RoundDone

LEMMA AppliedRoundsStep ==
  ASSUME NeverToSync, BarrierInv, ClientInv, EverybodyThere, ModesAgree, Declared, SyncPushes,
         PassedRounds, AppliedRounds, \A w \in Workers : AtFirst(w), [JobStep]_vars
  PROVE  AppliedRounds'
<1>1. TypeInv /\ SentOK /\ \A s \in Shards : Grows(s) /\ Barrier(s)
  BY BarriersHold, JobIsShards, AllGrow
<1>2. BarrierInv' /\ SyncPushes' /\ EverybodyThere' /\ ModesAgree'
  BY JobIsShards, BarrierNext, SyncPushesStep, EverybodyStep, ModesAgreeStep
<1>3. sent' \in [Shards -> SUBSET Update] /\ \A s \in Shards : IsFiniteSet(sent'[s])
  BY <1>2 DEF BarrierInv, TypeInv, OnceInv, SentOK, CallsOK
<1>4. \A s \in Shards : \A u \in sent'[s] : u.id[2] \in Nat
  <2>1. \A u \in Update : u.id \in Workers \X (0 .. Epochs - 1) \X (0 .. Batches - 1)
    BY PushNames DEF Update
  <2>2. QED
    BY <1>3, <2>1
<1>5. CASE InitialMode = "async"
  BY <1>5 DEF AppliedRounds, SyncEpoch
<1>6. CASE InitialMode = "sync" /\ \E w \in Workers : current[w] = "async"
  <2>1. ASSUME NEW s \in Shards, NEW u \in sent'[s], SyncEpoch(u.id[2])
        PROVE  RoundDone(s, u.id[2])'
    BY <1>1, <1>4, <1>6, <2>1, AllRoundsPast, RoundStays
  <2>2. QED
    BY <2>1 DEF AppliedRounds, SyncEpoch
<1>7. CASE InitialMode = "sync" /\ \A w \in Workers : current[w] # "async"
  <2>1. ASSUME NEW s \in Shards
        PROVE  /\ mode[s] = "sync" /\ mode'[s] = "sync"
               /\ \A v \in Workers : workerMode'[s][v] = "sync"
    <3>1. mode[s] \in Modes /\ mode[s] # "async"
      BY <1>1, <1>7 DEF TypeInv, StateOK, ModesAgree
    <3>2. mode'[s] = mode[s]
      BY <1>7, ModesMove
    <3>3. QED
      BY <3>1, <3>2, ModesMove DEF Modes
  <2>2. ASSUME NEW s \in Shards, NEW u \in sent'[s] PROVE workers'[s] = Workers
    BY <1>2, <2>2 DEF EverybodyThere
  <2>3. ASSUME NEW r \in Shards, NEW v, NEW barrier, NEW late, Turn(r, v, barrier, late),
               barrier \subseteq sent'[r], NEW u \in barrier, u \notin pending'[r]
        PROVE  RoundDone(r, u.id[2])'
    <3>1. workers'[r] = Workers /\ mode'[r] = "sync" /\ pending \in [Shards -> SUBSET Update]
          /\ \A w \in Workers : workerMode'[r][w] = "sync"
      BY <1>1, <2>1, <2>2, <2>3 DEF SentOK
    <3>2. QED
      BY <1>2, <1>3, <2>3, <3>1, TurnRound
  <2>4. ASSUME NEW s \in Shards, NEW u \in sent'[s], u \notin pending'[s],
               ~(u \in sent[s] /\ u \notin pending[s])
        PROVE  RoundDone(s, u.id[2])'
    <3>1. u \in pending[s] \/ u \notin sent[s]
      BY <2>4
    <3>2. ASSUME NEW r \in Shards, NEW v, NEW barrier, NEW late, Turn(r, v, barrier, late),
                 s # r
          PROVE  pending'[s] = pending[s]
      BY <1>1, <3>2 DEF Turn, SentOK
    <3>3. CASE UNCHANGED <<pending, sent>>
      BY <2>4, <3>3
    <3>4. CASE UNCHANGED shardVars
      BY <3>3, <3>4 DEF shardVars, barrierVars, callVars
    <3>5. ASSUME NEW w \in Workers, NEW r \in Shards, Register(r, w) PROVE FALSE
      <4>1. UNCHANGED <<pending, sent>>
        BY <3>5 DEF Register, barrierVars, callVars
      <4>2. QED
        BY <2>4, <4>1
    <3>6. ASSUME NEW w \in Workers, pc[w] = "switching" PROVE FALSE
      <4>1. current[w] # InitialMode
        BY <3>6, ClientHas DEF SwitchesAt
      <4>2. QED
        BY <1>7, <4>1, SwitchingMeans
    <3>7. ASSUME NEW w \in Workers, PushAt(w) PROVE RoundDone(s, u.id[2])'
      <4>1. at[w] \in Shards
        BY <3>7, PushSent
      <4>2. PICK v : /\ Sends(w, v) /\ Push(at[w], v)
                     /\ sent' = [sent EXCEPT ![at[w]] = @ \cup {v}]
        BY <3>7, PushSent
      <4>3. v \in Update /\ v.worker = w /\ sent'[at[w]] = sent[at[w]] \cup {v}
            /\ (s # at[w] => sent'[s] = sent[s])
        BY <1>1, <4>1, <4>2 DEF Sends, SentOK
      <4>4. ~RunsAsync(at[w], w)
        BY <2>1, <4>1 DEF RunsAsync
      <4>5. Mergeable(SameSlot(pending[at[w]], v) \cup {v})
        <5>1. \A x \in Update : x.sizes \in [Keys -> {0, 1}]
          BY ScalarPayloads DEF Update
        <5>2. sent'[at[w]] \in SUBSET Update /\ IsFiniteSet(sent'[at[w]])
              /\ sent[at[w]] \subseteq sent'[at[w]]
          BY <1>3, <4>1, <4>3
        <5>3. SameLengths(sent'[at[w]])
          BY <5>1, <5>2 DEF SameLengths
        <5>4. SameSlot(pending[at[w]], v) \cup {v} \in SUBSET sent'[at[w]]
          BY <1>1, <4>1, <4>3 DEF SameSlot, SentOK
        <5>5. QED
          BY <1>1, <4>1, <5>2, <5>3, <5>4, NothingRaises DEF Barrier
      <4>6. Turn(at[w], v, pending[at[w]] \cup {v}, FALSE)
        BY <4>2, <4>3, <4>4, <4>5 DEF Push, PushAsync, PushRefused, PushSync
      <4>7. CASE s # at[w]
        BY <2>4, <3>2, <4>1, <4>3, <4>6, <4>7
      <4>8. CASE s = at[w]
        <5>1. u \in pending[s] \cup {v} /\ pending[s] \cup {v} \subseteq sent'[s]
          BY <1>1, <3>1, <4>3, <4>8 DEF SentOK
        <5>2. QED
          BY <2>3, <2>4, <4>6, <4>8, <5>1
      <4>9. QED
        BY <4>7, <4>8
    <3>8. ASSUME NEW r \in Shards, NEW v \in Threads(r), Wake(r, v) \/ Expire(r, v)
          PROVE  RoundDone(s, u.id[2])'
      <4>1. UNCHANGED sent
        BY <3>8 DEF Wake, Expire
      <4>2. PICK late \in BOOLEAN : Turn(r, v, pending[r], late)
        BY <3>8 DEF Wake, Expire
      <4>3. CASE s # r
        BY <2>4, <3>2, <4>1, <4>2, <4>3
      <4>4. CASE s = r
        <5>1. u \in pending[s] /\ pending[s] \subseteq sent'[s]
          BY <1>1, <3>1, <4>1 DEF SentOK
        <5>2. QED
          BY <2>3, <2>4, <4>2, <4>4, <5>1
      <4>5. QED
        BY <4>3, <4>4
    <3>9. QED
      BY <3>4, <3>5, <3>6, <3>7, <3>8, ShardCases
  <2>5. ASSUME NEW s \in Shards, NEW u \in sent[s], u \notin pending[s], SyncEpoch(u.id[2])
        PROVE  RoundDone(s, u.id[2])'
    BY <1>1, <2>5, RoundStays DEF AppliedRounds
  <2>6. QED
    BY <2>4, <2>5 DEF AppliedRounds, SyncEpoch
<1>8. QED
  BY <1>5, <1>6, <1>7, ModeAssumption DEF Modes

LEMMA PassedRoundsStep ==
  ASSUME NeverToSync, BarrierInv, ClientInv, PushesOK, PassedRounds, AppliedRounds,
         \A w \in Workers : AtFirst(w), [JobStep]_vars
  PROVE  PassedRounds'
<1>1. SentOK /\ \A s \in Shards : Grows(s)
  BY BarriersHold, JobIsShards, AllGrow
<1>2. ASSUME NEW w \in Workers, NEW e \in 0 .. Epochs - 1, NEW s \in Shards,
             e < epoch[w], SyncEpoch(e)
      PROVE  RoundDone(s, e)'
  BY <1>1, <1>2, RoundStays DEF PassedRounds
<1>3. CASE UNCHANGED epoch
  BY <1>2, <1>3 DEF PassedRounds, SyncEpoch
<1>4. ASSUME NEW w \in Workers, Frame(w), Rests(w) \/ PushAt(w) \/ Answered(w) \/ Fail(w),
             NEW v \in Workers, NEW e \in 0 .. Epochs - 1, NEW s \in Shards,
             e < epoch'[v], SyncEpoch(e), ~(e < epoch[v])
      PROVE  RoundDone(s, e)'
  <2>1. /\ epoch[w] \in Nat /\ at[w] \in Shards /\ pc \in [Workers -> Places]
        /\ epoch \in [Workers -> 0 .. Epochs] /\ at \in [Workers -> Shards]
    BY ClientHas, Numbers DEF ClientInv, ClientTypes
  <2>2. v = w
    BY <1>4 DEF Frame
  <2>3. Answered(w)
    <3>1. Rests(w) \/ PushAt(w) \/ Fail(w) => epoch'[w] = epoch[w]
      BY DEF Rests, PushAt, Fail
    <3>2. QED
      BY <1>4, <2>2, <3>1
  <2>4. at[w] + 1 \notin Shards /\ epoch'[w] = epoch[w] + 1
    BY <1>4, <2>1, <2>2, <2>3 DEF Answered
  <2>5. e = epoch[w] /\ s <= at[w] /\ s \in Nat /\ at[w] \in Nat
    <3>1. e \in Int /\ ~(e < epoch[w]) /\ e < epoch[w] + 1
      BY <1>4, <2>2, <2>4, Numbers
    <3>2. s <= at[w] /\ s \in Nat /\ at[w] \in Nat
      BY <2>1, <2>4, Numbers
    <3>3. QED
      BY <2>1, <3>1, <3>2
  <2>6. pc[w] = "waiting" /\ outcome[at[w]][Name(w)] \in {"applied", "switched"}
    BY <2>3 DEF Answered
  <2>7. UnderWay(w)
    BY DEF PushesOK
  <2>8. PICK u \in sent[s] : u.id = Name(w) /\ outcome[s][u.id] \in {"applied", "switched"}
    <3>1. CASE s = at[w]
      BY <2>6, <2>7, <3>1 DEF UnderWay
    <3>2. CASE s # at[w]
      <4>1. s < at[w]
        BY <2>5, <3>2
      <4>2. QED
        BY <2>6, <2>7, <4>1 DEF UnderWay, Acked
    <3>3. QED
      BY <3>1, <3>2
  <2>9. u \notin pending[s] /\ u.id[2] = e
    BY <2>5, <2>8, AckedLeft DEF Name
  <2>10. RoundDone(s, e)
    BY <1>4, <2>9 DEF AppliedRounds
  <2>11. QED
    BY <1>1, <2>10, RoundStays
<1>5. ASSUME NEW w \in Workers, Frame(w), Rests(w) \/ PushAt(w) \/ Answered(w) \/ Fail(w)
      PROVE  PassedRounds'
  <2>1. ASSUME NEW v \in Workers, NEW e \in 0 .. Epochs - 1, NEW s \in Shards,
               e < epoch'[v], SyncEpoch(e)
        PROVE  RoundDone(s, e)'
    BY <1>2, <1>4, <1>5, <2>1
  <2>2. QED
    BY <2>1 DEF PassedRounds, SyncEpoch
<1>6. QED
  BY <1>3, <1>5, JobCases DEF clientVars

(* A worker has one push in a synchronous round, the last of its epoch.    *)
LEMMA RoundPush ==
  ASSUME SentOK, PushesOK, SyncPushes, NEW s \in Shards, NEW e, SyncEpoch(e), RoundDone(s, e),
         NEW w \in Workers
  PROVE  \E u \in sent[s] : /\ u \notin pending[s] /\ u.worker = w
                            /\ u.clock = e /\ u.id = <<w, e, Batches - 1>>
<1>1. PICK u \in sent[s] : u \notin pending[s] /\ u.worker = w /\ u.id[2] = e
  BY DEF RoundDone
<1>2. u.id \in Pushes /\ u.id[1] = w
  BY <1>1 DEF SentOK, Update, PushesOK, Own
<1>3. u.clock = e /\ u.id[3] = Batches - 1
  BY <1>1 DEF SyncPushes
<1>4. u.id = <<w, e, Batches - 1>>
  <2>1. u.id = <<u.id[1], u.id[2], u.id[3]>>
    BY <1>2, PushNames
  <2>2. QED
    BY <1>1, <1>2, <1>3, <2>1
<1>5. QED
  BY <1>1, <1>3, <1>4

(* The values a worker pulls in a synchronous epoch. *)
LEMMA PullsSee ==
  ASSUME NeverToSync, BarrierInv, ClientInv, PushesOK, ModesAgree, SyncPushes,
         PassedRounds, AppliedRounds,
         NEW w \in Workers, pc[w] = "pulling", current[w] = "sync",
         NEW s \in Shards, NEW u \in sent[s], u.sizes # Heartbeat
  PROVE  u.id \in Present(s) <=> u.id[2] < epoch[w]
<1>1. TypeInv /\ SentOK /\ Barrier(s)
  BY BarriersHold
<1>2. SyncEpoch(epoch[w]) /\ epoch[w] \in 0 .. Epochs - 1 /\ epoch[w] \in Nat
  BY SyncMeans, Numbers DEF InEpoch
<1>3. u \in Update /\ u.id \in Pushes /\ u.worker \in Workers /\ u.id[1] = u.worker
      /\ u.id[2] \in 0 .. Epochs - 1 /\ u.id[2] \in Nat
  <2>1. u \in Update /\ u.id \in Pushes /\ u.worker \in Workers /\ u.id[1] = u.worker
    BY <1>1 DEF SentOK, Update, PushesOK, Own
  <2>2. u.id[2] \in 0 .. Epochs - 1
    BY <2>1, PushNames
  <2>3. QED
    BY <2>1, <2>2, Numbers
<1>4. ASSUME u.id[2] < epoch[w] PROVE u.id \in Present(s)
  <2>1. SyncEpoch(u.id[2])
    BY <1>2, <1>3, <1>4, EarlierEpochs
  <2>2. RoundDone(s, u.id[2])
    BY <1>2, <1>3, <1>4, <2>1 DEF PassedRounds
  <2> DEFINE e == u.id[2]
             x == u.worker
  <2>a. SyncEpoch(e) /\ RoundDone(s, e) /\ x \in Workers
    BY <1>3, <2>1, <2>2
  <2>b. u.id = <<x, e, u.id[3]>> /\ u.id[3] = Batches - 1
    <3>1. u.id = <<u.id[1], u.id[2], u.id[3]>>
      BY <1>3, PushNames
    <3>2. QED
      BY <1>3, <2>1, <3>1 DEF SyncPushes
  <2> HIDE DEF e, x
  <2>3. PICK v \in sent[s] : v \notin pending[s] /\ v.id = <<x, e, Batches - 1>>
    BY <1>1, <2>a, RoundPush
  <2>4. u.id = <<x, e, Batches - 1>>
    BY <2>b
  <2>5. u \notin pending[s]
    BY <1>1, <2>3, <2>4 DEF SentOK, DistinctNames
  <2>6. PICK k \in Keys : u.sizes[k] # 0
    <3>1. u.sizes \in [Keys -> {0, 1}]
      BY <1>3, ScalarPayloads DEF Update
    <3>2. QED
      BY <3>1 DEF Heartbeat
  <2>7. applied[s][u.id][k] = 1
    BY <1>1, <2>5, <2>6 DEF Barrier, Kept
  <2>8. QED
    BY <1>3, <2>7 DEF Present
<1>5. ASSUME u.id \in Present(s), ~(u.id[2] < epoch[w]) PROVE FALSE
  <2>1. u \notin pending[s]
    BY <1>1, <1>5 DEF Present, TypeInv, OnceInv, PendingIsNotApplied
  <2>2. PICK e \in Nat : SyncEpoch(e) /\ RoundDone(s, e) /\ e >= epoch[w]
    <3>1. CASE SyncEpoch(u.id[2])
      <4>1. RoundDone(s, u.id[2])
        BY <2>1, <3>1 DEF AppliedRounds
      <4>2. QED
        BY <1>2, <1>3, <1>5, <3>1, <4>1
    <3>2. CASE ~SyncEpoch(u.id[2])
      <4>1. mode[s] = "async" /\ InitialMode = "sync"
        BY <1>2, <3>2 DEF SyncPushes, SyncEpoch
      <4>2. PICK v \in Workers : current[v] = "async"
        BY <4>1 DEF ModesAgree
      <4>3. RoundDone(s, epoch[w])
        BY <1>2, <4>2, AllRoundsPast
      <4>4. QED
        BY <1>2, <4>3
    <3>3. QED
      BY <3>1, <3>2
  <2>3. PICK v \in sent[s] : v.worker = w /\ v.id = <<w, e, Batches - 1>>
    BY <1>1, <2>2, RoundPush
  <2>4. Own(w, s, v) /\ v.id[2] = e /\ v.id[3] = Batches - 1
    BY <2>3 DEF PushesOK
  <2>5. e = epoch[w] /\ batch[w] = Batches - 1
    <3>1. batch[w] \in 0 .. Batches - 1 /\ Batches \in Nat
      BY ClientHas, Numbers
    <3>2. e < epoch[w] \/ (e = epoch[w] /\ Batches - 1 <= batch[w])
      BY <2>4 DEF Own
    <3>3. QED
      BY <1>2, <2>2, <3>1, <3>2
  <2>6. v.id = Name(w)
    BY <2>3, <2>5 DEF Name
  <2>7. QED
    BY <2>4, <2>6 DEF Own
<1>6. QED
  BY <1>4, <1>5

(* What comes later is neither of an epoch before nor in the values pulled. *)
LEMMA SeesStays ==
  ASSUME NeverToSync, BarrierInv, ClientInv, PushesOK, SyncPushes, PassedRounds,
         \A v \in Workers : AtFirst(v), [JobStep]_vars,
         NEW w \in Workers, NEW s \in Shards, pc[w] \in InEpoch, current[w] = "sync",
         Sees(w, s), \A i \in snapshot[w][s] : \E u \in sent[s] : u.id = i,
         snapshot'[w][s] = snapshot[w][s], epoch'[w] = epoch[w]
  PROVE  Sees(w, s)'
<1>1. SentOK
  BY BarriersHold
<1>2. SyncEpoch(epoch[w]) /\ epoch[w] \in 0 .. Epochs - 1 /\ epoch[w] \in Nat
  BY SyncMeans, Numbers
<1>3. ASSUME NEW u \in sent'[s], u \notin sent[s]
      PROVE  u.id \notin snapshot[w][s] /\ ~(u.id[2] < epoch[w])
  <2>1. PICK v \in Workers : /\ pc[v] = "pushing" /\ Sends(v, u)
                             /\ \A x \in sent[s] : x.id # u.id
    BY <1>3, NewPush
  <2>2. u.id \notin snapshot[w][s]
    BY <2>1
  <2>3. ASSUME u.id[2] < epoch[w] PROVE FALSE
    <3>1. u.id = Name(v) /\ u.id[2] = epoch[v] /\ epoch[v] \in 0 .. Epochs - 1 /\ epoch[v] \in Nat
          /\ (current[v] = "sync" <=> SyncEpoch(epoch[v]))
      BY <2>1, SyncMeans, Numbers DEF Sends, Name, InEpoch
    <3>2. SyncEpoch(epoch[v])
      BY <1>2, <2>3, <3>1, EarlierEpochs
    <3>3. RoundDone(s, epoch[v])
      BY <1>2, <2>3, <3>1, <3>2 DEF PassedRounds
    <3> DEFINE e == epoch[v]
    <3>a. SyncEpoch(e) /\ RoundDone(s, e)
      BY <3>2, <3>3
    <3> HIDE DEF e
    <3>4. PICK x \in sent[s] : x.id = <<v, e, Batches - 1>>
      BY <1>1, <2>1, <3>a, RoundPush
    <3>5. batch[v] = Batches - 1
      <4>1. batch[v] + 1 = Batches /\ batch[v] \in Nat /\ Batches \in Nat
        BY <2>1, <3>1, <3>2, ClientHas, Numbers DEF Stands
      <4>2. QED
        BY <4>1
    <3>6. x.id = u.id
      BY <3>1, <3>4, <3>5 DEF Name, e
    <3>7. QED
      BY <2>1, <3>6
  <2>4. QED
    BY <2>2, <2>3
<1>4. QED
  BY <1>3 DEF Sees

(* A worker goes on with what it has seen, or looks again. *)
LEMMA PulledMoves ==
  ASSUME ClientInv, NEW w \in Workers, AtFirst(w), ClientStep(w) \/ Resend(w) \/ Fail(w),
         NEW s \in Shards
  PROVE  /\ PullsNothing(w)' => PullsNothing(w) /\ ~PullAt(w)
         /\ \/ snapshot'[w][s] = snapshot[w][s] /\ ~(PullAt(w) /\ s = at[w])
            \/ /\ PullAt(w) /\ s = at[w] /\ pc[w] = "pulling" /\ ~PullsNothing(w)
               /\ UNCHANGED <<epoch, current, sent>>
               /\ snapshot'[w][s] = IF s \in Touches[w] /\ current[w] = "sync"
                                    THEN Present(s) ELSE {}
         /\ current'[w] = "sync" /\ Pulled(w, s)' =>
              /\ current[w] = "sync" /\ epoch'[w] = epoch[w] /\ pc[w] \in InEpoch
              /\ \/ Pulled(w, s)
                 \/ PullAt(w) /\ s = at[w]
                 \/ AssignTopics(w) /\ UNCHANGED sent
<1>1. /\ pc \in [Workers -> Places] /\ at \in [Workers -> Shards]
      /\ epoch \in [Workers -> 0 .. Epochs] /\ batch \in [Workers -> 0 .. Batches - 1]
      /\ current \in [Workers -> Modes] /\ snapshot \in [Workers -> [Shards -> SUBSET Pushes]]
      /\ Stands(pc[w], at[w], epoch[w], batch[w], current[w])
  BY ClientHas DEF ClientInv, ClientTypes
<1>2. epoch[w] \in Nat /\ batch[w] \in Nat /\ at[w] \in Shards /\ Batches \in Nat
      /\ at[w] \in Nat /\ s \in Nat /\ s >= 1 /\ (at[w] + 1 \notin Shards => s <= at[w])
  <2>1. epoch[w] \in 0 .. Epochs /\ batch[w] \in 0 .. Batches - 1 /\ at[w] \in Shards
    BY <1>1
  <2>2. at[w] \in Nat /\ s \in Nat /\ s >= 1 /\ (at[w] + 1 \notin Shards => s <= at[w])
    BY <2>1, Numbers
  <2>3. QED
    BY <2>1, <2>2, Numbers
<1> DEFINE Sure ==
      /\ PullsNothing(w)' => PullsNothing(w) /\ ~PullAt(w)
      /\ snapshot'[w][s] = snapshot[w][s] /\ ~(PullAt(w) /\ s = at[w])
<1>3. ASSUME UNCHANGED <<algorithm, epoch, snapshot>>, pc[w] # "pulling" \/ PullsNothing(w)
      PROVE  Sure
  BY <1>3 DEF PullsNothing, PullAt, Visit
<1>4. CASE RegisterAt(w) \/ Gather(w)
  <2>1. /\ UNCHANGED <<algorithm, epoch, snapshot>> /\ pc[w] \in {"registering", "gathering"}
        /\ pc'[w] \in {"registering", "gathering", "looping"}
    BY <1>1, <1>4 DEF RegisterAt, Gather, Visit
  <2>2. ~Pulled(w, s)'
    BY <2>1 DEF Pulled
  <2>3. QED
    BY <1>3, <2>1, <2>2
<1>5. CASE BeginEpoch(w)
  <2>1. /\ UNCHANGED <<algorithm, at, epoch, batch, snapshot>> /\ pc[w] = "looping"
        /\ pc'[w] \in {"done", "switching", "pulling"}
    BY <1>1, <1>5 DEF BeginEpoch
  <2>2. at'[w] = 1 /\ batch'[w] = 0
    BY <1>1, <2>1 DEF Stands
  <2>3. ~Pulled(w, s)'
    BY <1>2, <2>1, <2>2 DEF Pulled
  <2>4. QED
    BY <1>3, <2>1, <2>3
<1>6. CASE DeclareMode(w)
  <2>1. /\ UNCHANGED <<algorithm, epoch, batch, snapshot>> /\ pc[w] = "switching"
        /\ pc'[w] = "switching" \/ (pc'[w] = "pulling" /\ at'[w] = 1)
    BY <1>1, <1>6 DEF DeclareMode, Visit
  <2>2. batch'[w] = 0
    BY <1>1, <2>1 DEF Stands
  <2>3. ~Pulled(w, s)'
    BY <1>2, <2>1, <2>2 DEF Pulled
  <2>4. QED
    BY <1>3, <2>1, <2>3
<1>7. CASE AssignTopics(w)
  <2>1. /\ UNCHANGED <<algorithm, epoch, current, snapshot, sent>>
        /\ pc[w] = "pulling" /\ PullsNothing(w)
    BY <1>7 DEF AssignTopics, shardVars, callVars
  <2>2. Sure
    BY <1>3, <2>1
  <2>3. current'[w] = current[w] /\ epoch'[w] = epoch[w] /\ pc[w] \in InEpoch
    BY <2>1 DEF InEpoch
  <2>4. QED
    BY <1>7, <2>1, <2>2, <2>3
<1>8. CASE PullAt(w)
  <2>1. /\ UNCHANGED <<algorithm, epoch, current, sent>> /\ pc[w] = "pulling" /\ ~PullsNothing(w)
        /\ pc'[w] \in {"pulling", "pushing"}
    BY <1>1, <1>8 DEF PullAt, Visit, shardVars, callVars
  <2>2. snapshot' = [snapshot EXCEPT ![w][at[w]] =
                       IF at[w] \in Touches[w] /\ current[w] = "sync" THEN Present(at[w]) ELSE {}]
    BY <1>8 DEF PullAt
  <2>3. CASE s = at[w]
    <3>1. snapshot'[w][s] = IF s \in Touches[w] /\ current[w] = "sync" THEN Present(s) ELSE {}
      BY <1>1, <2>2, <2>3
    <3>2. ~PullsNothing(w)'
      BY <2>1 DEF PullsNothing
    <3>3. current'[w] = current[w] /\ epoch'[w] = epoch[w] /\ pc[w] \in InEpoch
      BY <2>1 DEF InEpoch
    <3>4. QED
      BY <1>8, <2>1, <2>3, <3>1, <3>2, <3>3
  <2>4. CASE s # at[w]
    <3>1. snapshot'[w][s] = snapshot[w][s]
      BY <1>1, <2>2, <2>4
    <3>2. ~PullsNothing(w)'
      BY <2>1 DEF PullsNothing
    <3>3. current'[w] = current[w] /\ epoch'[w] = epoch[w] /\ pc[w] \in InEpoch
      BY <2>1 DEF InEpoch
    <3>4. ASSUME Pulled(w, s)' PROVE Pulled(w, s)
      <4>1. CASE at[w] + 1 \notin Shards
        <5>1. s < at[w]
          BY <1>2, <2>4, <4>1
        <5>2. QED
          BY <2>1, <5>1 DEF Pulled
      <4>2. CASE at[w] + 1 \in Shards
        <5>1. pc'[w] = "pulling" /\ at'[w] = at[w] + 1 /\ batch'[w] = batch[w]
          BY <1>1, <1>8, <2>1, <4>2 DEF PullAt, Visit
        <5>2. batch[w] > 0 \/ s < at[w] + 1
          BY <3>4, <5>1 DEF Pulled
        <5>3. batch[w] > 0 \/ s < at[w]
          BY <1>2, <2>4, <5>2
        <5>4. QED
          BY <2>1, <5>3 DEF Pulled
      <4>3. QED
        BY <4>1, <4>2
    <3>5. QED
      BY <2>4, <3>1, <3>2, <3>3, <3>4
  <2>5. QED
    BY <2>3, <2>4
<1>9. CASE PushAt(w)
  <2>1. /\ UNCHANGED <<algorithm, epoch, current, snapshot>> /\ pc[w] = "pushing"
    BY <1>9 DEF PushAt
  <2>2. Pulled(w, s) /\ pc[w] \in InEpoch /\ current'[w] = current[w] /\ epoch'[w] = epoch[w]
    BY <2>1 DEF Pulled, InEpoch
  <2>3. QED
    BY <1>3, <2>1, <2>2
<1>10. CASE Answered(w)
  <2>1. /\ UNCHANGED <<algorithm, current, snapshot>> /\ pc[w] = "waiting"
    BY <1>10 DEF Answered
  <2>2. Pulled(w, s) /\ pc[w] \in InEpoch /\ current'[w] = current[w]
    BY <2>1 DEF Pulled, InEpoch
  <2>3. PullsNothing(w)' => PullsNothing(w)
    <3>1. epoch'[w] \in {epoch[w], epoch[w] + 1}
      BY <1>1, <1>10 DEF Answered
    <3>2. QED
      BY <1>2, <2>1, <3>1 DEF PullsNothing
  <2>4. ~PullAt(w)
    BY <2>1 DEF PullAt, Visit
  <2>5. epoch'[w] = epoch[w] \/ ~Pulled(w, s)'
    <3>1. epoch'[w] = epoch[w] \/ pc'[w] = "looping"
      BY <1>1, <1>10 DEF Answered
    <3>2. QED
      BY <3>1 DEF Pulled
  <2>6. QED
    BY <2>1, <2>2, <2>3, <2>4, <2>5
<1>11. CASE Fail(w)
  <2>1. /\ UNCHANGED <<algorithm, epoch, current, snapshot>> /\ pc'[w] = "failed"
    BY <1>1, <1>11 DEF Fail
  <2>2. ~Pulled(w, s)'
    BY <2>1 DEF Pulled
  <2>3. PullsNothing(w)' => PullsNothing(w)
    BY <2>1 DEF PullsNothing
  <2>4. ~PullAt(w)
    BY <1>1, <2>1 DEF PullAt, Visit
  <2>5. QED
    BY <2>1, <2>2, <2>3, <2>4
<1>12. CASE Resend(w)
  <2>1. /\ UNCHANGED <<algorithm, pc, at, epoch, batch, current, snapshot>>
        /\ pc[w] \in {"registering", "switching"}
    BY <1>12 DEF Resend, clientVars
  <2>2. ~Pulled(w, s)'
    BY <2>1 DEF Pulled
  <2>3. QED
    BY <1>3, <2>1, <2>2
<1>13. QED
  BY <1>4, <1>5, <1>6, <1>7, <1>8, <1>9, <1>10, <1>11, <1>12 DEF ClientStep, Refused

LEMMA SnapshotsStep ==
  ASSUME NeverToSync, BarrierInv, ClientInv, PushesOK, ModesAgree, SyncPushes,
         PassedRounds, AppliedRounds, SnapshotsOK,
         \A v \in Workers : AtFirst(v), [JobStep]_vars
  PROVE  SnapshotsOK'
<1>1. TypeInv /\ SentOK /\ \A s \in Shards : Grows(s)
  BY BarriersHold, JobIsShards, AllGrow
<1>2. ASSUME NEW w \in Workers, NEW s \in Shards
      PROVE  /\ Snapshot(w, s) /\ sent[s] \subseteq sent'[s]
             /\ \A u \in sent[s] : u.id[2] \in Nat
             /\ Pulled(w, s) => pc[w] \in InEpoch
  <2>1. Snapshot(w, s) /\ sent[s] \subseteq sent'[s]
    BY <1>1 DEF SnapshotsOK, Grows
  <2>2. \A u \in Update : u.id \in Workers \X (0 .. Epochs - 1) \X (0 .. Batches - 1)
    BY PushNames DEF Update
  <2>3. \A u \in sent[s] : u.id[2] \in Nat
    BY <1>1, <2>2 DEF SentOK
  <2>4. QED
    BY <2>1, <2>3 DEF Pulled, InEpoch
<1>3. ASSUME NEW w \in Workers, NEW s \in Shards, algorithm' = algorithm,
             pc'[w] = pc[w], at'[w] = at[w], epoch'[w] = epoch[w], batch'[w] = batch[w],
             current'[w] = current[w], snapshot'[w] = snapshot[w]
      PROVE  Snapshot(w, s)'
  <2>1. Pulled(w, s)' = Pulled(w, s) /\ PullsNothing(w)' = PullsNothing(w)
    BY <1>3 DEF Pulled, PullsNothing
  <2>2. ASSUME current[w] = "sync", Pulled(w, s) PROVE Sees(w, s)'
    <3>1. /\ Sees(w, s) /\ pc[w] \in InEpoch
          /\ \A i \in snapshot[w][s] : \E u \in sent[s] : u.id = i
      BY <1>2, <2>2 DEF Snapshot
    <3>2. QED
      BY <1>3, <2>2, <3>1, SeesStays
  <2>3. \A i \in snapshot'[w][s] : \E u \in sent'[s] : u.id = i
    BY <1>2, <1>3 DEF Snapshot
  <2>4. PullsNothing(w)' => snapshot'[w][s] = {}
    BY <1>2, <1>3, <2>1 DEF Snapshot
  <2>5. QED
    BY <1>3, <2>1, <2>2, <2>3, <2>4 DEF Snapshot
<1>4. ASSUME NEW w \in Workers, ClientStep(w) \/ Resend(w) \/ Fail(w), NEW s \in Shards
      PROVE  Snapshot(w, s)'
  <2>1. /\ PullsNothing(w)' => PullsNothing(w) /\ ~PullAt(w)
        /\ \/ snapshot'[w][s] = snapshot[w][s] /\ ~(PullAt(w) /\ s = at[w])
           \/ /\ PullAt(w) /\ s = at[w] /\ pc[w] = "pulling" /\ ~PullsNothing(w)
              /\ UNCHANGED <<epoch, current, sent>>
              /\ snapshot'[w][s] = IF s \in Touches[w] /\ current[w] = "sync"
                                   THEN Present(s) ELSE {}
    BY <1>4, PulledMoves
  <2>2. PullsNothing(w)' => snapshot'[w][s] = {}
    BY <1>2, <2>1 DEF Snapshot
  <2>3. \A i \in snapshot'[w][s] : \E u \in sent'[s] : u.id = i
    <3>1. \A i \in snapshot[w][s] : \E u \in sent[s] : u.id = i
      BY <1>2 DEF Snapshot
    <3>2. \A i \in Present(s) : \E u \in sent[s] : u.id = i
      BY <1>1 DEF Present, TypeInv, OnceInv, AppliedWasSent
    <3>3. QED
      BY <1>2, <2>1, <3>1, <3>2
  <2>4. ASSUME current'[w] = "sync", Pulled(w, s)' PROVE Sees(w, s)'
    <3>1. /\ current[w] = "sync" /\ epoch'[w] = epoch[w] /\ pc[w] \in InEpoch
          /\ \/ Pulled(w, s)
             \/ PullAt(w) /\ s = at[w]
             \/ AssignTopics(w) /\ UNCHANGED sent
      BY <1>4, <2>4, PulledMoves
    <3>2. CASE PullAt(w) /\ s = at[w]
      <4>1. /\ pc[w] = "pulling" /\ UNCHANGED sent
            /\ snapshot'[w][s] = IF s \in Touches[w] THEN Present(s) ELSE {}
        BY <2>1, <3>1, <3>2
      <4>2. \A u \in sent[s] : u.sizes # Heartbeat => (u.id \in Present(s) <=> u.id[2] < epoch[w])
        BY <3>1, <4>1, PullsSee
      <4>3. QED
        BY <3>1, <4>1, <4>2 DEF Sees
    <3>3. CASE Pulled(w, s) /\ ~(PullAt(w) /\ s = at[w])
      <4>1. /\ Sees(w, s) /\ snapshot'[w][s] = snapshot[w][s]
            /\ \A i \in snapshot[w][s] : \E u \in sent[s] : u.id = i
        BY <1>2, <2>1, <3>1, <3>3 DEF Snapshot
      <4>2. QED
        BY <3>1, <4>1, SeesStays
    <3>4. CASE AssignTopics(w) /\ UNCHANGED sent
      <4>1. PullsNothing(w) /\ epoch[w] = 0
        BY <3>4 DEF AssignTopics, PullsNothing
      <4>2. snapshot[w][s] = {}
        BY <1>2, <4>1 DEF Snapshot
      <4>3. snapshot'[w][s] = {}
        BY <2>1, <4>1, <4>2
      <4>4. \A u \in sent[s] : ~(u.id[2] < epoch[w])
        BY <1>2, <4>1
      <4>5. QED
        BY <3>1, <3>4, <4>3, <4>4 DEF Sees
    <3>5. QED
      BY <3>1, <3>2, <3>3, <3>4
  <2>5. QED
    BY <2>2, <2>3, <2>4 DEF Snapshot
<1>5. ASSUME NEW w \in Workers, ClientStep(w) \/ Resend(w) \/ Fail(w)
      PROVE  SnapshotsOK'
  <2>1. Frame(w)
    BY <1>5, ClientFrame
  <2>2. ASSUME NEW v \in Workers, v # w, NEW s \in Shards PROVE Snapshot(v, s)'
    BY <1>3, <2>1, <2>2 DEF Frame
  <2>3. QED
    BY <1>4, <1>5, <2>2 DEF SnapshotsOK
<1>6. CASE UNCHANGED clientVars
  <2>1. ASSUME NEW w \in Workers, NEW s \in Shards PROVE Snapshot(w, s)'
    BY <1>3, <1>6 DEF clientVars
  <2>2. QED
    BY <2>1 DEF SnapshotsOK
<1>7. QED
  BY <1>5, <1>6 DEF JobStep, TrainingNext, Crash, vars

LEMMA SyncNext ==
  ASSUME NeverToSync, JobInv, SyncInv, [JobStep]_vars PROVE SyncInv'
<1>1. /\ BarrierInv /\ ClientInv /\ PushesOK /\ \A w \in Workers : AtFirst(w)
      /\ EverybodyThere /\ ModesAgree /\ Declared
      /\ SyncPushes /\ PassedRounds /\ AppliedRounds /\ SnapshotsOK
  BY DEF JobInv, SyncInv
<1>2. EverybodyThere' /\ ModesAgree' /\ Declared'
  BY <1>1, EverybodyStep, ModesAgreeStep, DeclaredStep
<1>3. SyncPushes' /\ PassedRounds' /\ AppliedRounds'
  BY <1>1, SyncPushesStep, PassedRoundsStep, AppliedRoundsStep
<1>4. SnapshotsOK'
  BY <1>1, SnapshotsStep
<1>5. QED
  BY <1>2, <1>3, <1>4 DEF SyncInv

LEMMA SyncStart == TrainingInit => SyncInv
<1> SUFFICES ASSUME TrainingInit PROVE SyncInv
  OBVIOUS
<1>1. /\ \A s \in Shards : sent[s] = {} /\ mode[s] = InitialMode
      /\ \A s \in Shards, w \in Workers : workerMode[s][w] = InitialMode
  BY DEF TrainingInit, ShardInit
<1>2. \A w \in Workers : /\ pc[w] = "registering" /\ epoch[w] = 0 /\ current[w] = InitialMode
                         /\ \A s \in Shards : snapshot[w][s] = {}
  BY DEF TrainingInit
<1>3. EverybodyThere
  BY <1>1, <1>2 DEF EverybodyThere, Started, InEpoch
<1>4. ModesAgree
  BY <1>1, ModeAssumption DEF ModesAgree, Modes
<1>5. Declared /\ SyncPushes /\ AppliedRounds
  BY <1>1, <1>2 DEF Declared, SyncPushes, AppliedRounds
<1>6. PassedRounds
  <2>1. \A w \in Workers, e \in 0 .. Epochs - 1 : ~(e < epoch[w])
    BY <1>2, LoopAssumption
  <2>2. QED
    BY <2>1 DEF PassedRounds
<1>7. SnapshotsOK
  <2>1. \A w \in Workers, s \in Shards : ~Pulled(w, s)
    BY <1>2 DEF Pulled
  <2>2. QED
    BY <1>2, <2>1 DEF SnapshotsOK, Snapshot
<1>8. QED
  BY <1>3, <1>4, <1>5, <1>6, <1>7 DEF SyncInv

LEMMA SyncMakesBulk == NeverToSync /\ JobInv /\ SyncInv => BulkSynchronous
<1> SUFFICES ASSUME NeverToSync, JobInv, SyncInv,
                    NEW w \in Workers, current[w] = "sync",
                    pc[w] = "pushing" \/ (pc[w] = "pulling" /\ batch[w] > 0),
                    NEW s \in Shards
             PROVE  /\ \A v \in Workers, e \in 0 .. epoch[w] - 1 :
                         \E u \in sent[s] : u.id[1] = v /\ u.id[2] = e
                    /\ \A u \in sent[s] : u.sizes # Heartbeat /\ s \in Touches[w] =>
                         (u.id \in snapshot[w][s] <=> u.id[2] < epoch[w])
  BY DEF BulkSynchronous
<1>1. SyncEpoch(epoch[w]) /\ epoch[w] \in 0 .. Epochs - 1 /\ Epochs \in Nat
  BY SyncMeans, Numbers DEF InEpoch, JobInv
<1>2. ASSUME NEW v \in Workers, NEW e \in 0 .. epoch[w] - 1
      PROVE  \E u \in sent[s] : u.id[1] = v /\ u.id[2] = e
  <2>1. e \in Nat /\ e < epoch[w] /\ e \in 0 .. Epochs - 1 /\ epoch[w] \in Nat
    BY <1>1
  <2>2. SyncEpoch(e)
    BY <1>1, <2>1, EarlierEpochs
  <2>3. RoundDone(s, e)
    BY <2>1, <2>2 DEF SyncInv, PassedRounds
  <2>4. PICK u \in sent[s] : u.worker = v /\ u.id[2] = e
    BY <2>3 DEF RoundDone
  <2>5. u.id[1] = u.worker
    BY DEF JobInv, PushesOK, Own
  <2>6. QED
    BY <2>4, <2>5
<1>3. Sees(w, s)
  BY DEF SyncInv, SnapshotsOK, Snapshot, Pulled
<1>4. QED
  BY <1>2, <1>3 DEF Sees

LEMMA NoPastClock == NeverToSync /\ JobInv /\ SyncInv => NobodyWaitsForThePast
<1> SUFFICES ASSUME NeverToSync, JobInv, SyncInv,
                    NEW s \in Shards, NEW u \in asleep[s], NEW w \in SyncWorkers(s),
                    ~(epoch[w] <= u.id[2])
             PROVE  \E v \in pending[s] : v.worker = w /\ v.clock = u.clock
  BY DEF NobodyWaitsForThePast
<1>1. TypeInv /\ SentOK /\ Barrier(s) /\ PushesOK /\ SyncPushes
  BY BarriersHold DEF JobInv, SyncInv
<1>2. /\ u \in sent[s] /\ u \in Update /\ u.worker \in Workers /\ u.id[1] = u.worker
      /\ u.id \in Pushes /\ w \in Workers
  <2>1. u \in sent[s] /\ u \in Update
    BY <1>1 DEF TypeInv, CallsOK, Threads, SentOK
  <2>2. w \in Workers
    BY <1>1 DEF SyncWorkers, InSync, TypeInv, StateOK
  <2>3. QED
    BY <1>1, <2>1, <2>2 DEF Update, PushesOK, Own
<1>3. PICK x \in pending[s] : x.worker = u.worker /\ x.clock = u.clock
  BY <1>1 DEF Barrier, Sleeps, SameSlot
<1>4. mode[s] = "sync"
  BY <1>1 DEF Barrier, Sleeps
<1>5. x \in sent[s] /\ x.id \in Pushes /\ x.id[1] = x.worker
  BY <1>1 DEF SentOK, Update, PushesOK, Own
<1> DEFINE e == u.id[2]
<1>6. /\ SyncEpoch(e) /\ u.clock = e /\ u.id[3] = Batches - 1
      /\ x.id[2] = e /\ x.id[3] = Batches - 1
  BY <1>1, <1>2, <1>3, <1>4, <1>5 DEF SyncPushes
<1>7. e \in 0 .. Epochs - 1 /\ e < epoch[w]
  <2>1. e \in 0 .. Epochs - 1
    BY <1>2, PushNames
  <2>2. epoch[w] \in Nat /\ Epochs \in Nat
    BY <1>2, ClientHas, Numbers DEF JobInv
  <2>3. QED
    BY <2>1, <2>2
<1>8. RoundDone(s, e)
  BY <1>2, <1>6, <1>7 DEF SyncInv, PassedRounds
<1>9. x.id = <<u.worker, e, Batches - 1>>
  <2>1. x.id = <<x.id[1], x.id[2], x.id[3]>>
    BY <1>5, PushNames
  <2>2. QED
    BY <1>3, <1>5, <1>6, <2>1
<1> HIDE DEF e
<1> DEFINE a == u.worker
<1>10. a \in Workers /\ x.id = <<a, e, Batches - 1>>
  BY <1>2, <1>9
<1> HIDE DEF a
<1>11. PICK y \in sent[s] : y \notin pending[s] /\ y.id = <<a, e, Batches - 1>>
  BY <1>1, <1>6, <1>8, <1>10, RoundPush
<1>12. x = y
  BY <1>1, <1>5, <1>10, <1>11 DEF SentOK, DistinctNames
<1>13. QED
  BY <1>11, <1>12

-----------------------------------------------------------------------------
(* The experiment. *)

(* The last mini-batch of every epoch that is over was pushed everywhere.  *)
LastPushes ==
  \A w \in Workers, s \in Shards : \A e \in 0 .. epoch[w] - 1 :
    \E u \in sent[s] : u.id = <<w, e, Batches - 1>>

LEMMA LastPushesStep ==
  ASSUME JobInv, LastPushes, [JobStep]_vars PROVE LastPushes'
<1>1. /\ BarrierInv /\ ClientInv /\ PushesOK /\ \A w \in Workers : AtFirst(w)
      /\ \A s \in Shards : Grows(s)
  BY JobIsShards, AllGrow DEF JobInv
<1>2. ASSUME NEW w \in Workers, NEW s \in Shards, NEW e \in 0 .. epoch[w] - 1
      PROVE  \E u \in sent'[s] : u.id = <<w, e, Batches - 1>>
  <2>1. PICK u \in sent[s] : u.id = <<w, e, Batches - 1>>
    BY <1>2 DEF LastPushes
  <2>2. sent[s] \subseteq sent'[s]
    BY <1>1 DEF Grows
  <2>3. QED
    BY <2>1, <2>2
<1>3. CASE UNCHANGED epoch
  BY <1>2, <1>3 DEF LastPushes
<1>4. ASSUME NEW w \in Workers, Frame(w), Rests(w) \/ PushAt(w) \/ Answered(w) \/ Fail(w),
             NEW v \in Workers, NEW s \in Shards, NEW e \in 0 .. epoch'[v] - 1,
             e \notin 0 .. epoch[v] - 1
      PROVE  \E u \in sent'[s] : u.id = <<v, e, Batches - 1>>
  <2>1. /\ epoch[w] \in Nat /\ at[w] \in Shards /\ batch[w] \in 0 .. Batches - 1
        /\ epoch \in [Workers -> 0 .. Epochs] /\ at \in [Workers -> Shards]
        /\ batch \in [Workers -> 0 .. Batches - 1]
    BY <1>1, ClientHas, Numbers DEF ClientInv, ClientTypes
  <2>2. v = w
    BY <1>4 DEF Frame
  <2>3. Answered(w)
    <3>1. Rests(w) \/ PushAt(w) \/ Fail(w) => epoch'[w] = epoch[w]
      BY DEF Rests, PushAt, Fail
    <3>2. QED
      BY <1>4, <2>2, <3>1
  <2>4. at[w] + 1 \notin Shards /\ LastBatch(w) /\ epoch'[w] = epoch[w] + 1
    BY <1>4, <2>1, <2>2, <2>3 DEF Answered
  <2>5. e = epoch[w] /\ s <= at[w] /\ s \in Nat /\ at[w] \in Nat /\ batch[w] = Batches - 1
    <3>1. e = epoch[w]
      BY <1>4, <2>1, <2>2, <2>4
    <3>2. s <= at[w] /\ s \in Nat /\ at[w] \in Nat
      BY <2>1, <2>4, Numbers
    <3>3. batch[w] = Batches - 1
      BY <2>1, <2>4, Numbers DEF LastBatch
    <3>4. QED
      BY <3>1, <3>2, <3>3
  <2>6. pc[w] = "waiting" /\ UnderWay(w)
    BY <1>1, <2>3 DEF Answered, PushesOK
  <2>7. \E u \in sent[s] : u.id = Name(w)
    <3>1. CASE s = at[w]
      BY <2>6, <3>1 DEF UnderWay
    <3>2. CASE s # at[w]
      <4>1. s < at[w]
        BY <2>5, <3>2
      <4>2. QED
        BY <2>6, <4>1 DEF UnderWay, Acked
    <3>3. QED
      BY <3>1, <3>2
  <2>8. Name(w) = <<v, e, Batches - 1>>
    BY <2>2, <2>5 DEF Name
  <2>9. QED
    BY <1>1, <2>7, <2>8 DEF Grows
<1>5. ASSUME NEW w \in Workers, Frame(w), Rests(w) \/ PushAt(w) \/ Answered(w) \/ Fail(w)
      PROVE  LastPushes'
  <2>1. ASSUME NEW v \in Workers, NEW s \in Shards, NEW e \in 0 .. epoch'[v] - 1
        PROVE  \E u \in sent'[s] : u.id = <<v, e, Batches - 1>>
    BY <1>2, <1>4, <1>5, <2>1
  <2>2. QED
    BY <2>1 DEF LastPushes
<1>6. QED
  BY <1>1, <1>3, <1>5, JobCases DEF clientVars

(* When all workers are done nothing waits, and all that was pushed with an *)
(* entry is in the values.                                                 *)
Complete ==
  \A s \in Shards :
    /\ Workers \X (0 .. Epochs - 1) \X {Batches - 1} \subseteq {u.id : u \in sent[s]}
    /\ Present(s) = {u.id : u \in {u \in sent[s] : u.sizes # Heartbeat}}
    /\ Threads(s) = {}

LEMMA DoneIsComplete ==
  ASSUME JobInv, LastPushes, \A w \in Workers : pc[w] = "done"
  PROVE  Complete
<1> SUFFICES ASSUME NEW s \in Shards
             PROVE  /\ Workers \X (0 .. Epochs - 1) \X {Batches - 1} \subseteq {u.id : u \in sent[s]}
                    /\ Present(s) = {u.id : u \in {u \in sent[s] : u.sizes # Heartbeat}}
                    /\ Threads(s) = {}
  BY DEF Complete
<1>1. TypeInv /\ SentOK /\ CallsOK /\ Barrier(s) /\ BarrierInv
  BY BarriersHold DEF JobInv
<1>2. ASSUME NEW i \in Workers \X (0 .. Epochs - 1) \X {Batches - 1}
      PROVE  i \in {u.id : u \in sent[s]}
  <2>1. PICK w \in Workers, e \in 0 .. Epochs - 1 : i = <<w, e, Batches - 1>>
    OBVIOUS
  <2>2. epoch[w] = Epochs
    BY ClientHas DEF Stands, JobInv
  <2>3. PICK u \in sent[s] : u.id = <<w, e, Batches - 1>>
    BY <2>2 DEF LastPushes
  <2>4. QED
    BY <2>1, <2>3
<1>3. ASSUME NEW u \in sent[s]
      PROVE  u \in Update /\ outcome[s][u.id] \in {"applied", "switched"}
  <2>1. u \in Update /\ u.worker \in Workers
    BY <1>1 DEF SentOK, Update
  <2>2. Own(u.worker, s, u) /\ pc[u.worker] = "done"
    BY <2>1 DEF JobInv, PushesOK
  <2>3. Acked(s, u.id, u.clock)
    BY <2>2 DEF Own
  <2>4. QED
    BY <2>1, <2>3 DEF Acked
<1>4. Threads(s) = {}
  <2>1. \A u \in Threads(s) : u \in sent[s] /\ outcome[s][u.id] = "none"
    BY <1>1 DEF CallsOK
  <2>2. QED
    BY <1>3, <2>1
<1>5. ASSUME NEW u \in sent[s] PROVE u.id \in Present(s) <=> u.sizes # Heartbeat
  <2>1. u \notin pending[s] /\ u.id \in Pushes /\ u.sizes \in [Keys -> {0, 1}]
    BY <1>1, <1>3, AckedLeft, ScalarPayloads DEF Update
  <2>2. \A k \in Keys : u.sizes[k] # 0 => applied[s][u.id][k] = 1
    BY <1>1, <2>1 DEF Barrier, Kept
  <2>3. ASSUME u.sizes # Heartbeat PROVE u.id \in Present(s)
    <3>1. PICK k \in Keys : u.sizes[k] # 0
      BY <2>1, <2>3 DEF Heartbeat
    <3>2. QED
      BY <2>1, <2>2, <3>1 DEF Present
  <2>4. ASSUME u.sizes = Heartbeat PROVE u.id \notin Present(s)
    <3>1. \A k \in Keys : u.sizes[k] = 0
      BY <2>4 DEF Heartbeat
    <3>2. ASSUME NEW k \in Keys, applied[s][u.id][k] # 0 PROVE FALSE
      <4>1. PICK v \in sent[s] : v.id = u.id /\ v.sizes[k] # 0
        BY <1>1, <2>1, <3>2 DEF TypeInv, OnceInv, AppliedWasSent
      <4>2. v = u
        BY <1>1, <4>1 DEF SentOK, DistinctNames
      <4>3. QED
        BY <3>1, <4>1, <4>2
    <3>3. QED
      BY <2>1, <3>2 DEF Present
  <2>5. QED
    BY <2>3, <2>4
<1>6. \A i \in Present(s) : \E u \in sent[s] : u.id = i
  BY <1>1 DEF Present, TypeInv, OnceInv, AppliedWasSent
<1>7. Present(s) = {u.id : u \in {u \in sent[s] : u.sizes # Heartbeat}}
  <2>1. Present(s) \subseteq {u.id : u \in {u \in sent[s] : u.sizes # Heartbeat}}
    BY <1>5, <1>6
  <2>2. {u.id : u \in {u \in sent[s] : u.sizes # Heartbeat}} \subseteq Present(s)
    BY <1>5
  <2>3. QED
    BY <2>1, <2>2
<1>8. QED
  BY <1>2, <1>4, <1>7

(* What the parent knows.  "done" is the end of a worker that nothing      *)
(* revokes, so that a collected result stands for a worker that has pushed *)
(* everything, and the values evaluated stay what they are.                *)
AllDone == \A w \in Workers : pc[w] = "done"

ParentTypes ==
  /\ parent \in {"starting", "spawning", "collecting", "joining", "evaluating",
                 "closing", "returned", "raised"}
  /\ verdict \in {"returned", "raised"}
  /\ server \in [Shards -> {"absent", "starting", "serving", "gone"}]
  /\ process \in [Workers -> {"absent", "running", "exiting", "exited", "killed"}]
  /\ queue \subseteq Record
  /\ collected \subseteq Workers /\ joined \subseteq Workers
  /\ evaluated \in [Shards -> SUBSET Pushes]

ParentInv ==
  /\ \A r \in queue : r.ok => pc[r.worker] = "done"
  /\ \A w \in collected : pc[w] = "done"
  /\ parent \in {"joining", "evaluating"} => collected = Workers
  /\ parent = "returned" => verdict = "returned"
  /\ verdict = "returned" => AllDone /\ evaluated = [s \in Shards |-> Present(s)]

ExperimentInv == JobInv /\ LastPushes /\ ParentTypes /\ ParentInv

(* The parent and the processes change nothing of the job; a worker fails  *)
(* only before its loop has ended.                                         *)
LEMMA ExperimentCases ==
  ASSUME [ExperimentNext]_allVars
  PROVE  \/ UNCHANGED vars
         \/ \E w \in Workers : /\ UNCHANGED experimentVars
                               /\ ClientStep(w) \/ Resend(w) \/ Crash(w)
         \/ \E w \in Workers : pc[w] \notin Ended /\ Fail(w)
         \/ \E s \in Shards : ShardStep(s) /\ UNCHANGED <<clientVars, experimentVars>>
<1>1. CASE ParentStep
  BY <1>1 DEF ParentStep, StartShard, GiveUpStarting, Terminate, Spawn, Join, JoinExpires,
              Take, ClusterUp, CollectExpires, Evaluate, Closed
<1>2. ASSUME NEW w \in Workers, WorkerStep(w) \/ Stumble(w) \/ Kill(w)
      PROVE  \/ UNCHANGED vars
             \/ /\ UNCHANGED experimentVars
                /\ ClientStep(w) \/ Resend(w) \/ Crash(w)
             \/ pc[w] \notin Ended /\ Fail(w)
  <2>1. CASE Work(w) \/ Stumble(w)
    BY <2>1 DEF Work, Stumble, Runs
  <2>2. CASE ConnectionFails(w)
    BY <2>2 DEF ConnectionFails, Talks, Ended
  <2>3. CASE Kill(w)
    BY <2>3 DEF Kill
  <2>4. CASE Put(w) \/ Exit(w)
    BY <2>4 DEF Put, Exit
  <2>5. QED
    BY <1>2, <2>1, <2>2, <2>3, <2>4 DEF WorkerStep
<1>3. ASSUME NEW s \in Shards, ServerStep(s) \/ FailToBind(s)
      PROVE  UNCHANGED vars \/ (ShardStep(s) /\ UNCHANGED <<clientVars, experimentVars>>)
  BY <1>3 DEF ServerStep, BecomeReady, Serve, FailToBind
<1>4. CASE UNCHANGED allVars
  BY <1>4 DEF allVars
<1>5. QED
  BY <1>1, <1>2, <1>3, <1>4 DEF ExperimentNext

LEMMA ExperimentIsJob ==
  ASSUME [ExperimentNext]_allVars PROVE [JobStep]_vars
<1>1. ASSUME NEW w \in Workers, ClientStep(w) \/ Resend(w) \/ Crash(w) PROVE JobStep
  BY <1>1 DEF JobStep, TrainingNext
<1>2. ASSUME NEW w \in Workers, Fail(w) PROVE JobStep
  BY <1>2 DEF JobStep
<1>3. ASSUME NEW s \in Shards, ShardStep(s), UNCHANGED clientVars PROVE JobStep
  BY <1>3 DEF JobStep, TrainingNext
<1>4. QED
  BY <1>1, <1>2, <1>3, ExperimentCases

LEMMA DoneStays ==
  ASSUME JobInv, [ExperimentNext]_allVars, NEW w \in Workers, pc[w] = "done"
  PROVE  pc'[w] = "done"
<1>1. ASSUME NEW v \in Workers, ClientStep(v) \/ Resend(v) \/ Crash(v) PROVE pc'[w] = "done"
  <2>1. Frame(v)
    <3>1. ClientStep(v) \/ Resend(v) \/ Fail(v)
      BY <1>1 DEF Crash
    <3>2. ClientInv /\ AtFirst(v)
      BY DEF JobInv
    <3>3. QED
      BY <3>1, <3>2, ClientFrame
  <2>2. CASE v # w
    BY <2>1, <2>2 DEF Frame
  <2>3. CASE v = w
    BY <1>1, <2>3 DEF ClientStep, Resend, Crash, RegisterAt, Gather, BeginEpoch, DeclareMode,
                      AssignTopics, PullAt, PushAt, Answered, Refused, Visit, Ended
  <2>4. QED
    BY <2>2, <2>3
<1>2. ASSUME NEW v \in Workers, pc[v] \notin Ended, Fail(v) PROVE pc'[w] = "done"
  BY <1>2 DEF Fail, Ended, JobInv, ClientInv, ClientTypes
<1>3. CASE UNCHANGED clientVars
  BY <1>3 DEF clientVars
<1>4. QED
  BY <1>1, <1>2, <1>3, ExperimentCases DEF vars

(* Once all are done nothing of the job changes any more. *)
LEMMA AllDoneStays ==
  ASSUME JobInv, LastPushes, AllDone, [ExperimentNext]_allVars
  PROVE  UNCHANGED vars
<1>1. \A s \in Shards : ~ShardStep(s)
  BY DoneIsComplete DEF AllDone, Complete, Threads, ShardStep
<1>2. ASSUME NEW w \in Workers PROVE ~ClientStep(w) /\ ~Resend(w) /\ ~Crash(w)
  <2>1. pc[w] = "done"
    BY DEF AllDone
  <2>2. QED
    BY <2>1 DEF ClientStep, Resend, Crash, RegisterAt, Gather, BeginEpoch, DeclareMode,
                AssignTopics, PullAt, PushAt, Answered, Refused, Visit, Ended
<1>3. \A w \in Workers : pc[w] \in Ended
  BY DEF AllDone, Ended
<1>4. QED
  BY <1>1, <1>2, <1>3, ExperimentCases

LEMMA ParentTypesStep ==
  ASSUME ParentTypes, [ExperimentNext]_allVars PROVE ParentTypes'
<1>1. /\ verdict \in {"returned", "raised"}
      /\ server \in [Shards -> {"absent", "starting", "serving", "gone"}]
      /\ process \in [Workers -> {"absent", "running", "exiting", "exited", "killed"}]
      /\ queue \subseteq Record
      /\ collected \subseteq Workers /\ joined \subseteq Workers
      /\ evaluated \in [Shards -> SUBSET Pushes]
  BY DEF ParentTypes
<1>2. ASSUME NEW s \in Shards, StartShard(s) \/ GiveUpStarting(s) \/ Terminate(s)
      PROVE  ParentTypes'
  <2>1. CASE StartShard(s) \/ Terminate(s)
    BY <2>1 DEF StartShard, Terminate, ParentTypes, parentVars
  <2>2. CASE GiveUpStarting(s)
    BY <2>2 DEF GiveUpStarting, LeaveAs, ParentTypes, processVars
  <2>3. QED
    BY <1>2, <2>1, <2>2
<1>3. ASSUME NEW w \in Workers, Spawn(w) \/ Join(w) \/ JoinExpires(w) PROVE ParentTypes'
  <2>1. CASE Spawn(w)
    BY <2>1 DEF Spawn, ParentTypes
  <2>2. CASE Join(w)
    BY <2>2 DEF Join, LeaveAs, ParentTypes, processVars
  <2>3. CASE JoinExpires(w)
    BY <2>3 DEF JoinExpires, LeaveAs, ParentTypes
  <2>4. QED
    BY <1>3, <2>1, <2>2, <2>3
<1>4. ASSUME NEW r \in queue, Take(r) PROVE ParentTypes'
  <2>1. r.worker \in Workers
    BY <1>1 DEF Record
  <2>2. QED
    BY <1>4, <2>1 DEF Take, LeaveAs, ParentTypes
<1>5. CASE ClusterUp \/ CollectExpires \/ Closed
  BY <1>5 DEF ClusterUp, CollectExpires, Closed, LeaveAs, ParentTypes, processVars
<1>6. CASE Evaluate
  <2>1. \A s \in Shards : Present(s) \in SUBSET Pushes
    BY DEF Present
  <2>2. evaluated' \in [Shards -> SUBSET Pushes]
    BY <1>6, <2>1 DEF Evaluate
  <2>3. QED
    BY <1>6, <2>2 DEF Evaluate, LeaveAs, ParentTypes, processVars
<1>7. ASSUME NEW w \in Workers, WorkerStep(w) \/ Stumble(w) \/ Kill(w) PROVE ParentTypes'
  <2>1. CASE Work(w) \/ Stumble(w) \/ ConnectionFails(w)
    BY <2>1 DEF Work, Stumble, Runs, ConnectionFails, ParentTypes, experimentVars, parentVars,
                processVars
  <2>2. CASE Put(w)
    <3>1. [worker |-> w, ok |-> pc[w] = "done"] \in Record
      BY DEF Record
    <3>2. queue' \subseteq Record
      BY <1>1, <2>2, <3>1 DEF Put
    <3>3. QED
      BY <2>2, <3>2 DEF Put, ParentTypes, parentVars
  <2>3. CASE Exit(w) \/ Kill(w)
    BY <2>3 DEF Exit, Kill, ParentTypes, parentVars
  <2>4. QED
    BY <1>7, <2>1, <2>2, <2>3 DEF WorkerStep
<1>8. ASSUME NEW s \in Shards, ServerStep(s) \/ FailToBind(s) PROVE ParentTypes'
  <2>1. CASE BecomeReady(s) \/ FailToBind(s)
    BY <2>1 DEF BecomeReady, FailToBind, ParentTypes, parentVars
  <2>2. CASE Serve(s)
    BY <2>2 DEF Serve, ParentTypes, experimentVars, parentVars, processVars
  <2>3. QED
    BY <1>8, <2>1, <2>2 DEF ServerStep
<1>9. CASE UNCHANGED allVars
  BY <1>9 DEF allVars, ParentTypes, experimentVars, parentVars, processVars
<1>10. QED
  BY <1>2, <1>3, <1>4, <1>5, <1>6, <1>7, <1>8, <1>9 DEF ExperimentNext, ParentStep

(* What is in the queue and what the parent has collected stays true. *)
LEMMA ParentStays ==
  ASSUME JobInv, LastPushes, ParentInv, ParentTypes, [ExperimentNext]_allVars
  PROVE  /\ \A r \in queue : r.ok => pc'[r.worker] = "done"
         /\ \A w \in collected : pc'[w] = "done"
         /\ verdict = "returned" =>
              AllDone' /\ evaluated = [s \in Shards |-> Present(s)']
<1>1. \A w \in Workers : pc[w] = "done" => pc'[w] = "done"
  BY DoneStays
<1>2. \A r \in queue : r.worker \in Workers
  BY DEF ParentTypes, Record
<1>3. \A w \in collected : w \in Workers
  BY DEF ParentTypes
<1>4. ASSUME verdict = "returned"
      PROVE  AllDone' /\ evaluated = [s \in Shards |-> Present(s)']
  <2>1. AllDone /\ evaluated = [s \in Shards |-> Present(s)]
    BY <1>4 DEF ParentInv
  <2>2. UNCHANGED vars
    BY <2>1, AllDoneStays
  <2>3. applied' = applied
    BY <2>2 DEF vars, shardVars, valueVars
  <2>4. QED
    BY <1>1, <2>1, <2>3 DEF AllDone, Present
<1>5. QED
  BY <1>1, <1>2, <1>3, <1>4 DEF ParentInv

LEMMA ParentInvStep ==
  ASSUME JobInv, LastPushes, ParentInv, ParentTypes, [ExperimentNext]_allVars
  PROVE  ParentInv'
<1>1. /\ \A r \in queue : r.ok => pc'[r.worker] = "done"
      /\ \A w \in collected : pc'[w] = "done"
      /\ verdict = "returned" =>
           AllDone' /\ evaluated = [s \in Shards |-> Present(s)']
  BY ParentStays
<1>2. /\ parent \in {"joining", "evaluating"} => collected = Workers
      /\ parent = "returned" => verdict = "returned"
  BY DEF ParentInv
<1>3. ASSUME UNCHANGED <<parent, verdict, queue, collected, evaluated>> PROVE ParentInv'
  BY <1>1, <1>2, <1>3 DEF ParentInv
<1>4. ASSUME UNCHANGED <<queue, collected, evaluated>>,
             \/ parent' = "closing" /\ verdict' = "raised"
             \/ parent' \in {"starting", "spawning", "collecting"} /\ UNCHANGED verdict
             \/ parent' = "evaluating" /\ parent = "joining" /\ UNCHANGED verdict
             \/ parent' = verdict /\ UNCHANGED verdict
             \/ UNCHANGED <<parent, verdict>>
      PROVE  ParentInv'
  <2>1. verdict \in {"returned", "raised"}
    BY DEF ParentTypes
  <2>2. QED
    BY <1>1, <1>2, <1>4, <2>1 DEF ParentInv
<1>5. ASSUME NEW s \in Shards, StartShard(s) \/ GiveUpStarting(s) \/ Terminate(s)
      PROVE  ParentInv'
  BY <1>4, <1>5 DEF StartShard, GiveUpStarting, Terminate, LeaveAs, parentVars, processVars
<1>6. ASSUME NEW w \in Workers, Spawn(w) \/ Join(w) \/ JoinExpires(w) PROVE ParentInv'
  BY <1>4, <1>6 DEF Spawn, Join, JoinExpires, LeaveAs, processVars
<1>7. ASSUME NEW r \in queue, Take(r) PROVE ParentInv'
  <2>1. queue' \subseteq queue /\ UNCHANGED <<evaluated, vars>>
    BY <1>7 DEF Take
  <2>2. CASE r.ok
    <3>1. /\ collected' = collected \cup {r.worker}
          /\ \/ parent' = "joining" /\ collected' = Workers
             \/ parent' = parent /\ parent = "collecting"
          /\ UNCHANGED verdict
      BY <1>7, <2>2 DEF Take
    <3>2. pc'[r.worker] = "done"
      BY <1>1, <2>2
    <3>3. \A w \in collected' : pc'[w] = "done"
      BY <1>1, <3>1, <3>2
    <3>4. QED
      BY <1>1, <1>2, <2>1, <3>1, <3>3 DEF ParentInv
  <2>3. CASE ~r.ok
    <3>1. parent' = "closing" /\ verdict' = "raised" /\ UNCHANGED collected
      BY <1>7, <2>3 DEF Take, LeaveAs
    <3>2. QED
      BY <1>1, <2>1, <3>1 DEF ParentInv
  <2>4. QED
    BY <2>2, <2>3
<1>8. CASE ClusterUp \/ CollectExpires \/ Closed
  BY <1>4, <1>8 DEF ClusterUp, CollectExpires, Closed, LeaveAs, processVars
<1>9. CASE Evaluate
  <2>1. /\ parent = "evaluating" /\ parent' = "closing" /\ verdict' = "returned"
        /\ evaluated' = [s \in Shards |-> Present(s)]
        /\ UNCHANGED <<collected, queue, vars>>
    BY <1>9 DEF Evaluate, LeaveAs, processVars
  <2>2. AllDone'
    BY <1>1, <1>2, <2>1 DEF AllDone
  <2>3. applied' = applied
    BY <2>1 DEF vars, shardVars, valueVars
  <2>4. evaluated' = [s \in Shards |-> Present(s)']
    BY <2>1, <2>3 DEF Present
  <2>5. QED
    BY <1>1, <2>1, <2>2, <2>4 DEF ParentInv
<1>10. ASSUME NEW w \in Workers, WorkerStep(w) \/ Stumble(w) \/ Kill(w) PROVE ParentInv'
  <2>1. CASE Put(w)
    <3>1. /\ queue' = queue \cup {[worker |-> w, ok |-> pc[w] = "done"]}
          /\ UNCHANGED <<parent, verdict, collected, evaluated, pc>>
      BY <2>1 DEF Put, parentVars, vars, clientVars
    <3>2. ASSUME NEW r \in queue', r.ok PROVE pc'[r.worker] = "done"
      <4>1. CASE r \in queue
        BY <1>1, <3>2, <4>1
      <4>2. CASE r = [worker |-> w, ok |-> pc[w] = "done"]
        <5>1. r.worker = w /\ r.ok = (pc[w] = "done")
          BY <4>2
        <5>2. QED
          BY <3>1, <3>2, <5>1
      <4>3. QED
        BY <3>1, <4>1, <4>2
    <3>3. QED
      BY <1>1, <1>2, <3>1, <3>2 DEF ParentInv
  <2>2. CASE Work(w) \/ Stumble(w) \/ ConnectionFails(w) \/ Exit(w) \/ Kill(w)
    BY <1>3, <2>2 DEF Work, Stumble, Runs, ConnectionFails, Exit, Kill, experimentVars,
                      parentVars, processVars
  <2>3. QED
    BY <1>10, <2>1, <2>2 DEF WorkerStep
<1>11. ASSUME NEW s \in Shards, ServerStep(s) \/ FailToBind(s) PROVE ParentInv'
  BY <1>3, <1>11 DEF ServerStep, BecomeReady, Serve, FailToBind, experimentVars, parentVars,
                     processVars
<1>12. CASE UNCHANGED allVars
  BY <1>3, <1>12 DEF allVars, experimentVars, parentVars, processVars
<1>13. QED
  BY <1>5, <1>6, <1>7, <1>8, <1>9, <1>10, <1>11, <1>12 DEF ExperimentNext, ParentStep

LEMMA TrainingTypes == JobInv => TrainingTypeOK
<1> SUFFICES ASSUME JobInv PROVE TrainingTypeOK
  OBVIOUS
<1>1. ShardTypeOK
  BY BarrierTypes DEF JobInv
<1>2. ClientTypes
  BY DEF JobInv, ClientInv
<1>3. Places = {"registering", "gathering", "looping", "switching",
                "pulling", "pushing", "waiting"} \cup Ended
  BY DEF Places, InEpoch
<1>4. QED
  BY <1>1, <1>2, <1>3 DEF TrainingTypeOK, ClientTypes

(* A complete job: the values evaluated are those of the whole training. *)
LEMMA WholeTraining ==
  ExperimentInv => (parent = "returned" => EvaluatedEverything)
<1> SUFFICES ASSUME ExperimentInv, parent = "returned" PROVE EvaluatedEverything
  OBVIOUS
<1>1. AllDone /\ evaluated = [s \in Shards |-> Present(s)]
  BY DEF ExperimentInv, ParentInv
<1>2. Complete
  BY <1>1, DoneIsComplete DEF ExperimentInv, AllDone
<1>3. \A s \in Shards : evaluated[s] = Present(s)
  BY <1>1
<1>4. QED
  BY <1>2, <1>3 DEF Complete, EvaluatedEverything

LEMMA ExperimentStart == ExperimentInit => ExperimentInv
<1> SUFFICES ASSUME ExperimentInit PROVE ExperimentInv
  OBVIOUS
<1>1. TrainingInit
  BY DEF ExperimentInit
<1>2. JobInv
  BY <1>1, JobStart
<1>3. LastPushes
  <2>1. \A w \in Workers : epoch[w] = 0
    BY <1>1 DEF TrainingInit
  <2>2. QED
    BY <2>1 DEF LastPushes
<1>4. ParentTypes
  BY DEF ExperimentInit, ParentTypes
<1>5. ParentInv
  BY DEF ExperimentInit, ParentInv
<1>6. QED
  BY <1>2, <1>3, <1>4, <1>5 DEF ExperimentInv

LEMMA ExperimentStep == ExperimentInv /\ [ExperimentNext]_allVars => ExperimentInv'
<1> SUFFICES ASSUME ExperimentInv, [ExperimentNext]_allVars PROVE ExperimentInv'
  OBVIOUS
<1>1. [JobStep]_vars
  BY ExperimentIsJob
<1>2. JobInv'
  BY <1>1, JobNext DEF ExperimentInv
<1>3. LastPushes'
  BY <1>1, LastPushesStep DEF ExperimentInv
<1>4. ParentTypes' /\ ParentInv'
  BY ParentTypesStep, ParentInvStep DEF ExperimentInv
<1>5. QED
  BY <1>2, <1>3, <1>4 DEF ExperimentInv

LEMMA ExperimentInvariant == ExperimentSpec => []ExperimentInv
BY ExperimentStart, ExperimentStep, PTL DEF ExperimentSpec

LEMMA ExperimentTypes == ExperimentInv => ExperimentTypeOK
BY TrainingTypes DEF ExperimentInv, ParentTypes, ExperimentTypeOK

(* The variables of the experiment keep their types, and with them those   *)
(* of its clients and of the shards: records come from workers, parameter  *)
(* values from pushes, whoever fails, is killed or is given up on.         *)
THEOREM ExperimentTypesHold == ExperimentSpec => []ExperimentTypeOK
BY ExperimentTypes, ExperimentInvariant, PTL

(* A worker pushes to the shards one after the other, and fails wherever it *)
(* is: still no shard is ahead of an earlier one, and none is behind by    *)
(* more than one push of a worker.                                         *)
THEOREM StepsShardByShard == ExperimentSpec => []ShardsInStep
BY InStep, ExperimentInvariant, PTL DEF ExperimentInv

LEMMA SyncInvariant ==
  NeverToSync => (ExperimentSpec => []ExperimentInv /\ []SyncInv)
<1> SUFFICES ASSUME NeverToSync PROVE ExperimentSpec => []ExperimentInv /\ []SyncInv
  OBVIOUS
<1>1. ExperimentInit => SyncInv
  BY SyncStart DEF ExperimentInit
<1>2. ExperimentInv /\ SyncInv /\ [ExperimentNext]_allVars => SyncInv'
  BY ExperimentIsJob, SyncNext DEF ExperimentInv
<1>3. QED
  BY <1>1, <1>2, ExperimentInvariant, PTL DEF ExperimentSpec

(* Bulk synchrony, in every job that does not switch from async to sync: a *)
(* worker in a synchronous epoch has seen, at every shard, what everybody  *)
(* pushed in the epochs before and nothing of its own epoch or a later one, *)
(* although no two shards take part in one barrier.                        *)
THEOREM SyncEpochsAreBulk ==
  NeverToSync => (ExperimentSpec => []BulkSynchronous)
<1> SUFFICES ASSUME NeverToSync PROVE ExperimentSpec => []BulkSynchronous
  OBVIOUS
<1>1. ExperimentInv /\ SyncInv => BulkSynchronous
  BY SyncMakesBulk DEF ExperimentInv
<1>2. QED
  BY <1>1, SyncInvariant, PTL

(* In such a job nobody waits in a barrier for a contribution of a worker  *)
(* that has already gone past that epoch, not even of one that has failed: *)
(* who has passed an epoch has left no push of it to wait for.             *)
THEOREM NobodyWaitsInVain ==
  NeverToSync => (ExperimentSpec => []NobodyWaitsForThePast)
<1> SUFFICES ASSUME NeverToSync PROVE ExperimentSpec => []NobodyWaitsForThePast
  OBVIOUS
<1>1. ExperimentInv /\ SyncInv => NobodyWaitsForThePast
  BY NoPastClock DEF ExperimentInv
<1>2. QED
  BY <1>1, SyncInvariant, PTL

(* The call returns results of complete trainings only: every worker has   *)
(* pushed every epoch to every shard, and the values evaluated hold all    *)
(* that was pushed.  This is the safety half of ExperimentSettles.         *)
THEOREM ReturnsTheWhole ==
  ExperimentSpec => [](parent = "returned" => EvaluatedEverything)
BY WholeTraining, ExperimentInvariant, PTL
=============================================================================
