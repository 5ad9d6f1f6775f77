--------------------------- MODULE ShardedTraining ---------------------------
(***************************************************************************)
(* A sparse training job: the shards, and workers which visit them one     *)
(* after the other (ParameterServerClient of runtime/client.py), driven by *)
(* the epoch loop of run_sparse_lr_worker (sparse_lr.py) or the sweep loop *)
(* of run_lda_worker (lda.py), whose documents are its mini-batches.       *)
(*                                                                         *)
(* A worker registers at every shard and meets the others at the           *)
(* registration barrier.  In every epoch it pulls for each mini-batch, and *)
(* pushes: after each in async mode, once after the last in sync mode, with *)
(* the epoch for its clock.  The first sweep of LDA pulls nothing.  At the *)
(* start of epoch SwitchAt it declares the other mode.  A request and its  *)
(* handling are one step, since a client waits for the answer; what a lost *)
(* answer does (all but pushes are sent again) is Resend.                  *)
(***************************************************************************)
EXTENDS SparseServer, Sequences

CONSTANTS
  Algorithms,  \* the experiments: "lr", "lda"
  Epochs,      \* config.epochs, config.sweeps
  Batches,     \* mini-batches of a worker's rows, its documents
  SwitchAt,    \* config.switch_at, -1 for never
  Touches,     \* the shards that hold a key of each worker's rows
  MayCrash,    \* workers that may raise, for instance when a socket times out
  MayResend    \* whether an answer can be lost

ASSUME ShardNumbers ==
  IsFiniteSet(Shards) /\ Shards = 1 .. Cardinality(Shards) /\ Shards # {}
ASSUME AlgorithmAssumption == Algorithms \subseteq {"lr", "lda"}
ASSUME LoopAssumption == Epochs \in Nat /\ Batches \in Nat \ {0} /\ SwitchAt \in Int
ASSUME TouchesAssumption == Touches \in [Workers -> SUBSET Shards]
ASSUME PushNames == Pushes = Workers \X (0 .. Epochs - 1) \X (0 .. Batches - 1)
ASSUME ClockRange == 0 .. Epochs * Batches - 1 \subseteq Clocks
(* Both experiments push scalars, and some pushes are empty. *)
ASSUME ScalarPayloads == Payloads \subseteq [Keys -> {0, 1}] /\ [k \in Keys |-> 0] \in Payloads
ASSUME FaultAssumption == MayCrash \subseteq Workers /\ MayResend \in BOOLEAN

VARIABLES
  algorithm, \* the experiment, the same from beginning to end
  pc,        \* what the worker is doing
  at,        \* the shard its current client operation has come to
  epoch,     \* epoch
  batch,     \* mini-batch within the epoch
  current,   \* current_mode
  snapshot   \* history: per shard, the pushes in the values last pulled in sync mode

clientVars == <<algorithm, pc, at, epoch, batch, current, snapshot>>
vars == <<shardVars, clientVars>>

Ended == {"done", "failed"}

Other(m) == IF m = "sync" THEN "async" ELSE "sync"

Name(w) == <<w, epoch[w], batch[w]>>

(* Present at shard s: pushes whose entries are in the values there. *)
Present(s) == {i \in Pushes : \E k \in Keys : applied[s][i][k] # 0}

-----------------------------------------------------------------------------
(* A client operation over all shards: one step per shard, then go on.     *)

(* Faulty variant: the next operation starts where this one ended. *)
VisitOnce(w, here, next) ==
  /\ pc[w] = here
  /\ IF at[w] + 1 \in Shards
     THEN at' = [at EXCEPT ![w] = @ + 1] /\ UNCHANGED pc
     ELSE UNCHANGED at /\ pc' = [pc EXCEPT ![w] = next]

Visit(w, here, next) ==
  /\ pc[w] = here
  /\ IF at[w] + 1 \in Shards
     THEN at' = [at EXCEPT ![w] = @ + 1] /\ UNCHANGED pc
     ELSE at' = [at EXCEPT ![w] = 1] /\ pc' = [pc EXCEPT ![w] = next]

(* client.register *)
RegisterAt(w) ==
  /\ Visit(w, "registering", "gathering")
  /\ Register(at[w], w)
  /\ UNCHANGED <<algorithm, epoch, batch, current, snapshot>>

(* Faulty variant: a worker starts without waiting for the others. *)
GatherNobody(w) ==
  /\ pc[w] = "gathering"
  /\ pc' = [pc EXCEPT ![w] = "looping"]
  /\ UNCHANGED <<algorithm, at, epoch, batch, current, snapshot, shardVars>>

(* registration_barrier.wait: everybody has registered everywhere.  A dead *)
(* worker counts if it had arrived, and breaks the barrier if it had not.  *)
Gather(w) ==
  /\ pc[w] = "gathering"
  /\ \A v \in Workers : pc[v] # "registering" /\ \A s \in Shards : v \in workers[s]
  /\ pc' = [pc EXCEPT ![w] = "looping"]
  /\ UNCHANGED <<algorithm, at, epoch, batch, current, snapshot, shardVars>>

(* Top of the epoch loop. *)
BeginEpoch(w) ==
  /\ pc[w] = "looping"
  /\ IF epoch[w] = Epochs
     THEN pc' = [pc EXCEPT ![w] = "done"] /\ UNCHANGED current
     ELSE IF epoch[w] = SwitchAt
     THEN /\ pc' = [pc EXCEPT ![w] = "switching"]
          /\ current' = [current EXCEPT ![w] = Other(InitialMode)]
     ELSE pc' = [pc EXCEPT ![w] = "pulling"] /\ UNCHANGED current
  /\ UNCHANGED <<algorithm, at, epoch, batch, snapshot, shardVars>>

(* client.set_mode(current_mode): declared for this worker, at each shard. *)
DeclareMode(w) ==
  /\ Visit(w, "switching", "pulling")
  /\ SetMode(at[w], current[w], {w})
  /\ UNCHANGED <<algorithm, epoch, batch, current, snapshot>>

(* Faulty variant: one mini-batch too many. *)
LastBatchPast(w) == batch[w] = Batches

LastBatch(w) == batch[w] + 1 = Batches

(* The gradients or counts are pushed now, or go on being accumulated. *)
PushesNow(w) == current[w] = "async" \/ LastBatch(w)

(* LDA has no counts to sample from in its first sweep. *)
PullsNothing(w) == algorithm = "lda" /\ epoch[w] = 0

AssignTopics(w) ==
  /\ pc[w] = "pulling" /\ PullsNothing(w)
  /\ IF PushesNow(w)
     THEN pc' = [pc EXCEPT ![w] = "pushing"] /\ UNCHANGED batch
     ELSE batch' = [batch EXCEPT ![w] = @ + 1] /\ UNCHANGED pc
  /\ UNCHANGED <<algorithm, at, epoch, current, snapshot, shardVars>>

(* client.pull asks the shards that hold one of the keys. *)
PullAt(w) ==
  /\ ~PullsNothing(w)
  /\ IF PushesNow(w)
     THEN Visit(w, "pulling", "pushing") /\ UNCHANGED batch
     ELSE /\ Visit(w, "pulling", "pulling")
          /\ batch' = [batch EXCEPT ![w] = IF at[w] + 1 \in Shards THEN @ ELSE @ + 1]
  /\ snapshot' = [snapshot EXCEPT ![w][at[w]] =
                     IF at[w] \in Touches[w] /\ current[w] = "sync"
                     THEN Present(at[w]) ELSE {}]
  /\ UNCHANGED <<algorithm, epoch, current, shardVars>>

(* The clock of a sync push is the epoch; in async mode LR goes on from the *)
(* mini-batches of the epochs before, LDA counts its async pushes.         *)
ClockOf(w) ==
  IF current[w] = "sync" THEN epoch[w]
  ELSE LET since == IF algorithm = "lr" \/ InitialMode = "async" THEN 0 ELSE SwitchAt
       IN (epoch[w] - since) * Batches + batch[w]

Heartbeat == [k \in Keys |-> 0]

(* What client.push groups for a shard: an empty update where no key of the *)
(* worker's rows is routed to it.                                          *)
Grouped(w, s) == IF s \in Touches[w] THEN Payloads \ {Heartbeat} ELSE {Heartbeat}

(* The push to the shard the client has come to, heartbeats included.      *)
PushAt(w) ==
  /\ pc[w] = "pushing"
  /\ \E sizes \in Grouped(w, at[w]) :
       Push(at[w], [id |-> Name(w), worker |-> w, clock |-> ClockOf(w), sizes |-> sizes])
  /\ pc' = [pc EXCEPT ![w] = "waiting"]
  /\ UNCHANGED <<algorithm, at, epoch, batch, current, snapshot>>

(* The answer to the push: the next shard, the next batch or the next epoch. *)
Answered(w) ==
  /\ pc[w] = "waiting"
  /\ outcome[at[w]][Name(w)] \in {"applied", "switched"}
  /\ IF at[w] + 1 \in Shards
     THEN /\ at' = [at EXCEPT ![w] = @ + 1]
          /\ pc' = [pc EXCEPT ![w] = "pushing"]
          /\ UNCHANGED <<epoch, batch>>
     ELSE /\ at' = [at EXCEPT ![w] = 1]
          /\ IF LastBatch(w)
             THEN /\ pc' = [pc EXCEPT ![w] = "looping"]
                  /\ epoch' = [epoch EXCEPT ![w] = @ + 1]
                  /\ batch' = [batch EXCEPT ![w] = 0]
             ELSE /\ pc' = [pc EXCEPT ![w] = "pulling"]
                  /\ batch' = [batch EXCEPT ![w] = @ + 1]
                  /\ UNCHANGED epoch
  /\ UNCHANGED <<algorithm, current, snapshot, shardVars>>

Fail(w) ==
  /\ pc' = [pc EXCEPT ![w] = "failed"]
  /\ UNCHANGED <<algorithm, at, epoch, batch, current, snapshot, shardVars>>

(* An error answer, or a registration barrier that breaks, ends the worker. *)
Refused(w) ==
  /\ \/ pc[w] = "waiting" /\ outcome[at[w]][Name(w)] = "error"
     \/ pc[w] = "gathering" /\ \E v \in Workers : pc[v] = "failed"
  /\ Fail(w)

(* Anything else raises, as when its socket times out; a push that waits   *)
(* in a shard goes on waiting there.                                       *)
Crash(w) ==
  /\ w \in MayCrash
  /\ pc[w] \notin Ended
  /\ Fail(w)

(* The answer was lost after the shard did its work: all requests but      *)
(* pushes are sent once more.                                              *)
Resend(w) ==
  /\ MayResend
  /\ \/ pc[w] = "registering" /\ Register(at[w], w)
     \/ pc[w] = "switching" /\ SetMode(at[w], current[w], {w})
  /\ UNCHANGED clientVars

(* The shards' threads that wait in a push. *)
ShardStep(s) == \E u \in asleep[s] \cup awake[s] : Wake(s, u) \/ Expire(s, u)

-----------------------------------------------------------------------------

TrainingInit ==
  /\ ShardInit
  /\ algorithm \in Algorithms
  /\ pc = [w \in Workers |-> "registering"]
  /\ at = [w \in Workers |-> 1]
  /\ epoch = [w \in Workers |-> 0]
  /\ batch = [w \in Workers |-> 0]
  /\ current = [w \in Workers |-> InitialMode]
  /\ snapshot = [w \in Workers |-> [s \in Shards |-> {}]]

ClientStep(w) ==
  \/ RegisterAt(w) \/ Gather(w) \/ BeginEpoch(w) \/ DeclareMode(w)
  \/ AssignTopics(w) \/ PullAt(w) \/ PushAt(w) \/ Answered(w) \/ Refused(w)

TrainingNext ==
  \/ \E w \in Workers : ClientStep(w) \/ Resend(w) \/ Crash(w)
  \/ \E s \in Shards : ShardStep(s) /\ UNCHANGED clientVars

(* Workers and shard threads that can run are run, and deadlines pass.     *)
TrainingSpec ==
  /\ TrainingInit
  /\ [][TrainingNext]_vars
  /\ \A w \in Workers : WF_vars(ClientStep(w))
  /\ \A s \in Shards : WF_vars(ShardStep(s) /\ UNCHANGED clientVars)

-----------------------------------------------------------------------------
(* Properties. *)

(* The values of the clients' variables. *)
TrainingTypeOK ==
  /\ ShardTypeOK
  /\ algorithm \in Algorithms
  /\ pc \in [Workers -> {"registering", "gathering", "looping", "switching",
                         "pulling", "pushing", "waiting"} \cup Ended]
  /\ at \in [Workers -> Shards]
  /\ epoch \in [Workers -> 0 .. Epochs]
  /\ batch \in [Workers -> 0 .. Batches - 1]
  /\ current \in [Workers -> Modes]
  /\ snapshot \in [Workers -> [Shards -> SUBSET Pushes]]

(* Bulk synchrony, across shards: a worker that computes in a synchronous  *)
(* epoch has pulled, from every shard with keys of its rows, all updates   *)
(* of all workers of the epochs before and none of its own or a later one. *)
BulkSynchronous ==
  \A w \in Workers :
    current[w] = "sync" /\ (pc[w] = "pushing" \/ (pc[w] = "pulling" /\ batch[w] > 0)) =>
    \A s \in Shards :
      /\ \A v \in Workers, e \in 0 .. epoch[w] - 1 :
           \E u \in sent[s] : u.id[1] = v /\ u.id[2] = e
      /\ \A u \in sent[s] : u.sizes # Heartbeat /\ s \in Touches[w] =>
           (u.id \in snapshot[w][s] <=> u.id[2] < epoch[w])

(* The shards stay in step: a later shard is never ahead of an earlier     *)
(* one, nor more than one push of a worker behind, even when a push failed *)
(* half-way.                                                               *)
ShardsInStep ==
  \A s, t \in Shards, w \in Workers : s < t =>
    LET ahead == appliedClock[s][w]
        behind == appliedClock[t][w]
    IN /\ behind <= ahead
       /\ Cardinality({u \in sent[s] : /\ u.worker = w
                                       /\ u.clock > behind /\ u.clock <= ahead}) <= 1

(* "An early worker can complete clock 0 alone while a later registration  *)
(* makes that clock wait for a contribution which can no longer arrive":   *)
(* nobody waits in a barrier for a clock that a living worker has passed.  *)
NobodyWaitsForThePast ==
  \A s \in Shards : \A u \in asleep[s], w \in SyncWorkers(s) :
    \/ pc[w] = "failed"
    \/ epoch[w] <= u.id[2]
    \/ \E v \in pending[s] : v.worker = w /\ v.clock = u.clock
=============================================================================
