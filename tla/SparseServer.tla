---------------------------- MODULE SparseServer ----------------------------
(***************************************************************************)
(* The shards of the sparse Parameter Server: class ParameterServerState   *)
(* of experiments/distributed/runtime/server.py, one state per shard.      *)
(*                                                                         *)
(* Every method runs under the shard's condition variable, so a step is    *)
(* what a thread does between taking the lock and giving it up: a whole    *)
(* register_worker or set_mode, and a push up to its return or to          *)
(* Condition.wait.  A push that waits is asleep until a notify_all or its  *)
(* deadline, and then runs the body of the loop again.                     *)
(*                                                                         *)
(* Abstractions.  An update (the entries of one push, all with op "add")   *)
(* says for each key how many values it carries, 0 for no entry; what the  *)
(* values are is replaced by applied, which counts how often each update   *)
(* was added to each key.  Only the length of a stored value is kept.      *)
(* Versions count applications and are left out.                           *)
(***************************************************************************)
EXTENDS Integers, FiniteSets

CONSTANTS
  Shards,           \* the shards, which share nothing
  Workers,          \* worker ids, numbered in the order sorted() gives them
  Clocks,           \* the clocks workers push with
  Pushes,           \* identities of the push calls
  Keys,             \* parameter keys
  Payloads,         \* what a push may carry: for each key a length, or 0
  InitialMode,      \* the mode the shards are started in
  BarrierMayExpire  \* whether a deadline can pass while a push waits

Modes == {"sync", "async"}

ASSUME WorkersAssumption == Workers \subseteq Nat
ASSUME ClocksAssumption == Clocks \subseteq Nat
ASSUME PayloadsAssumption == Payloads \subseteq [Keys -> Nat]
ASSUME ModeAssumption == InitialMode \in Modes
ASSUME ExpireAssumption == BarrierMayExpire \in BOOLEAN

VARIABLES
  mode,          \* _mode
  workers,       \* _workers, the registered workers
  workerMode,    \* _worker_modes
  pending,       \* _pending: the updates waiting in the barrier
  appliedClock,  \* _applied_clock, -1 before the first
  size,          \* length of each value in _values, 0 for an absent key
  asleep,        \* pushes in Condition.wait
  awake,         \* pushes notified, which have not got the lock back yet
  applied,       \* history: how often each push was added to each key
  sent,          \* history: the updates pushed
  outcome        \* history: what each push returned

barrierVars == <<pending, appliedClock>>
valueVars == <<size, applied>>
threadVars == <<asleep, awake>>
modeVars == <<mode, workers, workerMode>>
callVars == <<sent, outcome>>
shardVars == <<modeVars, barrierVars, valueVars, threadVars, callVars>>

-----------------------------------------------------------------------------
(* Updates. *)

Update == [id : Pushes, worker : Workers, clock : Clocks, sizes : Payloads]

(* The entries of a set of updates. *)
Entries(us) == {e \in us \X Keys : e[1].sizes[e[2]] # 0}

Lengths(us, k) == {u.sizes[k] : u \in us} \ {0}

SameSlot(us, u) == {v \in us : v.worker = u.worker /\ v.clock = u.clock}

(* merge_entries raises when two entries of a key differ in length. *)
Mergeable(us) == \A k \in Keys : Cardinality(Lengths(us, k)) <= 1

(* Keys whose stored value has another length than the merged entry. *)
Mismatched(s, us) ==
  {k \in Keys : size[s][k] # 0 /\ Lengths(us, k) \ {size[s][k]} # {}}

(* _apply_locked adds these entries. *)
Apply(s, entries) ==
  /\ size' = [size EXCEPT ![s] =
       [k \in Keys |->
          IF size[s][k] = 0 /\ \E e \in entries : e[2] = k
          THEN (CHOOSE e \in entries : e[2] = k)[1].sizes[k]
          ELSE size[s][k]]]
  /\ applied' = [applied EXCEPT ![s] =
       [i \in Pushes |-> [k \in Keys |->
          applied[s][i][k] + Cardinality({e \in entries : e[1].id = i /\ e[2] = k})]]]

FirstWorker(us, k) ==
  CHOOSE w \in Workers :
    /\ \E u \in us : u.worker = w /\ u.sizes[k] # 0
    /\ \A u \in us : u.sizes[k] # 0 => w <= u.worker

(* The entries _apply_locked may have added before it raises: merged       *)
(* entries come worker by worker, in any order for each.                   *)
Prefixes(s, us) ==
  LET touched == {k \in Keys : Lengths(us, k) # {}} IN
  {Entries(us) \cap (us \X ks) : ks \in
     {ks \in SUBSET (touched \ Mismatched(s, us)) :
        \E bad \in Mismatched(s, us) : \A k \in touched :
          /\ FirstWorker(us, k) < FirstWorker(us, bad) => k \in ks
          /\ FirstWorker(us, k) > FirstWorker(us, bad) => k \notin ks}}

Later(m, n) == IF m >= n THEN m ELSE n

-----------------------------------------------------------------------------
(* register_worker, and what push does for a worker it does not know. *)

Notify(s) ==
  /\ asleep' = [asleep EXCEPT ![s] = {}]
  /\ awake' = [awake EXCEPT ![s] = @ \cup asleep[s]]

Register(s, w) ==
  /\ workers' = [workers EXCEPT ![s] = @ \cup {w}]
  /\ workerMode' = [workerMode EXCEPT ![s][w] = mode[s]]
  /\ Notify(s)
  /\ UNCHANGED <<mode, barrierVars, valueVars, callVars>>

Enlist(s, w) ==
  /\ UNCHANGED mode
  /\ IF w \in workers[s]
     THEN UNCHANGED <<workers, workerMode>>
     ELSE /\ workers' = [workers EXCEPT ![s] = @ \cup {w}]
          /\ workerMode' = [workerMode EXCEPT ![s][w] = mode[s]]

-----------------------------------------------------------------------------
(* push. *)

(* A push call leaves with its outcome. *)
Return(s, u, result) == outcome' = [outcome EXCEPT ![s][u.id] = result]

(* Neither asleep nor waiting for the lock any more. *)
Leave(s, u) ==
  /\ asleep' = [asleep EXCEPT ![s] = @ \ {u}]
  /\ awake' = [awake EXCEPT ![s] = @ \ {u}]

InSync(ws, modes) == {w \in ws : modes[w] = "sync"}

SyncWorkers(s) == InSync(workers[s], workerMode[s])

(* Faulty variant: the applied clock alone says that the round is over. *)
JoinedByClock(s, u, barrier) == appliedClock[s][u.worker] >= u.clock

(* Somebody else has applied the round with this push's entries. *)
Joined(s, u, barrier) ==
  /\ appliedClock[s][u.worker] >= u.clock
  /\ SameSlot(barrier, u) = {}

(* The contributions to the round of u from the workers in sync mode. *)
Round(syncs, u, barrier) ==
  {v \in barrier : v.clock = u.clock /\ v.worker \in syncs}

(* Faulty variant: of the workers that have something pending only. *)
ReadyOfPending(syncs, u, barrier) ==
  syncs \cap {v.worker : v \in barrier} = {v.worker : v \in Round(syncs, u, barrier)}

(* Every worker in sync mode has submitted the clock. *)
Ready(syncs, u, barrier) ==
  syncs = {v.worker : v \in Round(syncs, u, barrier)}

(* Faulty variant: the clock the worker will use next. *)
AdvanceClocksPast(s, ws, clock) ==
  appliedClock' = [appliedClock EXCEPT ![s] =
    [w \in Workers |-> IF w \in ws THEN Later(@[w], clock + 1) ELSE @[w]]]

AdvanceClocks(s, ws, clock) ==
  appliedClock' = [appliedClock EXCEPT ![s] =
    [w \in Workers |-> IF w \in ws THEN Later(@[w], clock) ELSE @[w]]]

(* Faulty variant: nobody is told that the round is over. *)
RoundAppliesSilently(s, u, syncs, round) ==
  /\ Mergeable(round) /\ Mismatched(s, round) = {}
  /\ Apply(s, Entries(round))
  /\ AdvanceClocks(s, syncs, u.clock)
  /\ Leave(s, u)
  /\ Return(s, u, "applied")

RoundApplies(s, u, syncs, round) ==
  /\ Mergeable(round) /\ Mismatched(s, round) = {}
  /\ Apply(s, Entries(round))
  /\ AdvanceClocks(s, syncs, u.clock)
  /\ asleep' = [asleep EXCEPT ![s] = {}]
  /\ awake' = [awake EXCEPT ![s] = (@ \cup asleep[s]) \ {u}]
  /\ Return(s, u, "applied")

(* Merging or applying raises, after the round left the barrier: nobody is *)
(* notified and no clock is advanced.                                      *)
RoundRaises(s, u, round) ==
  /\ \/ ~Mergeable(round) /\ UNCHANGED valueVars
     \/ Mergeable(round) /\ \E entries \in Prefixes(s, round) : Apply(s, entries)
  /\ Leave(s, u)
  /\ Return(s, u, "error")
  /\ UNCHANGED appliedClock

(* One turn of the loop in push, with the barrier as the push has left it; *)
(* late when the deadline has passed.  The first test that holds decides.  *)
Turn(s, u, barrier, late) ==
  LET syncs == InSync(workers'[s], workerMode'[s])
      round == Round(syncs, u, barrier)
  IN
  \/ /\ mode[s] = "async"
     /\ Leave(s, u)
     /\ Return(s, u, "switched")
     /\ pending' = [pending EXCEPT ![s] = barrier]
     /\ UNCHANGED <<appliedClock, valueVars>>
  \/ /\ mode[s] = "sync"
     /\ Joined(s, u, barrier)
     /\ Leave(s, u)
     /\ Return(s, u, "applied")
     /\ pending' = [pending EXCEPT ![s] = barrier]
     /\ UNCHANGED <<appliedClock, valueVars>>
  \/ /\ mode[s] = "sync"
     /\ ~Joined(s, u, barrier)
     /\ Ready(syncs, u, barrier)
     /\ pending' = [pending EXCEPT ![s] = barrier \ round]
     /\ RoundApplies(s, u, syncs, round) \/ RoundRaises(s, u, round)
  \/ /\ mode[s] = "sync"
     /\ ~Joined(s, u, barrier)
     /\ ~Ready(syncs, u, barrier)
     /\ pending' = [pending EXCEPT ![s] = barrier]
     /\ UNCHANGED <<appliedClock, valueVars>>
     /\ \/ /\ late
           /\ Leave(s, u)
           /\ Return(s, u, "error")
        \/ /\ ~late
           /\ asleep' = [asleep EXCEPT ![s] = @ \cup {u}]
           /\ awake' = [awake EXCEPT ![s] = @ \ {u}]
           /\ UNCHANGED outcome

(* The call arrives. *)
Enter(s, u) ==
  /\ u.id \notin {v.id : v \in sent[s]}
  /\ sent' = [sent EXCEPT ![s] = @ \cup {u}]
  /\ Enlist(s, u.worker)

RunsAsync(s, w) == mode[s] = "async" \/ workerMode'[s][w] = "async"

PushAsync(s, u) ==
  /\ Enter(s, u)
  /\ RunsAsync(s, u.worker)
  /\ \/ /\ Mismatched(s, {u}) = {}
        /\ Apply(s, Entries({u}))
        /\ AdvanceClocks(s, {u.worker}, u.clock)
        /\ Return(s, u, "applied")
     \/ /\ \E entries \in Prefixes(s, {u}) : Apply(s, entries)
        /\ Return(s, u, "error")
        /\ UNCHANGED appliedClock
  /\ UNCHANGED <<pending, threadVars>>

(* Entries that do not fit what the worker already has in the slot. *)
PushRefused(s, u) ==
  /\ Enter(s, u)
  /\ ~RunsAsync(s, u.worker)
  /\ ~Mergeable(SameSlot(pending[s], u) \cup {u})
  /\ Return(s, u, "error")
  /\ UNCHANGED <<barrierVars, valueVars, threadVars>>

PushSync(s, u) ==
  /\ Enter(s, u)
  /\ ~RunsAsync(s, u.worker)
  /\ Mergeable(SameSlot(pending[s], u) \cup {u})
  /\ Turn(s, u, pending[s] \cup {u}, FALSE)

Push(s, u) == PushAsync(s, u) \/ PushRefused(s, u) \/ PushSync(s, u)

(* wait returns because of a notify_all. *)
Wake(s, u) ==
  /\ u \in awake[s]
  /\ UNCHANGED <<modeVars, sent>>
  /\ Turn(s, u, pending[s], FALSE)

(* ... or because the deadline has passed, notified or not. *)
Expire(s, u) ==
  /\ BarrierMayExpire
  /\ u \in asleep[s] \cup awake[s]
  /\ UNCHANGED <<modeVars, sent>>
  /\ Turn(s, u, pending[s], TRUE)

-----------------------------------------------------------------------------
(* set_mode, for one worker or for all. *)

SetWorkerModes(s, m, ws) ==
  workerMode' = [workerMode EXCEPT ![s] =
    [w \in Workers |-> IF w \in ws THEN m ELSE @[w]]]

(* The shard is in the mode already: only the worker's own mode is set. *)
SetSameMode(s, m, ws) ==
  /\ mode[s] = m
  /\ SetWorkerModes(s, m, ws)
  /\ UNCHANGED <<mode, workers, barrierVars, valueVars, threadVars, callVars>>

SwitchToSync(s, ws) ==
  /\ mode[s] = "async"
  /\ mode' = [mode EXCEPT ![s] = "sync"]
  /\ SetWorkerModes(s, "sync", ws)
  /\ Notify(s)
  /\ UNCHANGED <<workers, barrierVars, valueVars, callVars>>

(* Slots are flushed by worker, then by clock. *)
Earlier(u, v) ==
  u.worker < v.worker \/ (u.worker = v.worker /\ u.clock < v.clock)

EarlierSlots(s, u) == {v \in pending[s] : Earlier(v, u)}

(* Keys that have another length when the slot of u is flushed.            *)
Misfits(s, u) ==
  {k \in Keys : \E a \in {u.sizes[k]} \ {0} :
     ({size[s][k]} \cup Lengths(EarlierSlots(s, u), k)) \ {0, a} # {}}

(* Applied clocks once the slots of us are flushed. *)
ClocksAfterFlush(s, us) ==
  [w \in Workers |->
     CHOOSE c \in {appliedClock[s][w]} \cup {u.clock : u \in {u \in us : u.worker = w}} :
       \A u \in us : u.worker = w => u.clock <= c /\ appliedClock[s][w] <= c]

(* Faulty variant: the updates stay in the barrier. *)
FlushKeeping(s) ==
  /\ \A u \in pending[s] : Misfits(s, u) = {}
  /\ Apply(s, Entries(pending[s]))
  /\ appliedClock' = [appliedClock EXCEPT ![s] = ClocksAfterFlush(s, pending[s])]
  /\ Notify(s)
  /\ UNCHANGED pending

Flush(s) ==
  /\ \A u \in pending[s] : Misfits(s, u) = {}
  /\ Apply(s, Entries(pending[s]))
  /\ appliedClock' = [appliedClock EXCEPT ![s] = ClocksAfterFlush(s, pending[s])]
  /\ Notify(s)
  /\ pending' = [pending EXCEPT ![s] = {}]

(* The first slot that does not fit raises after it was taken out: what    *)
(* came before is applied, what comes after stays, and nobody is notified. *)
FlushRaises(s) ==
  \E u \in pending[s] :
    LET before == EarlierSlots(s, u)
        slot   == SameSlot(pending[s], u)
        good   == {k \in Keys : \A v \in slot : k \notin Misfits(s, v)}
    IN
    /\ Misfits(s, u) # {}
    /\ \A v \in before : Misfits(s, v) = {}
    /\ \E ks \in SUBSET good :
         Apply(s, Entries(before) \cup (Entries(slot) \cap (slot \X ks)))
    /\ appliedClock' = [appliedClock EXCEPT ![s] = ClocksAfterFlush(s, before)]
    /\ pending' = [pending EXCEPT ![s] = @ \ (before \cup slot)]
    /\ UNCHANGED threadVars

SwitchToAsync(s, ws) ==
  /\ mode[s] = "sync"
  /\ mode' = [mode EXCEPT ![s] = "async"]
  /\ SetWorkerModes(s, "async", ws)
  /\ Flush(s) \/ FlushRaises(s)
  /\ UNCHANGED <<workers, callVars>>

(* The modes of ws are set: of the worker named, or of all that registered. *)
SetMode(s, m, ws) ==
  \/ SetSameMode(s, m, ws)
  \/ m = "sync" /\ SwitchToSync(s, ws)
  \/ m = "async" /\ SwitchToAsync(s, ws)

-----------------------------------------------------------------------------

ShardInit ==
  /\ mode = [s \in Shards |-> InitialMode]
  /\ workers = [s \in Shards |-> {}]
  /\ workerMode = [s \in Shards |-> [w \in Workers |-> InitialMode]]
  /\ pending = [s \in Shards |-> {}]
  /\ appliedClock = [s \in Shards |-> [w \in Workers |-> -1]]
  /\ size = [s \in Shards |-> [k \in Keys |-> 0]]
  /\ asleep = [s \in Shards |-> {}]
  /\ awake = [s \in Shards |-> {}]
  /\ applied = [s \in Shards |-> [i \in Pushes |-> [k \in Keys |-> 0]]]
  /\ sent = [s \in Shards |-> {}]
  /\ outcome = [s \in Shards |-> [i \in Pushes |-> "none"]]

ShardNext ==
  \E s \in Shards :
    \/ \E w \in Workers : Register(s, w)
    \/ \E u \in Update : Push(s, u)
    \/ \E u \in asleep[s] \cup awake[s] : Wake(s, u) \/ Expire(s, u)
    \/ \E m \in Modes, w \in Workers : SetMode(s, m, {w})
    \/ \E m \in Modes \ {mode[s]} : SetMode(s, m, workers[s])

ShardSpec == ShardInit /\ [][ShardNext]_shardVars

-----------------------------------------------------------------------------
(* Properties. *)

(* The values the variables of a shard range over; the two thread sets are *)
(* disjoint, and a push has no outcome while it is in one of them.         *)
ShardTypeOK ==
  /\ mode \in [Shards -> Modes]
  /\ workers \in [Shards -> SUBSET Workers]
  /\ workerMode \in [Shards -> [Workers -> Modes]]
  /\ appliedClock \in [Shards -> [Workers -> Clocks \cup {-1}]]
  /\ size \in [Shards -> [Keys -> Nat]]
  /\ applied \in [Shards -> [Pushes -> [Keys -> Nat]]]
  /\ outcome \in [Shards -> [Pushes -> {"none", "applied", "switched", "error"}]]
  /\ \A s \in Shards :
       /\ sent[s] \subseteq Update
       /\ pending[s] \cup asleep[s] \cup awake[s] \subseteq sent[s]
       /\ asleep[s] \cap awake[s] = {}
       /\ \A u \in sent[s] : outcome[s][u.id] = "none" <=> u \in asleep[s] \cup awake[s]

(* An update is never added to a key twice, however rounds, repeated       *)
(* pushes, deadlines and mode switches interleave, and an update that      *)
(* still waits in the barrier has not been added at all.                   *)
AppliedAtMostOnce ==
  \A s \in Shards :
    /\ \A i \in Pushes, k \in Keys : applied[s][i][k] <= 1
    /\ \A u \in pending[s], k \in Keys : applied[s][u.id][k] = 0

(* All pushes to the shard agree on how long the value of each key is.      *)
Uniform(s) == Mergeable(sent[s])

(* "A mode switch does not discard committed work", nor does a round: a    *)
(* push that was told "applied" or "switched" has been added to every key  *)
(* it carried, whoever added it: itself, the last of its round or a flush. *)
(* Not so after a clash of lengths: it empties the barrier on its way.     *)
AcknowledgedIsApplied ==
  \A s \in Shards : \A u \in sent[s] :
    Uniform(s) /\ outcome[s][u.id] \in {"applied", "switched"} =>
      \A k \in Keys : u.sizes[k] # 0 => applied[s][u.id][k] = 1

(* No push sleeps through its release: whatever would let it return has    *)
(* also woken it up.                                                       *)
NobodySleepsThrough ==
  \A s \in Shards : \A u \in asleep[s] : Uniform(s) =>
    /\ mode[s] = "sync"
    /\ ~Joined(s, u, pending[s])
    /\ ~Ready(SyncWorkers(s), u, pending[s])
=============================================================================
