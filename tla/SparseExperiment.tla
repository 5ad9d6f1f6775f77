-------------------------- MODULE SparseExperiment ---------------------------
(***************************************************************************)
(* A sparse experiment as the user runs it: run_sparse_lr_experiment and   *)
(* run_lda_experiment of experiments/distributed/run_experiments.py, with  *)
(* the LocalCluster of runtime/launcher.py.                                *)
(*                                                                         *)
(* The parent starts the shard processes one after the other, then the     *)
(* worker processes, takes one record per worker from the result queue,    *)
(* joins the workers, evaluates the final values and closes the cluster.   *)
(* Whatever raises on the way closes the cluster too, but leaves the       *)
(* workers to find out.  A worker puts its result, or what it caught, into *)
(* the queue and exits; one that is killed puts nothing.                   *)
(*                                                                         *)
(* Abstractions.  Deadlines pass at any time when BarrierMayExpire.        *)
(* Results fit in the queue's pipe, so that exiting never waits for a      *)
(* reader.  Both transports answer one request at a time; the gRPC client  *)
(* does not send again, which MayResend allows but does not require.       *)
(***************************************************************************)
EXTENDS ShardedTraining, FiniteSetsExt

CONSTANTS
  MayFailToStart,  \* shards whose process may exit or hang before it is ready
  MayBeKilled      \* worker processes that may be killed

ASSUME ProcessFaults == MayFailToStart \subseteq Shards /\ MayBeKilled \subseteq Workers

VARIABLES
  parent,     \* what the main process is doing
  verdict,    \* how the call ends once the cluster is closed
  server,     \* state of each shard's process
  process,    \* state of each worker's process
  queue,      \* result_queue: the records put and not yet taken
  collected,  \* worker_results: the workers whose record was taken
  joined,     \* the workers that have been joined
  evaluated   \* history: per shard, the pushes in the values evaluated

parentVars == <<parent, verdict, collected, joined, evaluated>>
processVars == <<server, process, queue>>
experimentVars == <<parentVars, processVars>>
allVars == <<vars, experimentVars>>

Record == [worker : Workers, ok : BOOLEAN]

-----------------------------------------------------------------------------
(* LocalCluster. *)

(* process.start(), once the shard before is ready. *)
StartShard(s) ==
  /\ parent = "starting"
  /\ server[s] = "absent" /\ \A t \in Shards : t < s => server[t] = "serving"
  /\ server' = [server EXCEPT ![s] = "starting"]
  /\ UNCHANGED <<parentVars, process, queue, vars>>

(* run_socket_server, run_grpc_server: the port is bound, ready_event set. *)
BecomeReady(s) ==
  /\ server[s] = "starting"
  /\ server' = [server EXCEPT ![s] = "serving"]
  /\ UNCHANGED <<parentVars, process, queue, vars>>

(* Somebody else has taken the port since it was probed. *)
FailToBind(s) ==
  /\ s \in MayFailToStart
  /\ server[s] = "starting"
  /\ server' = [server EXCEPT ![s] = "gone"]
  /\ UNCHANGED <<parentVars, process, queue, vars>>

(* Something raised in the parent, or the with block is over. *)
LeaveAs(result) ==
  /\ parent' = "closing"
  /\ verdict' = result

(* The shard has exited, or is not ready in time. *)
GiveUpStarting(s) ==
  /\ parent = "starting"
  /\ server[s] = "gone" \/ (s \in MayFailToStart /\ server[s] = "starting")
  /\ LeaveAs("raised")
  /\ UNCHANGED <<collected, joined, evaluated, processVars, vars>>

(* __enter__ returns. *)
ClusterUp ==
  /\ parent = "starting"
  /\ \A s \in Shards : server[s] = "serving"
  /\ parent' = "spawning"
  /\ UNCHANGED <<verdict, collected, joined, evaluated, processVars, vars>>

(* close: processes that are alive are terminated, one after the other. *)
Terminate(s) ==
  /\ parent = "closing"
  /\ server[s] \in {"starting", "serving"}
  /\ \A t \in Shards : t < s => server[t] \in {"absent", "gone"}
  /\ server' = [server EXCEPT ![s] = "gone"]
  /\ UNCHANGED <<parentVars, process, queue, vars>>

Closed ==
  /\ parent = "closing"
  /\ \A s \in Shards : server[s] \in {"absent", "gone"}
  /\ parent' = verdict
  /\ UNCHANGED <<verdict, collected, joined, evaluated, processVars, vars>>

-----------------------------------------------------------------------------
(* The workers' processes. *)

(* process.start() for each worker. *)
Spawn(w) ==
  /\ parent = "spawning"
  /\ w = Min({v \in Workers : process[v] = "absent"})
  /\ process' = [process EXCEPT ![w] = "running"]
  /\ parent' = IF \A v \in Workers \ {w} : process[v] # "absent"
               THEN "collecting" ELSE parent
  /\ UNCHANGED <<verdict, collected, joined, evaluated, server, queue, vars>>

(* The worker is in a request, or about to send one, to its next shard. *)
Talks(w) ==
  \/ pc[w] \in {"registering", "switching", "pushing", "waiting"}
  \/ pc[w] = "pulling" /\ ~PullsNothing(w) /\ at[w] \in Touches[w]

(* The loop of run_sparse_lr_worker or run_lda_worker runs on. *)
Runs(w) ==
  /\ process[w] = "running"
  /\ Talks(w) => server[at[w]] = "serving"
  /\ UNCHANGED experimentVars

Work(w) == Runs(w) /\ ClientStep(w)

Stumble(w) == Runs(w) /\ (Resend(w) \/ Crash(w))

(* The connection is closed, or refused, because the shard is gone. *)
ConnectionFails(w) ==
  /\ process[w] = "running"
  /\ Talks(w) /\ server[at[w]] = "gone"
  /\ Fail(w)
  /\ UNCHANGED experimentVars

(* result_queue.put: the result, or the exception that ended the loop.     *)
Put(w) ==
  /\ process[w] = "running"
  /\ pc[w] \in Ended
  /\ queue' = queue \cup {[worker |-> w, ok |-> pc[w] = "done"]}
  /\ process' = [process EXCEPT ![w] = "exiting"]
  /\ UNCHANGED <<parentVars, server, vars>>

Exit(w) ==
  /\ process[w] = "exiting"
  /\ process' = [process EXCEPT ![w] = "exited"]
  /\ UNCHANGED <<parentVars, server, queue, vars>>

(* Killed from outside: a record that was put is still there. *)
Kill(w) ==
  /\ w \in MayBeKilled
  /\ process[w] \in {"running", "exiting"}
  /\ process' = [process EXCEPT ![w] = "killed"]
  /\ IF pc[w] \in Ended THEN UNCHANGED vars ELSE Fail(w)
  /\ UNCHANGED <<parentVars, server, queue>>

(* A shard's threads run while its process does. *)
Serve(s) ==
  /\ server[s] = "serving"
  /\ ShardStep(s)
  /\ UNCHANGED <<clientVars, experimentVars>>

-----------------------------------------------------------------------------
(* The parent, once everything runs. *)

(* Faulty variant: an error record counts as a result. *)
TakeAny(r) ==
  /\ parent = "collecting"
  /\ r \in queue
  /\ queue' = queue \ {r}
  /\ collected' = collected \cup {r.worker}
  /\ parent' = IF collected' = Workers THEN "joining" ELSE parent
  /\ UNCHANGED <<verdict, joined, evaluated, server, process, vars>>

(* queue.get in _collect_worker_results: a record with an error raises.    *)
Take(r) ==
  /\ parent = "collecting"
  /\ r \in queue
  /\ queue' = queue \ {r}
  /\ IF r.ok
     THEN /\ collected' = collected \cup {r.worker}
          /\ parent' = IF collected' = Workers THEN "joining" ELSE parent
          /\ UNCHANGED verdict
     ELSE LeaveAs("raised") /\ UNCHANGED collected
  /\ UNCHANGED <<joined, evaluated, server, process, vars>>

(* The deadline of _collect_worker_results passes, records or not. *)
CollectExpires ==
  /\ BarrierMayExpire
  /\ parent = "collecting"
  /\ LeaveAs("raised")
  /\ UNCHANGED <<collected, joined, evaluated, processVars, vars>>

(* process.join(): the exit code must be 0. *)
Join(w) ==
  /\ parent = "joining"
  /\ w = Min(Workers \ joined)
  /\ process[w] \in {"exited", "killed"}
  /\ IF process[w] = "exited"
     THEN /\ joined' = joined \cup {w}
          /\ parent' = IF joined' = Workers THEN "evaluating" ELSE parent
          /\ UNCHANGED verdict
     ELSE LeaveAs("raised") /\ UNCHANGED joined
  /\ UNCHANGED <<collected, evaluated, processVars, vars>>

(* Still alive after the time-out: terminate() and raise. *)
JoinExpires(w) ==
  /\ BarrierMayExpire
  /\ parent = "joining"
  /\ w = Min(Workers \ joined)
  /\ process[w] = "exiting"
  /\ process' = [process EXCEPT ![w] = "killed"]
  /\ LeaveAs("raised")
  /\ UNCHANGED <<collected, joined, evaluated, server, queue, vars>>

(* evaluate_sparse_lr, evaluate_lda: a client of its own pulls what there  *)
(* is; then the with block is left.                                        *)
Evaluate ==
  /\ parent = "evaluating"
  /\ evaluated' = [s \in Shards |-> Present(s)]
  /\ LeaveAs("returned")
  /\ UNCHANGED <<collected, joined, processVars, vars>>

-----------------------------------------------------------------------------

ExperimentInit ==
  /\ TrainingInit
  /\ parent = "starting"
  /\ verdict = "raised"
  /\ server = [s \in Shards |-> "absent"]
  /\ process = [w \in Workers |-> "absent"]
  /\ queue = {} /\ collected = {} /\ joined = {}
  /\ evaluated = [s \in Shards |-> {}]

ParentStep ==
  \/ \E s \in Shards : StartShard(s) \/ GiveUpStarting(s) \/ Terminate(s)
  \/ \E w \in Workers : Spawn(w) \/ Join(w) \/ JoinExpires(w)
  \/ \E r \in queue : Take(r)
  \/ ClusterUp \/ CollectExpires \/ Evaluate \/ Closed

WorkerStep(w) == Work(w) \/ ConnectionFails(w) \/ Put(w) \/ Exit(w)

ServerStep(s) == BecomeReady(s) \/ Serve(s)

ExperimentNext ==
  \/ ParentStep
  \/ \E w \in Workers : WorkerStep(w) \/ Stumble(w) \/ Kill(w)
  \/ \E s \in Shards : ServerStep(s) \/ FailToBind(s)

(* Every process that can take a step is scheduled, and deadlines pass.    *)
ExperimentSpec ==
  /\ ExperimentInit
  /\ [][ExperimentNext]_allVars
  /\ WF_allVars(ParentStep)
  /\ \A w \in Workers : WF_allVars(WorkerStep(w))
  /\ \A s \in Shards : WF_allVars(ServerStep(s))

-----------------------------------------------------------------------------
(* Properties. *)

(* The values the variables range over; what was collected was put by a    *)
(* worker that finished, and only ended workers are exiting.               *)
ExperimentTypeOK ==
  /\ TrainingTypeOK
  /\ parent \in {"starting", "spawning", "collecting", "joining", "evaluating",
                 "closing", "returned", "raised"}
  /\ verdict \in {"returned", "raised"}
  /\ server \in [Shards -> {"absent", "starting", "serving", "gone"}]
  /\ process \in [Workers -> {"absent", "running", "exiting", "exited", "killed"}]
  /\ queue \subseteq Record
  /\ collected \subseteq Workers /\ joined \subseteq Workers
  /\ evaluated \in [Shards -> SUBSET Pushes]

(* What was evaluated is the whole training: every worker has pushed its   *)
(* last mini-batch of every epoch to every shard, and whatever was pushed  *)
(* with an entry is in the values.                                         *)
EvaluatedEverything ==
  \A s \in Shards :
    /\ Workers \X (0 .. Epochs - 1) \X {Batches - 1} \subseteq {u.id : u \in sent[s]}
    /\ evaluated[s] = {u.id : u \in {u \in sent[s] : u.sizes # Heartbeat}}

(* The experiment settles.  However workers fail, die or are late, the     *)
(* call returns or raises, every shard is stopped, and the workers nobody  *)
(* terminates find out and exit as well; and it only returns results of a  *)
(* training that is complete.                                              *)
ExperimentSettles ==
  <>[](/\ parent \in {"returned", "raised"}
       /\ \A s \in Shards : server[s] \in {"absent", "gone"}
       /\ \A w \in Workers : process[w] \notin {"running", "exiting"}
       /\ parent = "returned" => EvaluatedEverything)
=============================================================================
