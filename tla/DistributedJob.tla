--------------------------- MODULE DistributedJob ---------------------------
(***************************************************************************)
(* A local training job under the Launcher: a monitor that must see every  *)
(* metric record, the Parameter Server process that must see every worker, *)
(* and the workers, of the MNIST application or of the AutoDrive benchmark. *)
(* The training protocol is the one of SyncTraining, here one step: a       *)
(* worker's batch ends once every worker has pushed it (its Lockstep).     *)
(*                                                                         *)
(* What a target may wait for without end: the monitor for a record, the   *)
(* server for a connection or for its threads, a worker for its peers.     *)
(* None of these waits looks at the other processes; the launcher does.    *)
(***************************************************************************)
EXTENDS Launcher

CONSTANTS
  Monitor, Server, \* their roles
  Workers,
  Rank0,           \* the worker that saves the checkpoint
  Batches,         \* per worker: epochs times steps per epoch
  MayFail,         \* roles whose target may raise of itself
  Apps             \* which of the two applications are run

ASSUME JobAssumption ==
  /\ Roles = {Monitor, Server} \cup Workers
  /\ Monitor # Server /\ {Monitor, Server} \cap Workers = {}
  /\ IsFiniteSet(Workers) /\ Rank0 \in Workers
  /\ Batches \in Nat \ {0}
  /\ MayFail \subseteq Roles
  /\ Apps \subseteq {"mnist", "autodrive"}

VARIABLES
  app,      \* the application
  at,       \* per role: where its target is
  conn,     \* per worker: its connection to the server
  batch,    \* per worker: batches done
  metrics,  \* records in metric_queue
  written,  \* records in the metrics file
  saved     \* batches that went into the checkpoint; 0: there is none

jobVars == <<app, at, conn, batch, metrics, written, saved>>
vars == <<launchVars, jobVars>>

ExpectedRecords == Batches * Cardinality(Workers)

Goto(r, l) == at' = [at EXCEPT ![r] = l]
Runs(r) == proc[r] = "running"

-----------------------------------------------------------------------------
(* monitor_process: no timeout, and stop_event is not looked at. *)

WriteRecord ==
  /\ Runs(Monitor)
  /\ written < ExpectedRecords
  /\ metrics > 0
  /\ metrics' = metrics - 1
  /\ written' = written + 1
  /\ UNCHANGED <<app, at, conn, batch, saved, launchVars>>

(* Faulty variant: be content with what has come. *)
MonitorReturnsEarly ==
  /\ metrics = 0
  /\ written > 0
  /\ Complete(Monitor)
  /\ UNCHANGED jobVars

MonitorReturns ==
  /\ written = ExpectedRecords
  /\ Complete(Monitor)
  /\ UNCHANGED jobVars

-----------------------------------------------------------------------------
(* _server_process. *)

Listen ==
  /\ Runs(Server)
  /\ at[Server] = "binding"
  /\ Goto(Server, "accepting")
  /\ UNCHANGED <<app, conn, batch, metrics, written, saved, launchVars>>

Accepted == {w \in Workers : conn[w] \in {"open", "closed"}}

(* One connection more, and its thread. *)
Accept(w) ==
  /\ Runs(Server)
  /\ at[Server] = "accepting"
  /\ conn[w] = "queued"
  /\ conn' = [conn EXCEPT ![w] = "open"]
  /\ IF Accepted \cup {w} = Workers THEN Goto(Server, "waiting") ELSE UNCHANGED at
  /\ UNCHANGED <<app, batch, metrics, written, saved, launchVars>>

AcceptStopped ==
  /\ at[Server] = "accepting"
  /\ stop
  /\ Fail(Server)
  /\ UNCHANGED jobVars

(* The thread of a worker that is gone ends: its connection was closed.    *)
ThreadEnds(w) ==
  /\ Runs(Server)
  /\ conn[w] = "open"
  /\ proc[w] # "running"
  /\ conn' = [conn EXCEPT ![w] = "closed"]
  /\ UNCHANGED <<app, at, batch, metrics, written, saved, launchVars>>

(* All threads have ended, or stop is set: the target returns.             *)
ServerReturns ==
  /\ at[Server] = "waiting"
  /\ stop \/ \A w \in Workers : conn[w] = "closed"
  /\ Complete(Server)
  /\ UNCHANGED jobVars

-----------------------------------------------------------------------------
(* _worker_process, _autodrive_worker_process. *)

(* connect_with_retry: the listener's backlog takes every worker.          *)
Connect(w) ==
  /\ Runs(w)
  /\ at[w] = "connecting"
  /\ ~stop
  /\ Runs(Server) /\ at[Server] = "accepting"
  /\ Goto(w, "registering")
  /\ conn' = [conn EXCEPT ![w] = "queued"]
  /\ UNCHANGED <<app, batch, metrics, written, saved, launchVars>>

(* Only connect_with_retry, and the MNIST worker before every batch, look  *)
(* at stop_event.                                                          *)
SeeStop(w) ==
  /\ stop
  /\ \/ at[w] = "connecting"
     \/ at[w] = "training" /\ batch[w] < Batches /\ app = "mnist"
  /\ Fail(w)
  /\ UNCHANGED jobVars

Registered(w) ==
  /\ Runs(w)
  /\ at[w] = "registering"
  /\ Runs(Server)
  /\ conn[w] = "open"
  /\ Goto(w, "training")
  /\ UNCHANGED <<app, conn, batch, metrics, written, saved, launchVars>>

(* Data, forward, backward, and the gradient is sent.                      *)
Push(w) ==
  /\ Runs(w)
  /\ at[w] = "training"
  /\ batch[w] < Batches
  /\ Goto(w, "pushing")
  /\ UNCHANGED <<app, conn, batch, metrics, written, saved, launchVars>>

PushedBatch(v, n) == batch[v] >= n \/ (batch[v] = n - 1 /\ at[v] = "pushing")

(* Faulty variant: the record is put once more. *)
AdvanceRecordingTwice(w) ==
  /\ Runs(w)
  /\ at[w] = "pushing"
  /\ Runs(Server)
  /\ \A v \in Workers : PushedBatch(v, batch[w] + 1)
  /\ batch' = [batch EXCEPT ![w] = @ + 1]
  /\ metrics' = metrics + 2
  /\ Goto(w, "training")
  /\ UNCHANGED <<app, conn, written, saved, launchVars>>

(* push_gradients_and_wait returns, and the record is put.                 *)
Advance(w) ==
  /\ Runs(w)
  /\ at[w] = "pushing"
  /\ Runs(Server)
  /\ \A v \in Workers : PushedBatch(v, batch[w] + 1)
  /\ batch' = [batch EXCEPT ![w] = @ + 1]
  /\ metrics' = metrics + 1
  /\ Goto(w, "training")
  /\ UNCHANGED <<app, conn, written, saved, launchVars>>

NeedsSaving(w) == app = "autodrive" /\ w = Rank0

(* Rank 0 saves the synchronized parameters before it shuts down.          *)
SaveCheckpoint(w) ==
  /\ Runs(w)
  /\ at[w] = "training" /\ batch[w] = Batches
  /\ NeedsSaving(w) /\ saved = 0
  /\ saved' = batch[w]
  /\ UNCHANGED <<app, at, conn, batch, metrics, written, launchVars>>

Close(w) ==
  /\ Runs(w)
  /\ at[w] = "training" /\ batch[w] = Batches
  /\ NeedsSaving(w) => saved > 0
  /\ Goto(w, "closing")
  /\ UNCHANGED <<app, conn, batch, metrics, written, saved, launchVars>>

(* SHUTDOWN is acknowledged and its thread ends. *)
Closed(w) ==
  /\ at[w] = "closing"
  /\ Runs(Server)
  /\ conn' = [conn EXCEPT ![w] = "closed"]
  /\ Complete(w)
  /\ UNCHANGED <<app, at, batch, metrics, written, saved>>

Awaits(w) == at[w] \in {"registering", "pushing", "closing"}

(* The server's process is gone: the connection breaks. *)
LoseServer(w) ==
  /\ Awaits(w)
  /\ proc[Server] # "running"
  /\ Fail(w)
  /\ UNCHANGED jobVars

(* WORKER_TIMEOUT: a registered peer is gone, were it at the end of its loop. *)
PeerTimedOut(w) ==
  /\ Awaits(w)
  /\ Runs(Server)
  /\ \E v \in Workers : conn[v] = "closed" /\ at[v] # "registering"
  /\ Fail(w)
  /\ UNCHANGED jobVars

(* A target raises of itself: the port is taken, no connection before the   *)
(* deadline, a bad sample, a receive timeout, an invalid record, a full disk. *)
Raise(r) == r \in MayFail /\ Fail(r) /\ UNCHANGED jobVars

-----------------------------------------------------------------------------

JobInit ==
  /\ LaunchInit
  /\ app \in Apps
  /\ at = [r \in Roles |-> CASE r = Monitor -> "monitoring" [] r = Server -> "binding"
                             [] OTHER -> "connecting"]
  /\ conn = [w \in Workers |-> "none"]
  /\ batch = [w \in Workers |-> 0]
  /\ metrics = 0
  /\ written = 0
  /\ saved = 0

MonitorStep == WriteRecord \/ MonitorReturns

ServerStep ==
  \/ Listen \/ AcceptStopped \/ ServerReturns
  \/ \E w \in Workers : Accept(w) \/ ThreadEnds(w)

WorkerStep(w) ==
  \/ Connect(w) \/ SeeStop(w) \/ Registered(w) \/ Push(w) \/ Advance(w)
  \/ SaveCheckpoint(w) \/ Close(w) \/ Closed(w) \/ LoseServer(w)

ProcessStep(r) == Exit(r) /\ UNCHANGED jobVars

Fault ==
  \/ \E r \in Roles : Raise(r) \/ (Die(r) /\ UNCHANGED jobVars)
  \/ \E w \in Workers : PeerTimedOut(w)
  \/ (Disturb /\ UNCHANGED jobVars)

(* run has returned or raised, and no process is left.                     *)
Over == outcome # "none" /\ UNCHANGED vars

JobNext ==
  \/ (Supervise /\ UNCHANGED jobVars)
  \/ MonitorStep \/ ServerStep
  \/ \E w \in Workers : WorkerStep(w)
  \/ \E r \in Roles : ProcessStep(r)
  \/ Fault
  \/ Over

JobSpec == JobInit /\ [][JobNext]_vars

(* The parent and every process that can run are run; nothing has to fail, *)
(* to be interrupted or to time out.                                       *)
FairJobSpec ==
  /\ JobSpec
  /\ WF_vars(Supervise /\ UNCHANGED jobVars)
  /\ WF_vars(MonitorStep) /\ WF_vars(ServerStep)
  /\ \A w \in Workers : WF_vars(WorkerStep(w))
  /\ \A r \in Roles : WF_vars(ProcessStep(r))

-----------------------------------------------------------------------------
(* Properties. *)

(* The values of the job's state. *)
JobTypeOK ==
  /\ LaunchTypeOK
  /\ app \in Apps
  /\ at \in [Roles -> {"monitoring", "binding", "accepting", "waiting", "connecting",
                       "registering", "training", "pushing", "closing"}]
  /\ conn \in [Workers -> {"none", "queued", "open", "closed"}]
  /\ batch \in [Workers -> 0 .. Batches]
  /\ metrics \in 0 .. ExpectedRecords
  /\ written \in 0 .. ExpectedRecords
  /\ saved \in 0 .. Batches

(* The summary run_distributed_training and run_autodrive_ps_benchmark     *)
(* compute from a finished job rests on all of it: every batch of every    *)
(* worker was trained and its record is in the file, and the checkpoint    *)
(* that is then evaluated holds the parameters after the last update.      *)
SummaryIsComplete ==
  outcome = "ok" =>
    /\ \A w \in Workers : batch[w] = Batches
    /\ written = ExpectedRecords
    /\ app = "autodrive" => saved = Batches

(* The job ends, although none of its processes watches the others: the    *)
(* loss of a worker before it connects, of the server, or of the monitor   *)
(* leaves somebody waiting for ever, and only the launcher ends that.      *)
JobEnds == <>(outcome # "none")
=============================================================================
