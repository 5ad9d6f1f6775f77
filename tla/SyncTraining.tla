---------------------------- MODULE SyncTraining -----------------------------
(***************************************************************************)
(* One distributed training job: the Parameter Server, one server thread   *)
(* per connection (serve_connection), and the worker processes (Worker,    *)
(* push_gradients_and_wait, _worker_process).                              *)
(*                                                                         *)
(* A connection holds at most one request and one response, because a      *)
(* worker sends its next request only after the answer to the last.  TCP   *)
(* neither loses nor reorders them, but either end may go away: a worker    *)
(* process dies, a socket times out, a server thread returns and its       *)
(* socket is closed.  A closed connection may or may not have delivered    *)
(* the last request.                                                       *)
(***************************************************************************)
EXTENDS ParameterServer

CONSTANTS
  Steps,     \* epochs times batches: iterations of every worker's loop
  MayCrash   \* workers whose process may die, a receive timeout included

ASSUME StepsAssumption == Steps \in Nat
ASSUME MayCrashAssumption == MayCrash \subseteq Workers

VARIABLES
  pc,        \* where the worker process is
  version,   \* Worker.step
  replica,   \* the parameters in the worker's model, as a count of updates
  batches,   \* global_step: completed iterations
  up,        \* per connection: the request in flight, or Nothing
  down,      \* per connection: the response in flight, or Nothing
  thread     \* per connection: its server thread

workerVars == <<pc, version, replica, batches>>
netVars == <<up, down, thread>>
vars == <<serverVars, workerVars, netVars>>

Nothing == [type |-> "NOTHING"]

PcStates == {"starting", "registering", "computing", "pushing", "sleeping",
             "closing", "done", "aborted"}

Awaiting == {"registering", "pushing", "closing"}

Ended == {"done", "aborted"}

Goto(w, l) == pc' = [pc EXCEPT ![w] = l]

Message(w, type, s) ==
  [type |-> type, worker |-> w, step |-> s, payload |-> "well-formed",
   base |-> replica[w]]

Send(w, req) == up' = [up EXCEPT ![w] = req]
Consume(w)   == down' = [down EXCEPT ![w] = Nothing]

-----------------------------------------------------------------------------
(* The worker process. *)

(* connect_with_retry, the accept that starts a server thread, and          *)
(* registration_message. *)
Connect(w) ==
  /\ pc[w] = "starting"
  /\ Goto(w, "registering")
  /\ thread' = [thread EXCEPT ![w] = "serving"]
  /\ Send(w, Message(w, "REGISTER", version[w]))
  /\ UNCHANGED <<version, replica, batches, down, serverVars>>

(* Faulty variant: one iteration too many. *)
PushOnceMore(w) ==
  /\ pc[w] = "computing"
  /\ batches[w] <= Steps
  /\ Goto(w, "pushing")
  /\ Send(w, Message(w, "PUSH_GRADIENTS", version[w]))
  /\ UNCHANGED <<version, replica, batches, down, thread, serverVars>>

(* One iteration: forward, backward, gradients_message, send_frame.        *)
Push(w) ==
  /\ pc[w] = "computing"
  /\ batches[w] < Steps
  /\ Goto(w, "pushing")
  /\ Send(w, Message(w, "PUSH_GRADIENTS", version[w]))
  /\ UNCHANGED <<version, replica, batches, down, thread, serverVars>>

(* accept_parameters: take the version and the parameters of the response; *)
(* a version behind the worker's own is a protocol error.                  *)
Accept(w, r) ==
  /\ r.type = "PARAMETERS"
  /\ r.version >= version[w]
  /\ version' = [version EXCEPT ![w] = r.version]
  /\ replica' = [replica EXCEPT ![w] = r.model]

ReceiveRegistered(w) ==
  /\ pc[w] = "registering"
  /\ Accept(w, down[w])
  /\ Goto(w, "computing")
  /\ Consume(w)
  /\ UNCHANGED <<batches, up, thread, serverVars>>

(* push_gradients_and_wait returns: the iteration is over.                 *)
ReceiveUpdate(w) ==
  /\ pc[w] = "pushing"
  /\ Accept(w, down[w])
  /\ batches' = [batches EXCEPT ![w] = @ + 1]
  /\ Goto(w, "computing")
  /\ Consume(w)
  /\ UNCHANGED <<up, thread, serverVars>>

(* Faulty variant: wait on for the answer to the push. *)
ReceiveWaitingOn(w) ==
  /\ pc[w] = "pushing"
  /\ down[w].type = "HEARTBEAT"
  /\ Consume(w)
  /\ UNCHANGED <<pc, version, replica, batches, up, thread, serverVars>>

(* handle_response of a waiting HEARTBEAT, then sleep(poll_interval).      *)
ReceiveWaiting(w) ==
  /\ pc[w] = "pushing"
  /\ down[w].type = "HEARTBEAT"
  /\ Goto(w, "sleeping")
  /\ Consume(w)
  /\ UNCHANGED <<version, replica, batches, up, thread, serverVars>>

(* Faulty variant: a waiting worker sends the gradient again. *)
PollByPushing(w) ==
  /\ pc[w] = "sleeping"
  /\ Goto(w, "pushing")
  /\ Send(w, Message(w, "PUSH_GRADIENTS", version[w]))
  /\ UNCHANGED <<version, replica, batches, down, thread, serverVars>>

(* pull_message(worker.step + 1).                                          *)
Poll(w) ==
  /\ pc[w] = "sleeping"
  /\ Goto(w, "pushing")
  /\ Send(w, Message(w, "PULL_PARAMETERS", version[w] + 1))
  /\ UNCHANGED <<version, replica, batches, down, thread, serverVars>>

Close(w) ==
  /\ pc[w] = "computing"
  /\ batches[w] = Steps
  /\ Goto(w, "closing")
  /\ Send(w, Message(w, "SHUTDOWN", version[w]))
  /\ UNCHANGED <<version, replica, batches, down, thread, serverVars>>

ReceiveClosed(w) ==
  /\ pc[w] = "closing"
  /\ down[w].type = "SHUTDOWN"
  /\ Goto(w, "done")
  /\ Consume(w)
  /\ UNCHANGED <<version, replica, batches, up, thread, serverVars>>

(* handle_response raises: an ERROR, or a version behind the worker's own. *)
ReceiveError(w) ==
  /\ pc[w] \in Awaiting
  /\ \/ down[w].type = "ERROR"
     \/ down[w].type = "PARAMETERS" /\ down[w].version < version[w]
  /\ Goto(w, "aborted")
  /\ Consume(w)
  /\ UNCHANGED <<version, replica, batches, up, thread, serverVars>>

(* recv on a connection the server has closed. *)
LoseConnection(w) ==
  /\ pc[w] \in Awaiting
  /\ down[w] = Nothing
  /\ thread[w] = "gone"
  /\ Goto(w, "aborted")
  /\ UNCHANGED <<version, replica, batches, netVars, serverVars>>

(* The process dies, or its own receive times out. *)
Crash(w) ==
  /\ w \in MayCrash
  /\ pc[w] \notin Ended
  /\ Goto(w, "aborted")
  /\ UNCHANGED <<version, replica, batches, netVars, serverVars>>

-----------------------------------------------------------------------------
(* The server thread of a connection: receive, handle_message, send.       *)

Serve(w) ==
  /\ thread[w] = "serving"
  /\ up[w] # Nothing
  /\ HandleMessage(up[w])
  /\ up' = [up EXCEPT ![w] = Nothing]
  /\ down' = IF reply'.type = "RAISED" \/ pc[w] \in Ended
             THEN down ELSE [down EXCEPT ![w] = reply']
  /\ thread' = IF reply'.type = "RAISED" \/ up[w].type = "SHUTDOWN"
               THEN [thread EXCEPT ![w] = "gone"] ELSE thread
  /\ UNCHANGED workerVars

(* PeerDisconnected or a reset: the process is gone, and with it perhaps a *)
(* request that was still in flight.                                       *)
Disconnect(w) ==
  /\ thread[w] = "serving"
  /\ pc[w] \in Ended
  /\ thread' = [thread EXCEPT ![w] = "gone"]
  /\ up' = [up EXCEPT ![w] = Nothing]
  /\ UNCHANGED <<down, workerVars, serverVars>>

(* TransportTimeout of receive, whose timeout is the heartbeat's: silently  *)
(* the thread returns and the connection is closed.                        *)
ThreadTimeout(w) ==
  /\ thread[w] = "serving"
  /\ HeartbeatTimeout > 0
  /\ up[w] = Nothing
  /\ w \in registered => age[w] >= HeartbeatTimeout
  /\ thread' = [thread EXCEPT ![w] = "gone"]
  /\ UNCHANGED <<up, down, workerVars, serverVars>>

-----------------------------------------------------------------------------

JobInit ==
  /\ Init
  /\ pc = [w \in Workers |-> "starting"]
  /\ version = [w \in Workers |-> 0]
  /\ replica = [w \in Workers |-> 0]
  /\ batches = [w \in Workers |-> 0]
  /\ up = [w \in Workers |-> Nothing]
  /\ down = [w \in Workers |-> Nothing]
  /\ thread = [w \in Workers |-> "none"]

WorkerStep(w) ==
  \/ Connect(w) \/ Push(w) \/ Poll(w) \/ Close(w)
  \/ ReceiveRegistered(w) \/ ReceiveUpdate(w) \/ ReceiveWaiting(w)
  \/ ReceiveClosed(w) \/ ReceiveError(w) \/ LoseConnection(w)

ThreadStep(w) == Serve(w) \/ Disconnect(w)

Time == Tick /\ UNCHANGED <<workerVars, netVars>>

JobNext ==
  \/ \E w \in Workers :
       WorkerStep(w) \/ Crash(w) \/ ThreadStep(w) \/ ThreadTimeout(w)
  \/ Time

JobSpec == JobInit /\ [][JobNext]_vars

(* Processes and threads that can run are run, and time passes; nobody has *)
(* to crash or to time out early.                                          *)
FairJobSpec ==
  /\ JobSpec
  /\ \A w \in Workers : WF_vars(WorkerStep(w)) /\ WF_vars(ThreadStep(w))
  /\ WF_vars(Time)

-----------------------------------------------------------------------------
(* Properties. *)

(* The values the variables of workers and connections range over. *)
JobTypeOK ==
  /\ TypeOK
  /\ pc \in [Workers -> PcStates]
  /\ version \in [Workers -> Nat]
  /\ replica \in [Workers -> Nat]
  /\ batches \in [Workers -> 0 .. Steps]
  /\ up \in [Workers -> Request \cup {Nothing}]
  /\ down \in [Workers -> Response \cup {Nothing}]
  /\ thread \in [Workers -> {"none", "serving", "gone"}]

(* The server and the workers are in lockstep: a worker's step counts the  *)
(* batches it has finished and names exactly the parameters in its model,  *)
(* and the server is at most one update ahead of it, even of a dead one.   *)
Lockstep ==
  \A w \in Workers :
    /\ replica[w] = version[w]
    /\ batches[w] = version[w]
    /\ step \in {version[w], version[w] + 1}

(* The workers' protocol never trips the server's checks: whatever the     *)
(* interleaving of pushes, polls, crashes and timeouts, no request of a     *)
(* real worker is stale, early, duplicated or unregistered, and no answer  *)
(* is of a kind or version its worker cannot take.                         *)
OnlyTimeoutsAreReported ==
  \A w \in Workers :
    /\ down[w].type = "ERROR" => down[w].code = "WORKER_TIMEOUT"
    /\ down[w].type = "PARAMETERS" => down[w].version >= version[w]
    /\ pc[w] = "pushing" /\ down[w].type = "PARAMETERS" =>
         down[w].version = version[w] + 1

SGD == INSTANCE SynchronousSGD WITH stopped <- failed \/ torn

(* The job is sequential SGD over the global batches: every update averages *)
(* one gradient of each worker, computed from the parameters the update is *)
(* applied to, and once a timeout or an optimizer error has stopped the    *)
(* job, no further update happens.                                         *)
SequentialTraining == SGD!Spec

(* The barrier is no deadlock: either every worker finishes its loop, or    *)
(* some process crashes, times out or is told of a failure.                *)
JobCompletes ==
  <>(\/ \A w \in Workers : pc[w] = "done"
     \/ \E w \in Workers : pc[w] = "aborted")

(* The loss of a registered worker is noticed by all: every other process  *)
(* ends, by finishing or by an error, and none polls for ever.             *)
FailureSpreads ==
  \A w \in Workers :
    (pc[w] = "aborted" /\ w \in registered) ~> (\A u \in Workers : pc[u] \in Ended)

(* The error text says workers "timed out while participating in           *)
(* synchronous training": a worker that has been acknowledged its SHUTDOWN *)
(* no longer participates, and must not be what fails the job.             *)
OnlyParticipantsTimeOut ==
  [][~failed /\ failed' => \E w \in TimedOut : pc[w] # "done"]_vars
=============================================================================
