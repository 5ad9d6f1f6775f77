--------------------------- MODULE ParameterServer ---------------------------
(***************************************************************************)
(* The dense synchronous Parameter Server: class ParameterServer of        *)
(* kernelleaf/distributed/parameter_server.py.                             *)
(*                                                                         *)
(* handle_message runs under one lock, so the server is a sequential state *)
(* machine: one action per branch of handle_message, taken for a request   *)
(* of any worker id, type, step and payload.  Module SyncTraining puts the *)
(* real Workers, their connections and the server threads around it.       *)
(*                                                                         *)
(* Abstractions.  The parameters are the sequence of updates the optimizer *)
(* has applied to the initial model; an update is the set of gradients     *)
(* that were averaged into it.  A gradient carries who sent it, the step   *)
(* of the request that carried it, and the version of the parameters it    *)
(* was computed from; the server sees only the first two.  A payload that  *)
(* any check of _validate_schema or _decode_gradients rejects is           *)
(* Malformed.  Time is an age per worker in clock units, stopped one unit  *)
(* past the timeout.                                                       *)
(***************************************************************************)
EXTENDS Integers, Sequences, FiniteSets

CONSTANTS
  Workers,           \* worker_ids, the configured workers
  Strangers,         \* worker ids a request may carry that are not configured
  HeartbeatTimeout,  \* heartbeat_timeout in clock units; 0 stands for None
  OptimizerMayRaise  \* whether optimizer.step() may raise (out of memory, device)

ASSUME WorkersAssumption == Workers # {} /\ IsFiniteSet(Workers)
ASSUME StrangersAssumption == Workers \cap Strangers = {}
ASSUME TimeoutAssumption == HeartbeatTimeout \in Nat
ASSUME OptimizerAssumption == OptimizerMayRaise \in BOOLEAN

VARIABLES
  step,        \* self.step, the parameter version
  registered,  \* self._registered
  age,         \* time since self._last_seen, per worker
  pending,     \* self._pending, the gradients of the open round
  failed,      \* self._failed_reason is not None
  model,       \* the parameters: the updates applied to the initial model
  torn,        \* an optimizer step raised half-way through the parameters
  reply        \* the Message the last handle_message returned

serverVars == <<step, registered, age, pending, failed, model, torn, reply>>

-----------------------------------------------------------------------------
(* Messages. *)

Gradient == [worker : Workers, step : Nat, base : Nat]

Malformed == "malformed"

RequestTypes == {"REGISTER", "HEARTBEAT", "PULL_PARAMETERS", "PUSH_GRADIENTS",
                 "SHUTDOWN"}

(* Message types only a confused peer would send to the server. *)
OtherTypes == {"PARAMETERS", "METRICS", "ERROR"}

(* A Message a server can receive; base is the version the gradient in a   *)
(* PUSH_GRADIENTS was computed from.                                       *)
Request ==
  [type : RequestTypes \cup OtherTypes, worker : Workers \cup Strangers,
   step : Nat, payload : {"well-formed", Malformed}, base : Nat]

Codes == {"UNKNOWN_WORKER", "NOT_REGISTERED", "SCHEMA_MISMATCH", "STALE_STEP",
          "FUTURE_STEP", "DUPLICATE_GRADIENT", "INVALID_PAYLOAD",
          "UNSUPPORTED_MESSAGE", "WORKER_TIMEOUT"}

(* What handle_message returns: the type, the parameter version in the     *)
(* payload and, for PARAMETERS, how many updates the parameters hold.      *)
(* "RAISED" is an exception that leaves handle_message; "NONE" stands for   *)
(* no call yet.                                                            *)
Response ==
  [type : {"PARAMETERS"}, version : Nat, model : Nat]
    \cup [type : {"HEARTBEAT", "SHUTDOWN"}, version : Nat]
    \cup [type : {"ERROR"}, code : Codes]
    \cup [type : {"RAISED", "NONE"}]

Parameters == [type |-> "PARAMETERS", version |-> step', model |-> Len(model')]
Waiting    == [type |-> "HEARTBEAT", version |-> step]
Alive      == [type |-> "HEARTBEAT", version |-> step]
Shutdown   == [type |-> "SHUTDOWN", version |-> step]
Error(c)   == [type |-> "ERROR", code |-> c]

-----------------------------------------------------------------------------
(* Helpers. *)

Senders(gradients) == {g.worker : g \in gradients}

(* self._pending[worker] = ...: a dictionary keeps one entry per worker.   *)
Store(gradients, g) == {h \in gradients : h.worker # g.worker} \cup {g}

(* Faulty variant: a worker whose gradient is stored is never timed out. *)
TimedOutBeforePush ==
  {w \in registered \ Senders(pending) :
     HeartbeatTimeout > 0 /\ age[w] > HeartbeatTimeout}

(* Registered workers whose last request is older than the timeout.        *)
TimedOut ==
  {w \in registered : HeartbeatTimeout > 0 /\ age[w] > HeartbeatTimeout}

Seen(w) == age' = [age EXCEPT ![w] = 0]

(* What handle_message has established when it looks at the request type.  *)
InService == ~failed /\ TimedOut = {}
Admitted(req) == InService /\ req.worker \in registered

Refuse(c) == reply' = Error(c)

-----------------------------------------------------------------------------
(* The branches of handle_message. *)

Init ==
  /\ step = 0
  /\ registered = {}
  /\ age = [w \in Workers |-> 0]
  /\ pending = {}
  /\ failed = FALSE
  /\ model = <<>>
  /\ torn = FALSE
  /\ reply = [type |-> "NONE"]

(* Faulty variant: a timeout leaves the gradients of the round behind. *)
FailKeepingPending ==
  /\ failed' = (failed \/ TimedOut # {})
  /\ UNCHANGED <<step, registered, age, pending, model, torn>>

(* Faulty variant: the expired workers are forgotten, and with them the failure. *)
FailAndForget ==
  /\ failed' = (TimedOut # {})
  /\ registered' = registered \ TimedOut
  /\ pending' = {}
  /\ UNCHANGED <<step, age, model, torn>>

(* _check_timeouts_locked: the first expired worker fails the whole job.   *)
FailOnTimeout ==
  /\ failed' = (failed \/ TimedOut # {})
  /\ pending' = IF ~failed /\ TimedOut # {} THEN {} ELSE pending
  /\ UNCHANGED <<step, registered, age, model, torn>>

HandleFailed(req) ==
  /\ ~InService
  /\ FailOnTimeout
  /\ Refuse("WORKER_TIMEOUT")

HandleInvalidWorker(req) ==
  /\ InService
  /\ \/ /\ req.worker \notin Workers
        /\ Refuse("UNKNOWN_WORKER")
     \/ /\ req.worker \in Workers \ registered
        /\ req.type # "REGISTER"
        /\ Refuse("NOT_REGISTERED")
  /\ UNCHANGED <<step, registered, age, pending, failed, model, torn>>

(* Faulty variant: any id may register. *)
HandleRegisterAnyone(req) ==
  /\ InService
  /\ req.type = "REGISTER"
  /\ UNCHANGED <<step, age, pending, failed, model, torn>>
  /\ registered' = registered \cup {req.worker}
  /\ reply' = Parameters

HandleRegister(req) ==
  /\ InService
  /\ req.type = "REGISTER"
  /\ req.worker \in Workers
  /\ UNCHANGED <<step, pending, failed, model, torn>>
  /\ \/ /\ req.payload = Malformed
        /\ Refuse("SCHEMA_MISMATCH")
        /\ UNCHANGED <<registered, age>>
     \/ /\ req.payload # Malformed
        /\ registered' = registered \cup {req.worker}
        /\ Seen(req.worker)
        /\ reply' = Parameters

HandleHeartbeat(req) ==
  /\ Admitted(req)
  /\ req.type = "HEARTBEAT"
  /\ Seen(req.worker)
  /\ reply' = Alive
  /\ UNCHANGED <<step, registered, pending, failed, model, torn>>

(* Faulty variant: the bound on a requested step is off by one. *)
HandlePullEarly(req) ==
  /\ Admitted(req)
  /\ req.type = "PULL_PARAMETERS"
  /\ Seen(req.worker)
  /\ UNCHANGED <<step, registered, pending, failed, model, torn>>
  /\ IF req.step > step + 1 THEN Refuse("FUTURE_STEP") ELSE reply' = Parameters

HandlePull(req) ==
  /\ Admitted(req)
  /\ req.type = "PULL_PARAMETERS"
  /\ Seen(req.worker)
  /\ UNCHANGED <<step, registered, pending, failed, model, torn>>
  /\ \/ req.step > step + 1 /\ Refuse("FUTURE_STEP")
     \/ req.step = step + 1 /\ reply' = Waiting
     \/ req.step <= step    /\ reply' = Parameters

(* PUSH_GRADIENTS answered with an error: the worker was seen all the      *)
(* same, and nothing is stored.                                            *)
HandleBadPush(req) ==
  /\ Admitted(req)
  /\ req.type = "PUSH_GRADIENTS"
  /\ Seen(req.worker)
  /\ \/ req.step < step /\ Refuse("STALE_STEP")
     \/ req.step > step /\ Refuse("FUTURE_STEP")
     \/ /\ req.step = step
        /\ req.worker \in Senders(pending)
        /\ Refuse("DUPLICATE_GRADIENT")
     \/ /\ req.step = step
        /\ req.worker \notin Senders(pending)
        /\ req.payload = Malformed
        /\ Refuse("INVALID_PAYLOAD")
  /\ UNCHANGED <<step, registered, pending, failed, model, torn>>

(* Faulty variant: a repeated gradient is not refused. *)
AcceptableTwice(req) == req.step = step /\ req.payload # Malformed

(* The checks a gradient passes before it is stored. *)
Acceptable(req) ==
  /\ req.step = step
  /\ req.worker \notin Senders(pending)
  /\ req.payload # Malformed

(* Faulty variant: the barrier waits for the registered workers only. *)
RoundOfRegistered(gradients) == Senders(gradients) = registered

(* The round is complete when every configured worker has submitted.       *)
RoundComplete(gradients) == Senders(gradients) = Workers

Submitted(req) ==
  Store(pending, [worker |-> req.worker, step |-> req.step, base |-> req.base])

HandlePushWait(req) ==
  /\ Admitted(req)
  /\ req.type = "PUSH_GRADIENTS"
  /\ Acceptable(req)
  /\ ~RoundComplete(Submitted(req))
  /\ Seen(req.worker)
  /\ pending' = Submitted(req)
  /\ reply' = Waiting
  /\ UNCHANGED <<step, registered, failed, model, torn>>

(* _apply_pending_gradients: one optimizer step on the weighted average of *)
(* the round, then the next version opens with nothing pending.            *)
ApplyPending(gradients) ==
  /\ model' = Append(model, gradients)
  /\ step' = step + 1
  /\ pending' = {}

HandlePushComplete(req) ==
  /\ Admitted(req)
  /\ req.type = "PUSH_GRADIENTS"
  /\ Acceptable(req)
  /\ RoundComplete(Submitted(req))
  /\ Seen(req.worker)
  /\ ApplyPending(Submitted(req))
  /\ reply' = Parameters
  /\ UNCHANGED <<registered, failed, torn>>

(* The optimizer raises: the exception leaves handle_message before the    *)
(* version is advanced and before the round is cleared.                    *)
HandlePushRaises(req) ==
  /\ OptimizerMayRaise
  /\ Admitted(req)
  /\ req.type = "PUSH_GRADIENTS"
  /\ Acceptable(req)
  /\ RoundComplete(Submitted(req))
  /\ Seen(req.worker)
  /\ pending' = Submitted(req)
  /\ torn' = TRUE
  /\ reply' = [type |-> "RAISED"]
  /\ UNCHANGED <<step, registered, failed, model>>

(* SHUTDOWN is acknowledged; the worker stays registered. *)
HandleShutdown(req) ==
  /\ Admitted(req)
  /\ req.type = "SHUTDOWN"
  /\ Seen(req.worker)
  /\ reply' = Shutdown
  /\ UNCHANGED <<step, registered, pending, failed, model, torn>>

HandleUnsupported(req) ==
  /\ Admitted(req)
  /\ req.type \notin RequestTypes
  /\ Seen(req.worker)
  /\ Refuse("UNSUPPORTED_MESSAGE")
  /\ UNCHANGED <<step, registered, pending, failed, model, torn>>

HandleMessage(req) ==
  \/ HandleFailed(req)
  \/ HandleInvalidWorker(req)
  \/ HandleRegister(req)
  \/ HandleHeartbeat(req)
  \/ HandlePull(req)
  \/ HandleBadPush(req)
  \/ HandlePushWait(req)
  \/ HandlePushComplete(req)
  \/ HandlePushRaises(req)
  \/ HandleShutdown(req)
  \/ HandleUnsupported(req)

(* The public check_timeouts(), which nothing but a caller's own code runs. *)
CheckTimeouts ==
  /\ HeartbeatTimeout > 0
  /\ FailOnTimeout
  /\ UNCHANGED reply

(* Time passes for every registered worker.                                *)
Tick ==
  /\ HeartbeatTimeout > 0
  /\ age' = [w \in Workers |->
               IF w \in registered /\ age[w] <= HeartbeatTimeout
               THEN age[w] + 1 ELSE age[w]]
  /\ UNCHANGED <<step, registered, pending, failed, model, torn, reply>>

-----------------------------------------------------------------------------
(* The open server: clients may send any request at any time.              *)

CONSTANTS
  MaxStep,  \* bound of the runs: no request names a later step
  Bases     \* the versions clients compute gradients from

ASSUME ClientAssumption == MaxStep \in Nat /\ Bases \subseteq Nat

(* A field the branch of the request does not look at has one value.       *)
ClientRequest ==
  {req \in [type : RequestTypes \cup OtherTypes, worker : Workers \cup Strangers,
            step : 0 .. MaxStep, payload : {"well-formed", Malformed},
            base : Bases \cup {0}] :
     /\ req.type \notin {"PULL_PARAMETERS", "PUSH_GRADIENTS"} => req.step = 0
     /\ req.type \notin {"REGISTER", "PUSH_GRADIENTS"} => req.payload = "well-formed"
     /\ req.type # "PUSH_GRADIENTS" => req.base = 0}

Next ==
  \/ \E req \in ClientRequest : HandleMessage(req)
  \/ CheckTimeouts
  \/ Tick

Spec == Init /\ [][Next]_serverVars

-----------------------------------------------------------------------------
(* Properties. *)

(* The values every variable of the server ranges over. *)
TypeOK ==
  /\ step \in Nat
  /\ registered \subseteq Workers
  /\ age \in [Workers -> 0 .. HeartbeatTimeout + 1]
  /\ pending \subseteq Gradient
  /\ failed \in BOOLEAN
  /\ model \in Seq(SUBSET Gradient)
  /\ torn \in BOOLEAN
  /\ reply \in Response

(* One entry per worker, and one for every configured worker. *)
OnePerSender(gradients) ==
  \A g, h \in gradients : g.worker = h.worker => g = h

(* Docs promise "exactly one optimizer.step()" per step, over the gradients *)
(* of every configured worker.  So the version number counts the updates,  *)
(* and update i was averaged from exactly one gradient of each worker, all  *)
(* of them pushed for version i - 1: no straggler of an earlier round, no   *)
(* duplicate and no smaller batch, whatever the clients sent.              *)
UpdatesAreWholeRounds ==
  /\ Len(model) = step
  /\ \A i \in 1 .. Len(model) :
       /\ Senders(model[i]) = Workers
       /\ OnePerSender(model[i])
       /\ \A g \in model[i] : g.step = i - 1

(* The gradients waiting on the server belong to the open round: the       *)
(* current step, registered workers, one each; a complete round never      *)
(* waits, except after an optimizer error; and a failed job holds none.    *)
PendingIsTheOpenRound ==
  /\ \A g \in pending : g.step = step /\ g.worker \in registered
  /\ OnePerSender(pending)
  /\ RoundComplete(pending) <=> torn /\ ~failed
  /\ failed => pending = {}

(* A gradient the server accepted is never replaced, lost or applied twice: *)
(* it stays until its round is applied with it, or the job fails.          *)
AcceptedGradientsAreKept ==
  [][\A g \in pending :
       \/ g \in pending'
       \/ failed'
       \/ /\ step' = step + 1
          /\ g \in model'[step']
          /\ pending' = {}]_serverVars

(* Failure is final: after the first timeout no registration, gradient or  *)
(* update is accepted again and every request is answered WORKER_TIMEOUT.  *)
FailureIsFinal ==
  [][failed =>
       /\ failed'
       /\ UNCHANGED <<step, registered, pending, model, torn>>
       /\ reply' \in {reply, Error("WORKER_TIMEOUT")}]_serverVars
=============================================================================
