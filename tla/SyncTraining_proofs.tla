------------------------ MODULE SyncTraining_proofs -------------------------
(***************************************************************************)
(* Proofs about a distributed training job: the Parameter Server, its      *)
(* threads and the worker processes stay in lockstep, the workers' own     *)
(* protocol never trips the server's checks, and the job is sequential SGD  *)
(* over global batches, for any workers, any number of steps, any timeout, *)
(* and whoever crashes.                                                    *)
(***************************************************************************)
EXTENDS SyncTraining, ParameterServer_proofs

USE StepsAssumption, MayCrashAssumption

(* The server has the gradient of w for the version w is at, waiting or    *)
(* applied.                                                                *)
Contributed(w) == step = version[w] + 1 \/ w \in Senders(pending)

(* A worker's own state, and where it stands against the server's.         *)
PlaceOK(w) ==
  /\ replica[w] = version[w] /\ batches[w] = version[w]
  /\ step \in {version[w], version[w] + 1}
  /\ w \in Senders(pending) => step = version[w]
  /\ Contributed(w) => /\ pc[w] \in {"pushing", "sleeping", "aborted"}
                       /\ up[w].type \in {"NOTHING", "PULL_PARAMETERS"}
  /\ pc[w] \in {"starting", "computing", "sleeping"} => up[w] = Nothing /\ down[w] = Nothing
  /\ pc[w] \in {"pushing", "sleeping"} => version[w] < Steps
  /\ pc[w] \in {"computing", "pushing", "sleeping", "closing", "done"} => w \in registered

(* The request in flight is the one its worker has sent in its place, for  *)
(* the version it is at; the answer to it is still to come.                *)
RequestOK(w) ==
  /\ up[w] # Nothing => /\ up[w].worker = w
                        /\ up[w].payload = "well-formed"
                        /\ down[w] = Nothing
  /\ up[w].type = "NOTHING" => up[w] = Nothing
  /\ \/ up[w].type = "NOTHING"
     \/ up[w].type = "REGISTER" /\ pc[w] \in {"registering", "aborted"}
     \/ /\ up[w].type = "PUSH_GRADIENTS" /\ pc[w] \in {"pushing", "aborted"}
        /\ up[w].step = version[w] /\ up[w].base = version[w]
        /\ version[w] < Steps /\ w \in registered
     \/ /\ up[w].type = "PULL_PARAMETERS" /\ pc[w] \in {"pushing", "aborted"}
        /\ up[w].step = version[w] + 1 /\ w \in registered
     \/ up[w].type = "SHUTDOWN" /\ pc[w] \in {"closing", "aborted"} /\ w \in registered

(* The answer in flight is one its worker can take. *)
AnswerOK(w) ==
  /\ down[w].type = "ERROR" => down[w].code = "WORKER_TIMEOUT"
  /\ down[w].type = "PARAMETERS" =>
       /\ down[w].model = down[w].version
       /\ down[w].version >= version[w]
       /\ w \in registered
       /\ pc[w] \in {"registering", "pushing", "aborted"}
       /\ pc[w] = "registering" => down[w].version = version[w]
       /\ pc[w] = "pushing" => down[w].version = version[w] + 1 /\ step = version[w] + 1

(* Gradients are computed from the parameters they are pushed for. *)
BasesOK == \A g \in pending : g.base = g.step

WorkerOK(w) == PlaceOK(w) /\ RequestOK(w) /\ AnswerOK(w)

JobInv == RoundInv /\ JobTypeOK /\ BasesOK /\ \A w \in Workers : WorkerOK(w)

-----------------------------------------------------------------------------
(* Steps of one worker process, or of its thread, that leave the server     *)
(* alone.                                                                  *)

Local(w) ==
  /\ UNCHANGED serverVars
  /\ \A v \in Workers \ {w} :
       /\ pc'[v] = pc[v] /\ version'[v] = version[v] /\ replica'[v] = replica[v]
       /\ batches'[v] = batches[v] /\ up'[v] = up[v] /\ down'[v] = down[v]

LEMMA LocalKeeps ==
  ASSUME JobInv, NEW w \in Workers, Local(w), JobTypeOK', WorkerOK(w)'
  PROVE  JobInv'
<1>1. RoundInv'
  BY RoundStutter DEF JobInv, Local
<1>2. BasesOK'
  BY DEF JobInv, Local, BasesOK, serverVars
<1>3. ASSUME NEW v \in Workers \ {w} PROVE WorkerOK(v)'
  BY DEF JobInv, Local, serverVars, WorkerOK, PlaceOK, RequestOK, AnswerOK, Contributed, Senders
<1>4. QED
  BY <1>1, <1>2, <1>3 DEF JobInv

(* Requests. *)
LEMMA RequestsKeep ==
  ASSUME JobInv, NEW w \in Workers, Connect(w) \/ Push(w) \/ Poll(w) \/ Close(w)
  PROVE  JobInv'
<1> USE DEF JobInv
<1>1. TypeOK'
  BY RoundStutter DEF Connect, Push, Poll, Close, RoundInv
<1>2. JobTypeOK /\ WorkerOK(w) /\ step \in Nat
  BY DEF JobTypeOK, TypeOK
<1> DEFINE sent(type, s) == [type |-> type, worker |-> w, step |-> s,
                             payload |-> "well-formed", base |-> replica[w]]
<1>3. /\ UNCHANGED <<version, replica, batches, down, serverVars>>
      /\ \E type \in {"REGISTER", "PUSH_GRADIENTS", "PULL_PARAMETERS", "SHUTDOWN"},
            s \in {version[w], version[w] + 1}, l \in {"registering", "pushing", "closing"} :
           pc' = [pc EXCEPT ![w] = l] /\ up' = [up EXCEPT ![w] = sent(type, s)]
      /\ thread' \in {thread, [thread EXCEPT ![w] = "serving"]}
  BY DEF Connect, Push, Poll, Close, Goto, Send, Message
<1>4. JobTypeOK'
  <2>1. \A type \in RequestTypes, s \in {version[w], version[w] + 1} : sent(type, s) \in Request
    BY <1>2 DEF JobTypeOK, Request
  <2>2. up' \in [Workers -> Request \cup {Nothing}]
    BY <1>2, <1>3, <2>1 DEF JobTypeOK, RequestTypes
  <2>3. pc' \in [Workers -> PcStates] /\ thread' \in [Workers -> {"none", "serving", "gone"}]
    BY <1>2, <1>3 DEF JobTypeOK, PcStates
  <2>4. QED
    BY <1>1, <1>2, <1>3, <2>2, <2>3 DEF JobTypeOK
<1>5. Local(w)
  BY <1>2, <1>3 DEF Local, JobTypeOK
<1> DEFINE Sends(l, type, s) ==
             /\ pc'[w] = l /\ up'[w] = sent(type, s)
             /\ UNCHANGED <<version, replica, batches, down, step, registered, pending>>
<1>6. /\ version[w] \in Nat /\ replica[w] = version[w] /\ batches[w] = version[w]
      /\ version[w] \in 0 .. Steps
  BY <1>2 DEF WorkerOK, PlaceOK, JobTypeOK
<1>7. CASE Connect(w)
  <2>1. pc[w] = "starting" /\ Sends("registering", "REGISTER", version[w])
    BY <1>2, <1>7 DEF Connect, Goto, Send, Message, JobTypeOK, serverVars
  <2>2. WorkerOK(w)'
    BY <1>2, <1>6, <2>1 DEF WorkerOK, PlaceOK, RequestOK, AnswerOK, Contributed, Senders, Nothing
  <2>3. QED
    BY <1>4, <1>5, <2>2, LocalKeeps
<1>8. CASE Push(w)
  <2>1. pc[w] = "computing" /\ batches[w] < Steps /\ Sends("pushing", "PUSH_GRADIENTS", version[w])
    BY <1>2, <1>8 DEF Push, Goto, Send, Message, JobTypeOK, serverVars
  <2>2. WorkerOK(w)'
    BY <1>2, <1>6, <2>1 DEF WorkerOK, PlaceOK, RequestOK, AnswerOK, Contributed, Senders, Nothing
  <2>3. QED
    BY <1>4, <1>5, <2>2, LocalKeeps
<1>9. CASE Poll(w)
  <2>1. pc[w] = "sleeping" /\ Sends("pushing", "PULL_PARAMETERS", version[w] + 1)
    BY <1>2, <1>9 DEF Poll, Goto, Send, Message, JobTypeOK, serverVars
  <2>2. WorkerOK(w)'
    BY <1>2, <1>6, <2>1 DEF WorkerOK, PlaceOK, RequestOK, AnswerOK, Contributed, Senders, Nothing
  <2>3. QED
    BY <1>4, <1>5, <2>2, LocalKeeps
<1>10. CASE Close(w)
  <2>1. pc[w] = "computing" /\ Sends("closing", "SHUTDOWN", version[w])
    BY <1>2, <1>10 DEF Close, Goto, Send, Message, JobTypeOK, serverVars
  <2>2. WorkerOK(w)'
    BY <1>2, <1>6, <2>1 DEF WorkerOK, PlaceOK, RequestOK, AnswerOK, Contributed, Senders, Nothing
  <2>3. QED
    BY <1>4, <1>5, <2>2, LocalKeeps
<1>11. QED
  BY <1>7, <1>8, <1>9, <1>10

(* Answers. *)
LEMMA AnswersKeep ==
  ASSUME JobInv, NEW w \in Workers,
         ReceiveRegistered(w) \/ ReceiveUpdate(w) \/ ReceiveWaiting(w) \/ ReceiveClosed(w)
  PROVE  JobInv'
<1> USE DEF JobInv
<1>1. TypeOK'
  BY RoundStutter DEF ReceiveRegistered, ReceiveUpdate, ReceiveWaiting, ReceiveClosed, RoundInv
<1>2. JobTypeOK /\ WorkerOK(w) /\ step \in Nat
  BY DEF JobTypeOK, TypeOK
<1>3. /\ version[w] \in Nat /\ replica[w] = version[w] /\ batches[w] = version[w]
      /\ version[w] \in 0 .. Steps
      /\ down[w].type = "PARAMETERS" => down[w].version \in Nat /\ down[w].model \in Nat
      /\ down[w] \in Response \cup {Nothing}
  BY <1>2 DEF WorkerOK, PlaceOK, JobTypeOK, Response, Nothing
<1> DEFINE Takes(l, v) ==
             /\ pc' = [pc EXCEPT ![w] = l]
             /\ down' = [down EXCEPT ![w] = Nothing]
             /\ UNCHANGED <<up, thread, serverVars>>
             /\ v \in 0 .. Steps
             /\ version'[w] = v /\ replica'[w] = v /\ batches'[w] = v
             /\ version' \in {version, [version EXCEPT ![w] = v]}
             /\ replica' \in {replica, [replica EXCEPT ![w] = v]}
             /\ batches' \in {batches, [batches EXCEPT ![w] = v]}
<1>4. ASSUME NEW l \in PcStates, NEW v, Takes(l, v)
      PROVE  /\ JobTypeOK' /\ Local(w)
             /\ pc'[w] = l /\ down'[w] = Nothing
             /\ version'[w] = v /\ replica'[w] = v /\ batches'[w] = v
             /\ UNCHANGED <<up, step, registered, pending>>
  <2>1. JobTypeOK'
    BY <1>1, <1>2, <1>4 DEF JobTypeOK
  <2>2. Local(w)
    BY <1>2, <1>4 DEF Local, JobTypeOK
  <2>3. QED
    BY <1>2, <1>4, <2>1, <2>2 DEF JobTypeOK, serverVars
<1>5. ASSUME NEW l \in PcStates, NEW v, Takes(l, v), WorkerOK(w)' PROVE JobInv'
  BY <1>4, <1>5, LocalKeeps
<1>6. CASE ReceiveRegistered(w)
  <2>1. /\ pc[w] = "registering" /\ down[w].type = "PARAMETERS"
        /\ down[w].version = version[w] /\ down[w].model = version[w] /\ w \in registered
    BY <1>2, <1>6 DEF ReceiveRegistered, Accept, WorkerOK, AnswerOK
  <2>2. Takes("computing", version[w])
    BY <1>2, <1>3, <1>6, <2>1 DEF ReceiveRegistered, Accept, Goto, Consume, JobTypeOK
  <2>3. up[w] = Nothing
    BY <1>2, <2>1 DEF WorkerOK, RequestOK, Nothing
  <2>4. WorkerOK(w)'
    BY <1>2, <1>3, <1>4, <2>1, <2>2, <2>3
       DEF WorkerOK, PlaceOK, RequestOK, AnswerOK, Contributed, Senders, Nothing, PcStates
  <2>5. QED
    BY <1>5, <2>2, <2>4 DEF PcStates
<1>7. CASE ReceiveUpdate(w)
  <2>1. /\ pc[w] = "pushing" /\ down[w].type = "PARAMETERS"
        /\ down[w].version = version[w] + 1 /\ down[w].model = version[w] + 1
        /\ step = version[w] + 1 /\ w \in registered /\ version[w] < Steps
    BY <1>2, <1>7 DEF ReceiveUpdate, Accept, WorkerOK, AnswerOK, PlaceOK
  <2>2. Takes("computing", version[w] + 1)
    BY <1>2, <1>3, <1>7, <2>1 DEF ReceiveUpdate, Accept, Goto, Consume, JobTypeOK
  <2>3. up[w] = Nothing
    BY <1>2, <2>1 DEF WorkerOK, RequestOK, Nothing
  <2>4. WorkerOK(w)'
    BY <1>2, <1>3, <1>4, <2>1, <2>2, <2>3
       DEF WorkerOK, PlaceOK, RequestOK, AnswerOK, Contributed, Senders, Nothing, PcStates
  <2>5. QED
    BY <1>5, <2>2, <2>4 DEF PcStates
<1>8. CASE ReceiveWaiting(w)
  <2>1. pc[w] = "pushing" /\ down[w].type = "HEARTBEAT" /\ Takes("sleeping", version[w])
    BY <1>2, <1>3, <1>8 DEF ReceiveWaiting, Goto, Consume, JobTypeOK, WorkerOK, PlaceOK
  <2>2. up[w] = Nothing
    BY <1>2, <2>1 DEF WorkerOK, RequestOK, Nothing
  <2>3. WorkerOK(w)'
    BY <1>2, <1>3, <1>4, <2>1, <2>2
       DEF WorkerOK, PlaceOK, RequestOK, AnswerOK, Contributed, Senders, Nothing, PcStates
  <2>4. QED
    BY <1>5, <2>1, <2>3 DEF PcStates
<1>9. CASE ReceiveClosed(w)
  <2>1. pc[w] = "closing" /\ down[w].type = "SHUTDOWN" /\ Takes("done", version[w])
    BY <1>2, <1>3, <1>9 DEF ReceiveClosed, Goto, Consume, JobTypeOK, WorkerOK, PlaceOK
  <2>2. up[w] = Nothing
    BY <1>2, <2>1 DEF WorkerOK, RequestOK, Nothing
  <2>3. WorkerOK(w)'
    BY <1>2, <1>3, <1>4, <2>1, <2>2
       DEF WorkerOK, PlaceOK, RequestOK, AnswerOK, Contributed, Senders, Nothing, PcStates
  <2>4. QED
    BY <1>5, <2>1, <2>3 DEF PcStates
<1>10. QED
  BY <1>6, <1>7, <1>8, <1>9

(* Whatever ends a process, and what its thread does about it. *)
LEMMA EndsKeep ==
  ASSUME JobInv, NEW w \in Workers,
         ReceiveError(w) \/ LoseConnection(w) \/ Crash(w) \/ Disconnect(w) \/ ThreadTimeout(w)
  PROVE  JobInv'
<1> USE DEF JobInv
<1>1. /\ UNCHANGED <<version, replica, batches, serverVars>>
      /\ \/ /\ pc' = [pc EXCEPT ![w] = "aborted"]
            /\ pc[w] # "aborted"
            /\ down' \in {down, [down EXCEPT ![w] = Nothing]}
            /\ UNCHANGED <<up, thread>>
         \/ /\ pc' = pc /\ UNCHANGED down
            /\ thread' = [thread EXCEPT ![w] = "gone"]
            /\ \/ up' = up
               \/ up' = [up EXCEPT ![w] = Nothing] /\ pc[w] \in Ended
  BY DEF ReceiveError, LoseConnection, Crash, Disconnect, ThreadTimeout, Goto, Consume,
         workerVars, netVars, Awaiting, Ended
<1>2. TypeOK'
  BY <1>1, RoundStutter DEF RoundInv
<1>3. JobTypeOK /\ WorkerOK(w)
  OBVIOUS
<1>4. JobTypeOK'
  BY <1>1, <1>2, <1>3 DEF JobTypeOK, PcStates
<1>5. Local(w)
  BY <1>1, <1>3 DEF Local, JobTypeOK
<1>6. /\ UNCHANGED <<version, replica, batches, step, registered, pending>>
      /\ \/ pc'[w] = "aborted" /\ up'[w] = up[w] /\ down'[w] \in {down[w], Nothing}
         \/ /\ pc'[w] = pc[w] /\ down'[w] = down[w]
            /\ up'[w] = up[w] \/ up'[w] = Nothing
  BY <1>1, <1>3 DEF JobTypeOK, serverVars
<1>7. WorkerOK(w)'
  <2>1. CASE pc'[w] = "aborted"
    BY <1>3, <1>6, <2>1
       DEF WorkerOK, PlaceOK, RequestOK, AnswerOK, Contributed, Senders, Nothing
  <2>2. CASE pc'[w] = pc[w]
    BY <1>3, <1>6, <2>2
       DEF WorkerOK, PlaceOK, RequestOK, AnswerOK, Contributed, Senders, Nothing
  <2>3. QED
    BY <1>6, <2>1, <2>2
<1>8. QED
  BY <1>4, <1>5, <1>7, LocalKeeps

-----------------------------------------------------------------------------
(* handle_message on a request a worker has sent: of its branches only      *)
(* these can be taken.                                                     *)

Answers(w) ==
  \/ /\ up[w].type = "REGISTER"
     /\ UNCHANGED <<step, pending, failed, model, torn>>
     /\ registered' = registered \cup {w}
     /\ reply' = [type |-> "PARAMETERS", version |-> step, model |-> step]
  \/ /\ up[w].type = "PULL_PARAMETERS"
     /\ UNCHANGED <<step, registered, pending, failed, model, torn>>
     /\ \/ reply' = Waiting
        \/ /\ step = version[w] + 1
           /\ reply' = [type |-> "PARAMETERS", version |-> step, model |-> step]
  \/ /\ up[w].type = "SHUTDOWN"
     /\ UNCHANGED <<step, registered, pending, failed, model, torn>>
     /\ reply' = Shutdown

(* A gradient that is accepted. *)
Contributes(w) ==
  LET round == Submitted(up[w]) IN
  /\ up[w].type = "PUSH_GRADIENTS"
  /\ UNCHANGED <<registered, failed>>
  /\ ~failed /\ ~torn
  /\ Senders(round) = Senders(pending) \cup {w}
  /\ \A g \in round : g.step = step /\ g.base = step
  /\ \/ /\ ~RoundComplete(round)
        /\ pending' = round /\ reply' = Waiting
        /\ UNCHANGED <<step, model, torn>>
     \/ /\ RoundComplete(round) /\ OnePerSender(round) /\ round \subseteq Gradient
        /\ pending' = {} /\ step' = step + 1 /\ model' = Append(model, round)
        /\ reply' = [type |-> "PARAMETERS", version |-> step + 1, model |-> step + 1]
        /\ UNCHANGED torn
     \/ /\ RoundComplete(round)
        /\ pending' = round /\ torn' = TRUE /\ reply' = [type |-> "RAISED"]
        /\ UNCHANGED <<step, model>>

LEMMA ServerAnswers ==
  ASSUME JobInv, NEW w \in Workers, up[w] # Nothing, HandleMessage(up[w])
  PROVE  HandleFailed(up[w]) \/ Answers(w) \/ Contributes(w)
<1> DEFINE req == up[w]
<1>1. /\ req \in Request /\ req.worker = w /\ req.payload # Malformed
      /\ req.type \in {"REGISTER", "PUSH_GRADIENTS", "PULL_PARAMETERS", "SHUTDOWN"}
      /\ req.type # "REGISTER" => w \in registered
      /\ req.type = "PUSH_GRADIENTS" => /\ req.step = version[w] /\ req.base = version[w]
                                        /\ step = version[w] /\ w \notin Senders(pending)
      /\ req.type = "PULL_PARAMETERS" => req.step = version[w] + 1
      /\ step \in {version[w], version[w] + 1}
      /\ step \in Nat /\ version[w] \in Nat /\ Len(model) = step
      /\ model \in Seq(SUBSET Gradient)
  <2>1. req \in Request
    BY DEF JobInv, JobTypeOK
  <2>2. WorkerOK(w)
    BY DEF JobInv
  <2>3. req.worker = w /\ req.payload # Malformed
    BY <2>2 DEF WorkerOK, RequestOK, Malformed
  <2>4. step \in {version[w], version[w] + 1} /\ step \in Nat /\ version[w] \in Nat
    BY <2>2 DEF WorkerOK, PlaceOK, JobInv, JobTypeOK, TypeOK
  <2>5. Len(model) = step /\ model \in Seq(SUBSET Gradient)
    BY DEF JobInv, RoundInv, UpdatesAreWholeRounds, TypeOK
  <2>6. QED
    BY <2>1, <2>2, <2>3, <2>4, <2>5 DEF WorkerOK, RequestOK, PlaceOK, Contributed
<1>2. RoundInv /\ BasesOK
  BY DEF JobInv
<1> HIDE DEF req
<1>3. CASE HandleInvalidWorker(req)
  BY <1>1, <1>3 DEF HandleInvalidWorker
<1>4. CASE HandleHeartbeat(req) \/ HandleUnsupported(req)
  BY <1>1, <1>4 DEF HandleHeartbeat, HandleUnsupported, RequestTypes
<1>5. CASE HandleRegister(req)
  BY <1>1, <1>5 DEF HandleRegister, Parameters, Answers, req
<1>6. CASE HandlePull(req)
  BY <1>1, <1>6 DEF HandlePull, Parameters, Answers, req
<1>7. CASE HandleBadPush(req)
  BY <1>1, <1>7 DEF HandleBadPush
<1>8. CASE HandleShutdown(req)
  BY <1>1, <1>8 DEF HandleShutdown, Answers, req
<1>9. CASE HandlePushWait(req) \/ HandlePushComplete(req) \/ HandlePushRaises(req)
  <2>1. Admitted(req) /\ Acceptable(req) /\ req.type = "PUSH_GRADIENTS"
    BY <1>9 DEF HandlePushWait, HandlePushComplete, HandlePushRaises
  <2>2. /\ Submitted(req) \subseteq Gradient
        /\ Senders(Submitted(req)) = Senders(pending) \cup {w}
        /\ OnePerSender(Submitted(req))
        /\ \A g \in Submitted(req) : g.step = step
        /\ ~torn /\ ~failed
    BY <1>1, <1>2, <2>1, StoreAccepted DEF Admitted, InService
  <2>3. \A g \in Submitted(req) : g.base = step
    BY <1>1, <1>2, <2>1, <2>2 DEF BasesOK, Submitted, Store
  <2>4. CASE HandlePushWait(req)
    BY <2>1, <2>2, <2>3, <2>4 DEF HandlePushWait, Contributes, req
  <2>5. CASE HandlePushComplete(req)
    <3>1. Len(model') = step + 1 /\ step' = step + 1
      <4>1. model' = Append(model, Submitted(req)) /\ step' = step + 1
        BY <2>5 DEF HandlePushComplete, ApplyPending
      <4>2. QED
        BY <1>1, <2>2, <4>1
    <3>2. QED
      BY <2>1, <2>2, <2>3, <2>5, <3>1
         DEF HandlePushComplete, ApplyPending, Parameters, Contributes, req
  <2>6. CASE HandlePushRaises(req)
    BY <2>1, <2>2, <2>3, <2>6 DEF HandlePushRaises, Contributes, req
  <2>7. QED
    BY <1>9, <2>4, <2>5, <2>6
<1>10. QED
  BY <1>3, <1>4, <1>5, <1>6, <1>7, <1>8, <1>9 DEF HandleMessage, req

(* What the call does to a worker, whoever's request it was. *)
LEMMA ServeElsewhere ==
  ASSUME JobInv, NEW w \in Workers, Serve(w), NEW v \in Workers, v # w
  PROVE  WorkerOK(v)'
<1>1. HandleFailed(up[w]) \/ Answers(w) \/ Contributes(w)
  BY ServerAnswers DEF Serve
<1>2. /\ pc'[v] = pc[v] /\ version'[v] = version[v] /\ replica'[v] = replica[v]
      /\ batches'[v] = batches[v] /\ up'[v] = up[v] /\ down'[v] = down[v]
  BY DEF Serve, workerVars, JobInv, JobTypeOK
<1>3. /\ registered \subseteq registered'
      /\ \/ step' = step /\ (v \in Senders(pending') => v \in Senders(pending))
         \/ step' = step + 1 /\ pending' = {} /\ v \in Senders(pending)
  <2>1. CASE HandleFailed(up[w])
    BY <2>1 DEF HandleFailed, FailOnTimeout, Senders
  <2>2. CASE Answers(w)
    BY <2>2 DEF Answers, Senders
  <2>3. CASE Contributes(w)
    BY <2>3 DEF Contributes, RoundComplete, Senders
  <2>4. QED
    BY <1>1, <2>1, <2>2, <2>3
<1>4. WorkerOK(v) /\ step \in Nat /\ version[v] \in Nat
  BY DEF JobInv, JobTypeOK, TypeOK
<1>5. PlaceOK(v)'
  <2>1. CASE step' = step
    BY <1>2, <1>3, <1>4, <2>1 DEF WorkerOK, PlaceOK, Contributed
  <2>2. CASE step' = step + 1 /\ pending' = {} /\ v \in Senders(pending)
    <3>1. v \notin Senders(pending')
      BY <2>2 DEF Senders
    <3>2. QED
      BY <1>2, <1>3, <1>4, <2>2, <3>1 DEF WorkerOK, PlaceOK, Contributed
  <2>3. QED
    BY <1>3, <2>1, <2>2
<1>6. RequestOK(v)'
  BY <1>2, <1>3, <1>4 DEF WorkerOK, RequestOK
<1>7. AnswerOK(v)'
  BY <1>2, <1>3, <1>4 DEF WorkerOK, AnswerOK, PlaceOK
<1>8. QED
  BY <1>5, <1>6, <1>7 DEF WorkerOK

LEMMA ServeItself ==
  ASSUME JobInv, NEW w \in Workers, Serve(w)
  PROVE  WorkerOK(w)'
<1>1. HandleFailed(up[w]) \/ Answers(w) \/ Contributes(w)
  BY ServerAnswers DEF Serve
<1>2. /\ pc'[w] = pc[w] /\ version'[w] = version[w] /\ replica'[w] = replica[w]
      /\ batches'[w] = batches[w] /\ up'[w] = Nothing /\ down[w] = Nothing
      /\ down'[w] = IF reply'.type = "RAISED" \/ pc[w] \in Ended THEN Nothing ELSE reply'
  BY DEF Serve, workerVars, JobInv, JobTypeOK, WorkerOK, RequestOK
<1>3. /\ WorkerOK(w) /\ step \in Nat /\ version[w] \in Nat
      /\ up[w] # Nothing /\ up[w].type # "NOTHING"
  BY DEF JobInv, JobTypeOK, TypeOK, Serve, WorkerOK, RequestOK
<1>4. RequestOK(w)'
  BY <1>2 DEF RequestOK, Nothing
<1>5. CASE HandleFailed(up[w])
  <2>1. /\ UNCHANGED <<step, registered>> /\ pending' \in {pending, {}}
        /\ reply' = [type |-> "ERROR", code |-> "WORKER_TIMEOUT"]
    BY <1>5 DEF HandleFailed, FailOnTimeout, Refuse, Error
  <2>2. w \in Senders(pending') => w \in Senders(pending)
    BY <2>1 DEF Senders
  <2>3. PlaceOK(w)'
    BY <1>2, <1>3, <2>1, <2>2 DEF WorkerOK, PlaceOK, RequestOK, Contributed, Nothing
  <2>4. AnswerOK(w)'
    BY <1>2, <2>1 DEF AnswerOK, Nothing
  <2>5. QED
    BY <1>4, <2>3, <2>4 DEF WorkerOK
<1>6. CASE Answers(w)
  <2>1. UNCHANGED <<step, pending>> /\ registered \subseteq registered'
    BY <1>6 DEF Answers
  <2>2. PlaceOK(w)'
    BY <1>2, <1>3, <2>1 DEF WorkerOK, PlaceOK, RequestOK, Contributed, Senders, Nothing
  <2>3. AnswerOK(w)'
    BY <1>2, <1>3, <1>6
       DEF Answers, AnswerOK, WorkerOK, PlaceOK, RequestOK, Contributed, Waiting, Shutdown,
           Nothing, Ended
  <2>4. QED
    BY <1>4, <2>2, <2>3 DEF WorkerOK
<1>7. CASE Contributes(w)
  <2>1. /\ pc[w] \in {"pushing", "aborted"} /\ step = version[w] /\ w \in registered
        /\ registered' = registered
    BY <1>3, <1>7 DEF Contributes, WorkerOK, RequestOK, PlaceOK, Contributed
  <2>2. \/ step' = step /\ reply' \in {Waiting, [type |-> "RAISED"]}
        \/ /\ step' = step + 1 /\ pending' = {}
           /\ reply' = [type |-> "PARAMETERS", version |-> step + 1, model |-> step + 1]
    BY <1>7 DEF Contributes
  <2>3. PlaceOK(w)'
    BY <1>2, <1>3, <2>1, <2>2 DEF WorkerOK, PlaceOK, Contributed, Senders, Nothing
  <2>4. AnswerOK(w)'
    BY <1>2, <1>3, <2>1, <2>2 DEF AnswerOK, Waiting, Nothing, Ended
  <2>5. QED
    BY <1>4, <2>3, <2>4 DEF WorkerOK
<1>8. QED
  BY <1>1, <1>5, <1>6, <1>7

LEMMA ServeKeeps ==
  ASSUME JobInv, NEW w \in Workers, Serve(w)
  PROVE  JobInv'
<1>1. up[w] \in Request /\ up[w] # Nothing
  BY DEF JobInv, JobTypeOK, Serve
<1>2. RoundInv'
  BY <1>1, RoundHandle DEF JobInv, Serve
<1>3. JobTypeOK'
  <2>1. TypeOK' /\ reply' \in Response
    BY <1>2 DEF RoundInv, TypeOK
  <2>2. QED
    BY <2>1 DEF JobInv, JobTypeOK, Serve, workerVars
<1>4. BasesOK'
  <2>1. HandleFailed(up[w]) \/ Answers(w) \/ Contributes(w)
    BY <1>1, ServerAnswers DEF Serve
  <2>2. CASE HandleFailed(up[w])
    BY <2>2 DEF JobInv, BasesOK, HandleFailed, FailOnTimeout
  <2>3. CASE Answers(w)
    BY <2>3 DEF JobInv, BasesOK, Answers
  <2>4. CASE Contributes(w)
    BY <2>4 DEF BasesOK, Contributes
  <2>5. QED
    BY <2>1, <2>2, <2>3, <2>4
<1>5. QED
  BY <1>2, <1>3, <1>4, ServeElsewhere, ServeItself DEF JobInv

-----------------------------------------------------------------------------
LEMMA StartsInLockstep == JobInit => JobInv
<1> SUFFICES ASSUME JobInit PROVE JobInv
  OBVIOUS
<1>1. RoundInv
  BY RoundInit DEF JobInit
<1>2. JobTypeOK
  BY <1>1 DEF RoundInv, JobInit, JobTypeOK, PcStates
<1>3. BasesOK
  BY DEF JobInit, Init, BasesOK
<1>4. ASSUME NEW w \in Workers PROVE WorkerOK(w)
  BY DEF JobInit, Init, WorkerOK, PlaceOK, RequestOK, AnswerOK, Contributed, Senders, Nothing
<1>5. QED
  BY <1>1, <1>2, <1>3, <1>4 DEF JobInv

LEMMA StaysInLockstep == JobInv /\ [JobNext]_vars => JobInv'
<1> SUFFICES ASSUME JobInv, [JobNext]_vars PROVE JobInv'
  OBVIOUS
<1>1. CASE UNCHANGED vars
  <2>1. RoundInv'
    BY <1>1, RoundStutter DEF JobInv, vars
  <2>2. JobTypeOK' /\ BasesOK'
    BY <1>1, <2>1 DEF JobInv, RoundInv, JobTypeOK, BasesOK, vars, workerVars, netVars, serverVars
  <2>3. ASSUME NEW w \in Workers PROVE WorkerOK(w)'
    BY <1>1 DEF JobInv, WorkerOK, PlaceOK, RequestOK, AnswerOK, Contributed, Senders,
                vars, workerVars, netVars, serverVars
  <2>4. QED
    BY <2>1, <2>2, <2>3 DEF JobInv
<1>2. CASE Time
  <2>1. RoundInv'
    BY <1>2, RoundTime DEF JobInv, Time
  <2>2. JobTypeOK' /\ BasesOK'
    BY <1>2, <2>1 DEF JobInv, RoundInv, JobTypeOK, BasesOK, Time, Tick, workerVars, netVars
  <2>3. ASSUME NEW w \in Workers PROVE WorkerOK(w)'
    BY <1>2 DEF JobInv, WorkerOK, PlaceOK, RequestOK, AnswerOK, Contributed, Senders,
                Time, Tick, workerVars, netVars
  <2>4. QED
    BY <2>1, <2>2, <2>3 DEF JobInv
<1>3. ASSUME NEW w \in Workers,
             WorkerStep(w) \/ Crash(w) \/ ThreadStep(w) \/ ThreadTimeout(w)
      PROVE  JobInv'
  BY <1>3, RequestsKeep, AnswersKeep, EndsKeep, ServeKeeps DEF WorkerStep, ThreadStep
<1>4. QED
  BY <1>1, <1>2, <1>3 DEF JobNext

LEMMA JobInvariant == JobSpec => []JobInv
BY StartsInLockstep, StaysInLockstep, PTL DEF JobSpec

(* Every variable of workers, connections and server keeps its type.       *)
THEOREM JobTypes == JobSpec => []JobTypeOK
<1>1. JobInv => JobTypeOK
  BY DEF JobInv
<1>2. QED
  BY <1>1, JobInvariant, PTL

(* A worker's step counts the batches it has finished and the updates in    *)
(* its model, and the server is at most one update ahead of it.            *)
THEOREM WorkersInLockstep == JobSpec => []Lockstep
<1>1. JobInv => Lockstep
  BY DEF JobInv, WorkerOK, PlaceOK, Lockstep
<1>2. QED
  BY <1>1, JobInvariant, PTL

(* No request of a real worker is refused but for a timeout, and no worker  *)
(* is answered with a version it cannot take.                              *)
THEOREM ProtocolRespected == JobSpec => []OnlyTimeoutsAreReported
<1>1. JobInv => OnlyTimeoutsAreReported
  BY DEF JobInv, WorkerOK, AnswerOK, OnlyTimeoutsAreReported
<1>2. QED
  BY <1>1, JobInvariant, PTL

-----------------------------------------------------------------------------
(* A complete round is the global batch's gradient at the server's version. *)
LEMMA RoundIsGlobalGradient ==
  ASSUME NEW round \in SUBSET Gradient, Senders(round) = Workers, step \in Nat,
         \A g \in round : g.step = step /\ g.base = step
  PROVE  round = SGD!GlobalGradient(step)
<1> DEFINE G(w) == [worker |-> w, step |-> step, base |-> step]
<1>1. \A g \in round : g = G(g.worker) /\ g.worker \in Workers
  BY DEF Gradient
<1>2. \A w \in Workers : \E g \in round : g.worker = w
  BY DEF Senders
<1>3. \A w \in Workers : G(w) \in round
  BY <1>1, <1>2
<1>4. SGD!GlobalGradient(step) = {G(w) : w \in Workers}
  BY DEF SGD!GlobalGradient
<1>5. QED
  BY <1>1, <1>3, <1>4

(* Every step of the job is an update, a stop, or neither.                 *)
LEMMA ServeIsSequential ==
  ASSUME JobInv, NEW w \in Workers, Serve(w)
  PROVE  SGD!Next \/ UNCHANGED <<model, failed \/ torn>>
<1>1. HandleFailed(up[w]) \/ Answers(w) \/ Contributes(w)
  BY ServerAnswers DEF Serve
<1>2. /\ Len(model) = step /\ step \in Nat /\ failed \in BOOLEAN /\ torn \in BOOLEAN
      /\ WorkerOK(w)
  BY DEF JobInv, RoundInv, UpdatesAreWholeRounds, TypeOK
<1>3. CASE HandleFailed(up[w])
  BY <1>2, <1>3 DEF HandleFailed, FailOnTimeout, SGD!Next, SGD!Stop
<1>4. CASE Answers(w)
  BY <1>4 DEF Answers
<1>5. CASE Contributes(w)
  <2> DEFINE round == Submitted(up[w])
  <2>1. ~(failed \/ torn)
    BY <1>5 DEF Contributes
  <2>2. step < Steps
    BY <1>2, <1>5 DEF Contributes, WorkerOK, RequestOK, PlaceOK, Contributed
  <2>3. CASE model' = model
    BY <1>5, <2>1, <2>3 DEF Contributes, SGD!Next, SGD!Stop
  <2>4. CASE model' # model
    <3>1. /\ model' = Append(model, round) /\ UNCHANGED <<failed, torn>>
          /\ round \in SUBSET Gradient /\ Senders(round) = Workers
          /\ \A g \in round : g.step = step /\ g.base = step
      BY <1>5, <2>4 DEF Contributes, RoundComplete
    <3>2. round = SGD!GlobalGradient(step)
      BY <1>2, <3>1, RoundIsGlobalGradient
    <3>3. SGD!Update
      BY <1>2, <2>1, <2>2, <3>1, <3>2 DEF SGD!Update
    <3>4. QED
      BY <3>3 DEF SGD!Next
  <2>5. QED
    BY <2>3, <2>4
<1>6. QED
  BY <1>1, <1>3, <1>4, <1>5

(* A training job is sequential SGD over global batches: the docs' "exactly *)
(* one optimizer step" per global batch, each gradient computed from the   *)
(* very parameters it is applied to, and no update after a failure.        *)
THEOREM TrainingIsSequential == JobSpec => SequentialTraining
<1>1. JobInit => SGD!Init
  BY DEF JobInit, Init, SGD!Init
<1>2. JobInv /\ [JobNext]_vars => [SGD!Next]_(SGD!sgdVars)
  <2> SUFFICES ASSUME JobInv, [JobNext]_vars
               PROVE  SGD!Next \/ UNCHANGED <<model, failed \/ torn>>
    BY DEF SGD!sgdVars
  <2>1. CASE UNCHANGED vars
    BY <2>1 DEF vars, serverVars
  <2>2. CASE Time
    BY <2>2 DEF Time, Tick
  <2>3. ASSUME NEW w \in Workers, Serve(w)
        PROVE  SGD!Next \/ UNCHANGED <<model, failed \/ torn>>
    BY <2>3, ServeIsSequential
  <2>4. ASSUME NEW w \in Workers,
               WorkerStep(w) \/ Crash(w) \/ Disconnect(w) \/ ThreadTimeout(w)
        PROVE  UNCHANGED <<model, failed \/ torn>>
    BY <2>4 DEF WorkerStep, Crash, Disconnect, ThreadTimeout, Connect, Push, Poll, Close,
                ReceiveRegistered, ReceiveUpdate, ReceiveWaiting, ReceiveClosed, ReceiveError,
                LoseConnection, serverVars
  <2>5. QED
    BY <2>1, <2>2, <2>3, <2>4 DEF JobNext, ThreadStep
<1>3. QED
  BY <1>1, <1>2, JobInvariant, PTL DEF JobSpec, SequentialTraining, SGD!Spec
=============================================================================
