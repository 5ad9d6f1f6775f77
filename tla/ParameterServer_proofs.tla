------------------------ MODULE ParameterServer_proofs ------------------------
(***************************************************************************)
(* Proofs about the open Parameter Server: whatever its clients send, it   *)
(* applies whole rounds only, keeps the gradients it accepted, and never   *)
(* comes back from a failure.  For any set of workers, any timeout and any *)
(* bound on the steps that requests name.                                  *)
(***************************************************************************)
EXTENDS ParameterServer, TLAPS

USE WorkersAssumption, StrangersAssumption, TimeoutAssumption,
    OptimizerAssumption, ClientAssumption

(* What a request of an open client looks like. *)
LEMMA ClientRequestType ==
  ASSUME NEW req \in ClientRequest
  PROVE  req \in Request
<1>1. 0 .. MaxStep \subseteq Nat /\ Bases \cup {0} \subseteq Nat
  OBVIOUS
<1>2. QED
  BY <1>1 DEF ClientRequest, Request

(* The four ways a call can touch the server's state.  Every branch of      *)
(* handle_message is one of them, which is what the proofs split on.       *)
Touch(req) ==
  /\ UNCHANGED <<step, pending, failed, model, torn>>
  /\ registered' \in {registered, registered \cup {req.worker}}
  /\ req.worker \notin Workers => registered' = registered
  /\ \/ age' = age
     \/ req.worker \in Workers /\ age' = [age EXCEPT ![req.worker] = 0]
  /\ reply' \in Response
  /\ failed => FALSE

(* A request that is answered without touching the round. *)
LEMMA TouchOrPush ==
  ASSUME TypeOK, NEW req \in Request, HandleMessage(req)
  PROVE  \/ HandleFailed(req)
         \/ Touch(req)
         \/ HandlePushWait(req)
         \/ HandlePushComplete(req)
         \/ HandlePushRaises(req)
<1> USE DEF TypeOK, Touch, Response, Codes, InService, Refuse, Error, Seen, Admitted
<1>1. CASE HandleFailed(req)
  BY <1>1
<1>2. CASE HandleInvalidWorker(req)
  BY <1>2 DEF HandleInvalidWorker
<1>3. CASE HandleRegister(req)
  BY <1>3 DEF HandleRegister, Parameters
<1>4. CASE HandleHeartbeat(req)
  BY <1>4 DEF HandleHeartbeat, Alive
<1>5. CASE HandlePull(req)
  BY <1>5 DEF HandlePull, Waiting, Parameters
<1>6. CASE HandleBadPush(req)
  BY <1>6 DEF HandleBadPush
<1>7. CASE HandleShutdown(req)
  BY <1>7 DEF HandleShutdown, Shutdown
<1>8. CASE HandleUnsupported(req)
  BY <1>8 DEF HandleUnsupported
<1>9. QED
  BY <1>1, <1>2, <1>3, <1>4, <1>5, <1>6, <1>7, <1>8 DEF HandleMessage

-----------------------------------------------------------------------------
(* Type correctness. *)

LEMMA TypeInit == Init => TypeOK
<1> SUFFICES ASSUME Init PROVE TypeOK
  OBVIOUS
<1>1. model \in Seq(SUBSET Gradient)
  BY DEF Init
<1>2. age \in [Workers -> 0 .. HeartbeatTimeout + 1]
  BY DEF Init
<1>3. reply \in Response
  BY DEF Init, Response
<1>4. QED
  BY <1>1, <1>2, <1>3 DEF Init, TypeOK

LEMMA TypeHandle ==
  ASSUME TypeOK, NEW req \in Request, HandleMessage(req)
  PROVE  TypeOK'
<1> USE DEF TypeOK
<1>1. CASE HandleFailed(req)
  BY <1>1 DEF HandleFailed, FailOnTimeout, Refuse, Error, Response, Codes
<1>2. CASE Touch(req)
  BY <1>2 DEF Touch
<1> DEFINE g == [worker |-> req.worker, step |-> req.step, base |-> req.base]
<1>3. ASSUME Admitted(req) PROVE g \in Gradient /\ Submitted(req) \subseteq Gradient
  BY <1>3 DEF Admitted, Gradient, Submitted, Store, Request
<1>4. CASE HandlePushWait(req)
  BY <1>3, <1>4 DEF HandlePushWait, Seen, Admitted, Waiting, Response
<1>5. CASE HandlePushComplete(req)
  BY <1>3, <1>5 DEF HandlePushComplete, ApplyPending, Seen, Admitted, Parameters, Response
<1>6. CASE HandlePushRaises(req)
  BY <1>3, <1>6 DEF HandlePushRaises, Seen, Admitted, Response
<1>7. QED
  BY <1>1, <1>2, <1>4, <1>5, <1>6, TouchOrPush

LEMMA TypeTime ==
  ASSUME TypeOK, CheckTimeouts \/ Tick
  PROVE  TypeOK'
<1> USE DEF TypeOK
<1>1. CASE CheckTimeouts
  BY <1>1 DEF CheckTimeouts, FailOnTimeout
<1>2. CASE Tick
  BY <1>2 DEF Tick
<1>3. QED
  BY <1>1, <1>2

(* Every variable of the server keeps its type. *)
THEOREM TypeCorrect == Spec => []TypeOK
<1>1. Init => TypeOK
  BY TypeInit
<1>2. TypeOK /\ [Next]_serverVars => TypeOK'
  <2>1. CASE UNCHANGED serverVars
    BY <2>1 DEF serverVars, TypeOK
  <2>2. ASSUME TypeOK, Next PROVE TypeOK'
    BY <2>2, TypeHandle, TypeTime, ClientRequestType DEF Next
  <2>3. QED
    BY <2>1, <2>2
<1>3. QED
  BY <1>1, <1>2, PTL DEF Spec

-----------------------------------------------------------------------------
(* The round.  UpdatesAreWholeRounds is inductive only together with what   *)
(* holds of the gradients still waiting.                                   *)

RoundInv == TypeOK /\ UpdatesAreWholeRounds /\ PendingIsTheOpenRound

(* What a stored gradient adds to the round, once the checks have passed.  *)
LEMMA StoreAccepted ==
  ASSUME RoundInv, NEW req \in Request, Admitted(req), Acceptable(req)
  PROVE  /\ Submitted(req) \subseteq Gradient
         /\ Senders(Submitted(req)) = Senders(pending) \cup {req.worker}
         /\ OnePerSender(Submitted(req))
         /\ \A g \in Submitted(req) : g.step = step /\ g.worker \in registered
         /\ pending \subseteq Submitted(req)
         /\ ~torn
<1> DEFINE new == [worker |-> req.worker, step |-> req.step, base |-> req.base]
<1>1. /\ req.worker \in registered
      /\ registered \subseteq Workers
      /\ req.step = step
      /\ req.worker \notin Senders(pending)
      /\ ~failed
  BY DEF RoundInv, TypeOK, Admitted, InService, Acceptable
<1>2. new \in Gradient
  BY <1>1 DEF Gradient, Request
<1>3. \A g \in pending : g.worker # req.worker
  BY <1>1 DEF Senders
<1>4. Submitted(req) = pending \cup {new}
  BY <1>3 DEF Submitted, Store
<1>5. Senders(Submitted(req)) = Senders(pending) \cup {req.worker}
  <2>1. new.worker = req.worker
    OBVIOUS
  <2>2. Senders(pending \cup {new}) = Senders(pending) \cup {new.worker}
    <3> HIDE DEF new
    <3>1. QED
      BY DEF Senders
  <2>3. QED
    BY <1>4, <2>1, <2>2
<1>6. OnePerSender(Submitted(req))
  BY <1>3, <1>4 DEF OnePerSender, RoundInv, PendingIsTheOpenRound
<1>7. \A g \in Submitted(req) : g.step = step /\ g.worker \in registered
  BY <1>1, <1>4 DEF RoundInv, PendingIsTheOpenRound
<1>8. ~torn
  BY <1>1 DEF RoundInv, PendingIsTheOpenRound, RoundComplete
<1>9. QED
  BY <1>2, <1>4, <1>5, <1>6, <1>7, <1>8 DEF RoundInv, TypeOK

LEMMA EmptyRound ==
  ~RoundComplete({}) /\ OnePerSender({})
  BY DEF RoundComplete, Senders, OnePerSender

LEMMA RoundInit == Init => RoundInv
<1> SUFFICES ASSUME Init PROVE RoundInv
  OBVIOUS
<1>1. TypeOK
  BY TypeInit
<1>2. UpdatesAreWholeRounds
  BY DEF Init, UpdatesAreWholeRounds
<1>3. PendingIsTheOpenRound
  BY EmptyRound DEF Init, PendingIsTheOpenRound
<1>4. QED
  BY <1>1, <1>2, <1>3 DEF RoundInv

(* A completed round becomes the next update. *)
LEMMA ApplyRound ==
  ASSUME RoundInv, NEW req \in Request, HandlePushComplete(req)
  PROVE  UpdatesAreWholeRounds'
<1> DEFINE round == Submitted(req)
<1>1. /\ model' = Append(model, round)
      /\ step' = step + 1
      /\ Senders(round) = Workers
  BY DEF HandlePushComplete, ApplyPending, RoundComplete
<1>2. OnePerSender(round) /\ (\A g \in round : g.step = step)
  BY StoreAccepted DEF HandlePushComplete
<1>3. model \in Seq(SUBSET Gradient) /\ step = Len(model) /\ step \in Nat
  BY DEF RoundInv, TypeOK, UpdatesAreWholeRounds
<1>4. /\ Len(model') = Len(model) + 1
      /\ model'[Len(model) + 1] = round
      /\ \A i \in 1 .. Len(model) : model'[i] = model[i]
  BY <1>1, <1>3
<1>5. ASSUME NEW i \in 1 .. Len(model')
      PROVE  /\ Senders(model'[i]) = Workers
             /\ OnePerSender(model'[i])
             /\ \A g \in model'[i] : g.step = i - 1
  <2>1. CASE i \in 1 .. Len(model)
    BY <2>1, <1>4 DEF RoundInv, UpdatesAreWholeRounds
  <2>2. CASE i = Len(model) + 1
    BY <2>2, <1>1, <1>2, <1>3, <1>4
  <2>3. QED
    BY <1>3, <1>4, <2>1, <2>2
<1>6. QED
  BY <1>1, <1>3, <1>4, <1>5 DEF UpdatesAreWholeRounds

LEMMA RoundHandle ==
  ASSUME RoundInv, NEW req \in Request, HandleMessage(req)
  PROVE  RoundInv'
<1>1. TypeOK'
  BY TypeHandle DEF RoundInv
<1>2. CASE HandleFailed(req)
  BY <1>1, <1>2, EmptyRound
     DEF HandleFailed, FailOnTimeout, InService, RoundInv, UpdatesAreWholeRounds,
         PendingIsTheOpenRound, RoundComplete, Senders, OnePerSender
<1>3. CASE Touch(req)
  BY <1>1, <1>3
     DEF Touch, RoundInv, UpdatesAreWholeRounds, PendingIsTheOpenRound,
         RoundComplete, Senders, OnePerSender
<1>4. CASE HandlePushWait(req)
  <2>1. UpdatesAreWholeRounds'
    BY <1>4 DEF HandlePushWait, RoundInv, UpdatesAreWholeRounds
  <2>2. PendingIsTheOpenRound'
    BY <1>4, StoreAccepted
       DEF HandlePushWait, Admitted, InService, PendingIsTheOpenRound, RoundComplete,
           OnePerSender
  <2>3. QED
    BY <1>1, <2>1, <2>2 DEF RoundInv
<1>5. CASE HandlePushComplete(req)
  <2>1. UpdatesAreWholeRounds'
    BY <1>5, ApplyRound
  <2>2. PendingIsTheOpenRound'
    BY <1>5, StoreAccepted, EmptyRound
       DEF HandlePushComplete, ApplyPending, PendingIsTheOpenRound, RoundComplete,
           OnePerSender
  <2>3. QED
    BY <1>1, <2>1, <2>2 DEF RoundInv
<1>6. CASE HandlePushRaises(req)
  <2>1. UpdatesAreWholeRounds'
    BY <1>6 DEF HandlePushRaises, RoundInv, UpdatesAreWholeRounds
  <2>2. PendingIsTheOpenRound'
    BY <1>6, StoreAccepted
       DEF HandlePushRaises, Admitted, InService, PendingIsTheOpenRound, RoundComplete,
           OnePerSender
  <2>3. QED
    BY <1>1, <2>1, <2>2 DEF RoundInv
<1>7. QED
  BY <1>2, <1>3, <1>4, <1>5, <1>6, TouchOrPush DEF RoundInv

LEMMA RoundTime ==
  ASSUME RoundInv, CheckTimeouts \/ Tick
  PROVE  RoundInv'
<1>1. TypeOK'
  BY TypeTime DEF RoundInv
<1>2. CASE CheckTimeouts
  BY <1>1, <1>2, EmptyRound
     DEF CheckTimeouts, FailOnTimeout, RoundInv, UpdatesAreWholeRounds,
         PendingIsTheOpenRound, RoundComplete, Senders, OnePerSender
<1>3. CASE Tick
  BY <1>1, <1>3
     DEF Tick, RoundInv, UpdatesAreWholeRounds, PendingIsTheOpenRound,
         RoundComplete, Senders, OnePerSender
<1>4. QED
  BY <1>2, <1>3

LEMMA RoundStutter == RoundInv /\ UNCHANGED serverVars => RoundInv'
  BY DEF serverVars, RoundInv, TypeOK, UpdatesAreWholeRounds,
         PendingIsTheOpenRound, RoundComplete, Senders, OnePerSender

LEMMA RoundInvariant == Spec => []RoundInv
<1>1. Init => RoundInv
  BY RoundInit
<1>2. RoundInv /\ [Next]_serverVars => RoundInv'
  BY RoundHandle, RoundTime, RoundStutter, ClientRequestType DEF Next
<1>3. QED
  BY <1>1, <1>2, PTL DEF Spec

(* Every version of the parameters is one optimizer step on exactly one    *)
(* gradient of every configured worker, all pushed for that version.       *)
THEOREM WholeRounds == Spec => []UpdatesAreWholeRounds
<1>1. RoundInv => UpdatesAreWholeRounds
  BY DEF RoundInv
<1>2. QED
  BY <1>1, RoundInvariant, PTL

(* The gradients on the server are those of the open round. *)
THEOREM OpenRound == Spec => []PendingIsTheOpenRound
<1>1. RoundInv => PendingIsTheOpenRound
  BY DEF RoundInv
<1>2. QED
  BY <1>1, RoundInvariant, PTL

-----------------------------------------------------------------------------
(* Action properties. *)

LEMMA KeepStep ==
  ASSUME RoundInv, [Next]_serverVars, NEW g \in pending
  PROVE  \/ g \in pending'
         \/ failed'
         \/ step' = step + 1 /\ g \in model'[step'] /\ pending' = {}
<1>1. CASE UNCHANGED serverVars
  BY <1>1 DEF serverVars
<1>2. CASE CheckTimeouts
  BY <1>2 DEF CheckTimeouts, FailOnTimeout
<1>3. CASE Tick
  BY <1>3 DEF Tick
<1>4. ASSUME NEW req \in ClientRequest, HandleMessage(req)
      PROVE  \/ g \in pending'
             \/ failed'
             \/ step' = step + 1 /\ g \in model'[step'] /\ pending' = {}
  <2> req \in Request
    BY ClientRequestType
  <2>1. CASE HandleFailed(req)
    BY <2>1 DEF HandleFailed, FailOnTimeout
  <2>2. CASE Touch(req)
    BY <2>2 DEF Touch
  <2>3. CASE HandlePushWait(req)
    BY <2>3, StoreAccepted DEF HandlePushWait
  <2>4. CASE HandlePushComplete(req)
    <3>1. /\ model' = Append(model, Submitted(req)) /\ step' = step + 1 /\ pending' = {}
          /\ g \in Submitted(req)
      BY <2>4, StoreAccepted DEF HandlePushComplete, ApplyPending
    <3>2. model \in Seq(SUBSET Gradient) /\ step = Len(model)
      BY DEF RoundInv, TypeOK, UpdatesAreWholeRounds
    <3>3. QED
      BY <3>1, <3>2
  <2>5. CASE HandlePushRaises(req)
    BY <2>5, StoreAccepted DEF HandlePushRaises
  <2>6. QED
    BY <1>4, <2>1, <2>2, <2>3, <2>4, <2>5, TouchOrPush DEF RoundInv
<1>5. QED
  BY <1>1, <1>2, <1>3, <1>4 DEF Next

(* An accepted gradient stays until its round is applied or the job fails. *)
THEOREM GradientsKept == Spec => AcceptedGradientsAreKept
<1>1. RoundInv /\ [Next]_serverVars =>
        [\A g \in pending :
           \/ g \in pending'
           \/ failed'
           \/ /\ step' = step + 1
              /\ g \in model'[step']
              /\ pending' = {}]_serverVars
  BY KeepStep
<1>2. QED
  BY <1>1, RoundInvariant, PTL DEF Spec, AcceptedGradientsAreKept

(* After the first timeout nothing is accepted any more. *)
THEOREM FailureFinal == Spec => FailureIsFinal
<1> DEFINE Final == /\ failed'
                    /\ UNCHANGED <<step, registered, pending, model, torn>>
                    /\ reply' \in {reply, Error("WORKER_TIMEOUT")}
<1>1. TypeOK /\ Next => (failed => Final)
  <2> SUFFICES ASSUME TypeOK, Next, failed PROVE Final
    OBVIOUS
  <2>1. CASE CheckTimeouts
    BY <2>1 DEF CheckTimeouts, FailOnTimeout
  <2>2. CASE Tick
    BY <2>2 DEF Tick
  <2>3. ASSUME NEW req \in ClientRequest, HandleMessage(req) PROVE Final
    <3>1. HandleFailed(req)
      BY <2>3 DEF HandleMessage, HandleInvalidWorker, HandleRegister, HandleHeartbeat,
                  HandlePull, HandleBadPush, HandlePushWait, HandlePushComplete,
                  HandlePushRaises, HandleShutdown, HandleUnsupported, Admitted, InService
    <3>2. QED
      BY <3>1 DEF HandleFailed, FailOnTimeout, Refuse
  <2>4. QED
    BY <2>1, <2>2, <2>3 DEF Next
<1>2. TypeOK /\ [Next]_serverVars =>
        [failed => /\ failed'
                   /\ UNCHANGED <<step, registered, pending, model, torn>>
                   /\ reply' \in {reply, Error("WORKER_TIMEOUT")}]_serverVars
  BY <1>1
<1>3. QED
  BY <1>2, TypeCorrect, PTL DEF Spec, FailureIsFinal
=============================================================================
