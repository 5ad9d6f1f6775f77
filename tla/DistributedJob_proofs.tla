------------------------ MODULE DistributedJob_proofs ------------------------
(***************************************************************************)
(* Proofs about Launcher.run, for any roles in any order, whatever their   *)
(* targets do and whoever is killed: its types, and that it leaves no      *)
(* process behind and blames nobody who has ended well.  Then about a      *)
(* local training job, for any workers and batches: it is a launcher run,  *)
(* and a job that succeeds has trained and recorded everything.            *)
(***************************************************************************)
EXTENDS DistributedJob, FiniteSetTheorems, TLAPS

(* Processes are started in order: who is new is behind whom has started.  *)
StartedInOrder ==
  /\ \A i, j \in DOMAIN Order :
       i < j /\ proc[Order[i]] = "new" => proc[Order[j]] = "new"
  /\ phase = "starting" =>
       \A i \in DOMAIN Order : proc[Order[i]] = "new" <=> i >= index
  /\ phase \in {"polling", "inspecting", "terminating"} =>
       \A r \in Roles : proc[r] # "new"

(* Reaping has ended the processes it has come past. *)
ReapedSoFar ==
  phase = "reaping" =>
    \A i \in DOMAIN Order : i < index => proc[Order[i]] \in {ExitZero} \cup ExitNonzero

(* A report of failure comes from a process that ends with a failure, and  *)
(* so does whatever is blamed.                                             *)
Failing(r) == proc[r] \in {"failing"} \cup ExitNonzero

BlameIsDeserved ==
  /\ \A i \in DOMAIN statuses : statuses[i].state = "failed" => Failing(statuses[i].role)
  /\ failure.role \in Roles => Failing(failure.role)

OverIsOver == phase = "over" <=> outcome # "none"

(* The loop does not use the index.                                        *)
IndexWhenPolling ==
  phase \in {"polling", "inspecting", "terminating"} => index = 1

IndexOK ==
  index \in 1 .. Len(Order) + 1 /\ (phase = "starting" => index <= Len(Order))

QueueOK == statuses \in Seq(StatusReport)

BlameOK == failure \in Failure \cup {NoFailure}

(* The types of the other variables. *)
PlainOK ==
  /\ proc \in [Roles -> ProcStates]
  /\ stop \in BOOLEAN
  /\ phase \in {"starting", "polling", "inspecting", "terminating", "reaping", "over"}
  /\ completed \subseteq Roles
  /\ outcome \in {"none", "ok", "raised"}

TypeInv == IndexOK /\ QueueOK /\ BlameOK /\ PlainOK

USE DEF ExitZero, ExitNonzero, Alive, ProcStates

-----------------------------------------------------------------------------
(* Types. *)

(* The order enumerates the roles. *)
LEMMA OrderFacts ==
  /\ Len(Order) \in Nat \ {0}
  /\ DOMAIN Order = 1 .. Len(Order)
  /\ \A i \in 1 .. Len(Order) : Order[i] \in Roles
  /\ \A r \in Roles : \E i \in 1 .. Len(Order) : r = Order[i]
BY OrderAssumption DEF Roles

(* Two indices of one role are equal.                                      *)
LEMMA OneIndex ==
  ASSUME NEW i \in 1 .. Len(Order), NEW j \in 1 .. Len(Order), Order[i] = Order[j]
  PROVE  i = j
BY OrderAssumption, OrderFacts

(* The queue of reports. *)
LEMMA PutReport ==
  ASSUME NEW S, NEW q \in Seq(S), NEW item \in S
  PROVE  /\ Append(q, item) \in Seq(S)
         /\ \A i \in DOMAIN Append(q, item) :
              Append(q, item)[i] = item \/ (i \in DOMAIN q /\ Append(q, item)[i] = q[i])
OBVIOUS

LEMMA TakeReport ==
  ASSUME NEW S, NEW q \in Seq(S), q # <<>>
  PROVE  /\ Head(q) \in S /\ 1 \in DOMAIN q /\ Head(q) = q[1]
         /\ Tail(q) \in Seq(S)
         /\ \A i \in DOMAIN Tail(q) : i + 1 \in DOMAIN q /\ Tail(q)[i] = q[i + 1]
OBVIOUS

LEMMA ReportFields ==
  /\ \A x \in StatusReport : x.role \in Roles
  /\ \A r \in Roles : /\ [state |-> "completed", role |-> r] \in StatusReport
                      /\ [state |-> "failed", role |-> r] \in StatusReport
BY DEF StatusReport

Reasons == {"timeout", "report", "exit code", "interrupted", "not started"}

LEMMA Blamed ==
  ASSUME NEW r \in Roles \cup {"launcher"}, NEW w \in Reasons
  PROVE  [role |-> r, why |-> w] \in Failure /\ [role |-> r, why |-> w].role = r
BY DEF Failure, Reasons

(* What GiveUp and Unwind do, one variable at a time.                      *)
LEMMA GiveUpEffect ==
  ASSUME NEW r \in Roles \cup {"launcher"}, NEW w \in Reasons, GiveUp(r, w)
  PROVE  /\ failure' \in Failure /\ failure'.role = r
         /\ phase' = "terminating" /\ index' = 1 /\ stop' = TRUE
<1>1. failure' = [role |-> r, why |-> w]
  BY DEF GiveUp
<1>2. failure' \in Failure /\ failure'.role = r
  BY <1>1, Blamed
<1>3. phase' = "terminating" /\ index' = 1 /\ stop' = TRUE
  BY DEF GiveUp
<1>4. QED
  BY <1>2, <1>3

LEMMA UnwindEffect ==
  ASSUME NEW w \in Reasons, Unwind(w)
  PROVE  /\ failure' \in Failure /\ failure'.role = "launcher"
         /\ phase' = "reaping" /\ index' = 1 /\ stop' = stop
<1>1. failure' = [role |-> "launcher", why |-> w]
  BY DEF Unwind
<1>2. failure' \in Failure /\ failure'.role = "launcher"
  BY <1>1, Blamed
<1>3. phase' = "reaping" /\ index' = 1 /\ stop' = stop
  BY DEF Unwind
<1>4. QED
  BY <1>2, <1>3

(* The three ways in which something outside ends the launcher's loop.     *)
LEMMA DisturbEffect ==
  ASSUME Disturb
  PROVE  /\ failure' \in Failure /\ failure'.role = "launcher"
         /\ phase' \in {"reaping", "terminating"} /\ index' = 1 /\ stop' \in {stop, TRUE}
         /\ phase' = "terminating" => phase = "polling"
         /\ phase \in {"starting", "polling", "inspecting"}
         /\ UNCHANGED <<proc, statuses, completed, outcome>>
<1>0. {"not started", "interrupted", "timeout"} \subseteq Reasons
  BY DEF Reasons
<1>1. CASE StartFails
  <2>1. Unwind("not started") /\ phase = "starting" /\ UNCHANGED <<proc, statuses, completed, outcome>>
    BY <1>1 DEF StartFails
  <2>2. QED
    BY <1>0, <2>1, UnwindEffect
<1>2. CASE Interrupt
  <2>1. /\ Unwind("interrupted") /\ phase \in {"polling", "inspecting"}
        /\ UNCHANGED <<proc, statuses, completed, outcome>>
    BY <1>2 DEF Interrupt
  <2>2. QED
    BY <1>0, <2>1, UnwindEffect
<1>3. CASE TimeOut
  <2>1. GiveUp("launcher", "timeout") /\ phase = "polling" /\ UNCHANGED <<proc, statuses, completed, outcome>>
    BY <1>3 DEF TimeOut
  <2>2. QED
    BY <1>0, <2>1, GiveUpEffect
<1>4. QED
  BY <1>1, <1>2, <1>3 DEF Disturb

(* The four ways a turn of the launcher's loop goes.                       *)
LEMMA PollEffect ==
  ASSUME QueueOK, Poll
  PROVE  /\ phase = "polling" /\ UNCHANGED <<proc, outcome>>
         /\ \/ UNCHANGED <<statuses, stop, index, completed, failure>> /\ phase' = "inspecting"
            \/ /\ statuses # <<>> /\ statuses' = Tail(statuses)
               /\ Head(statuses).state = "failed"
               /\ failure' \in Failure /\ failure'.role = Head(statuses).role
               /\ phase' = "terminating" /\ index' = 1 /\ stop' = TRUE /\ completed' = completed
            \/ /\ statuses # <<>> /\ statuses' = Tail(statuses)
               /\ completed' = completed \cup {Head(statuses).role}
               /\ phase' = "inspecting" /\ UNCHANGED <<stop, index, failure>>
<1>1. CASE statuses = <<>>
  BY <1>1 DEF Poll
<1>2. CASE statuses # <<>> /\ Head(statuses).state = "failed"
  <2>1. Head(statuses).role \in Roles /\ "report" \in Reasons
    BY <1>2, TakeReport, ReportFields DEF QueueOK, Reasons
  <2>2. GiveUp(Head(statuses).role, "report")
    BY <1>2 DEF Poll
  <2>3. /\ phase = "polling" /\ UNCHANGED <<proc, outcome>>
        /\ statuses' = Tail(statuses) /\ completed' = completed
    BY <1>2 DEF Poll
  <2>4. QED
    BY <1>2, <2>1, <2>2, <2>3, GiveUpEffect
<1>3. CASE statuses # <<>> /\ Head(statuses).state # "failed"
  BY <1>3 DEF Poll
<1>4. QED
  BY <1>1, <1>2, <1>3

LEMMA InspectEffect ==
  ASSUME Inspect
  PROVE  /\ phase = "inspecting" /\ UNCHANGED <<proc, statuses, completed, outcome>>
         /\ \/ \E r \in Roles :
                 /\ Dead(r) /\ failure' \in Failure /\ failure'.role = r
                 /\ phase' = "terminating" /\ index' = 1 /\ stop' = TRUE
            \/ phase' \in {"reaping", "polling"} /\ UNCHANGED <<index, stop, failure>>
<1>1. phase = "inspecting" /\ UNCHANGED <<proc, statuses, completed, outcome>>
  BY DEF Inspect
<1>2. CASE \E r \in Roles : IsFirst(r, {q \in Roles : Dead(q)}) /\ GiveUp(r, "exit code")
  <2>1. PICK r \in Roles : IsFirst(r, {q \in Roles : Dead(q)}) /\ GiveUp(r, "exit code")
    BY <1>2
  <2>2. Dead(r)
    BY <2>1 DEF IsFirst
  <2>3. "exit code" \in Reasons
    BY DEF Reasons
  <2>4. QED
    BY <1>1, <2>1, <2>2, <2>3, GiveUpEffect
<1>3. CASE phase' = IF completed = Roles THEN "reaping" ELSE "polling"
  BY <1>1, <1>2, <1>3 DEF Inspect
<1>4. QED
  BY <1>1, <1>2, <1>3 DEF Inspect

LEMMA ConcludeEffect ==
  ASSUME Conclude
  PROVE  /\ phase = "reaping" /\ index > Len(Order) /\ phase' = "over"
         /\ UNCHANGED <<proc, statuses, stop, index, completed>>
         /\ \/ outcome' = "raised" /\ failure' = failure
            \/ \E r \in Roles : /\ outcome' = "raised" /\ proc[r] # ExitZero
                               /\ failure' \in Failure /\ failure'.role = r
            \/ /\ outcome' = "ok" /\ failure' = failure
               /\ \A r \in Roles : proc[r] = ExitZero
<1>1. /\ phase = "reaping" /\ index > Len(Order) /\ phase' = "over"
      /\ UNCHANGED <<proc, statuses, stop, index, completed>>
  BY DEF Conclude
<1>2. CASE \E r \in Roles : IsFirst(r, Nonzero) /\ failure' = [role |-> r, why |-> "exit code"]
  <2>1. PICK r \in Roles : IsFirst(r, Nonzero) /\ failure' = [role |-> r, why |-> "exit code"]
    BY <1>2
  <2>2. proc[r] # ExitZero
    BY <2>1 DEF IsFirst, Nonzero
  <2>3. "exit code" \in Reasons
    BY DEF Reasons
  <2>4. CASE outcome' = "raised"
    BY <1>1, <2>1, <2>2, <2>3, <2>4, Blamed
  <2>5. CASE outcome' # "raised"
    BY <1>1, <2>5 DEF Conclude, Nonzero
  <2>6. QED
    BY <2>4, <2>5
<1>3. CASE ~\E r \in Roles : IsFirst(r, Nonzero) /\ failure' = [role |-> r, why |-> "exit code"]
  BY <1>1, <1>3 DEF Conclude, Nonzero
<1>4. QED
  BY <1>2, <1>3

-----------------------------------------------------------------------------
(* Types. *)

LEMMA TypeParts == LaunchTypeOK <=> TypeInv
BY DEF LaunchTypeOK, TypeInv, IndexOK, QueueOK, BlameOK, PlainOK

LEMMA InitTypes == LaunchInit => TypeInv
<1> SUFFICES ASSUME LaunchInit PROVE TypeInv
  OBVIOUS
<1>1. IndexOK
  BY OrderFacts DEF LaunchInit, IndexOK
<1>2. QueueOK
  BY DEF LaunchInit, QueueOK
<1>3. BlameOK
  BY DEF LaunchInit, BlameOK
<1>4. PlainOK
  BY DEF LaunchInit, PlainOK
<1>5. QED
  BY <1>1, <1>2, <1>3, <1>4 DEF TypeInv

LEMMA TypesPreserved == TypeInv /\ [LaunchNext]_launchVars => TypeInv'
<1> SUFFICES ASSUME TypeInv, [LaunchNext]_launchVars
             PROVE  IndexOK' /\ QueueOK' /\ BlameOK' /\ PlainOK'
  BY DEF TypeInv
<1>0. Len(Order) \in Nat \ {0} /\ IndexOK /\ QueueOK /\ BlameOK /\ PlainOK
  BY OrderFacts DEF TypeInv
<1>1. CASE Start
  <2>1. IndexOK'
    BY <1>0, <1>1 DEF Start, Become, IndexOK
  <2>2. QueueOK' /\ BlameOK'
    BY <1>0, <1>1 DEF Start, Become, QueueOK, BlameOK
  <2>3. PlainOK'
    BY <1>0, <1>1 DEF Start, Become, PlainOK
  <2>4. QED
    BY <2>1, <2>2, <2>3
<1>2. CASE Poll
  <2>0. index' \in {index, 1} /\ phase' # "starting"
    BY <1>0, <1>2, PollEffect
  <2>1. IndexOK'
    BY <1>0, <2>0 DEF IndexOK
  <2>2. QueueOK'
    BY <1>0, <1>2, PollEffect, TakeReport DEF QueueOK
  <2>3. BlameOK'
    BY <1>0, <1>2, PollEffect DEF BlameOK
  <2>4. PlainOK'
    BY <1>0, <1>2, PollEffect, TakeReport, ReportFields DEF PlainOK, QueueOK
  <2>5. QED
    BY <2>1, <2>2, <2>3, <2>4
<1>3. CASE Inspect
  <2>0. index' \in {index, 1} /\ phase' # "starting"
    BY <1>0, <1>3, InspectEffect
  <2>1. IndexOK'
    BY <1>0, <2>0 DEF IndexOK
  <2>2. QueueOK'
    BY <1>0, <1>3, InspectEffect, TakeReport DEF QueueOK
  <2>3. BlameOK'
    BY <1>0, <1>3, InspectEffect DEF BlameOK
  <2>4. PlainOK'
    BY <1>0, <1>3, InspectEffect, TakeReport, ReportFields DEF PlainOK, QueueOK
  <2>5. QED
    BY <2>1, <2>2, <2>3, <2>4
<1>4. CASE Terminate
  <2>1. IndexOK'
    BY <1>0, <1>4 DEF Terminate, IndexOK
  <2>2. QueueOK' /\ BlameOK'
    BY <1>0, <1>4 DEF Terminate, QueueOK, BlameOK
  <2>3. PlainOK'
    BY <1>0, <1>4 DEF Terminate, PlainOK
  <2>4. QED
    BY <2>1, <2>2, <2>3
<1>5. CASE Reap
  <2>1. IndexOK'
    BY <1>0, <1>5 DEF Reap, Become, IndexOK
  <2>2. QueueOK' /\ BlameOK'
    BY <1>0, <1>5 DEF Reap, Become, QueueOK, BlameOK
  <2>3. PlainOK'
    BY <1>0, <1>5 DEF Reap, Become, PlainOK
  <2>4. QED
    BY <2>1, <2>2, <2>3
<1>6. CASE Conclude
  <2>1. IndexOK'
    BY <1>0, <1>6, ConcludeEffect DEF IndexOK
  <2>2. QueueOK'
    BY <1>0, <1>6, ConcludeEffect, TakeReport DEF QueueOK
  <2>3. BlameOK'
    BY <1>0, <1>6, ConcludeEffect DEF BlameOK
  <2>4. PlainOK'
    BY <1>0, <1>6, ConcludeEffect, TakeReport, ReportFields DEF PlainOK, QueueOK
  <2>5. QED
    BY <2>1, <2>2, <2>3, <2>4
<1>7. CASE Disturb
  <2>1. IndexOK'
    BY <1>0, <1>7, DisturbEffect DEF IndexOK
  <2>2. QueueOK'
    BY <1>0, <1>7, DisturbEffect, TakeReport DEF QueueOK
  <2>3. BlameOK'
    BY <1>0, <1>7, DisturbEffect DEF BlameOK
  <2>4. PlainOK'
    BY <1>0, <1>7, DisturbEffect, TakeReport, ReportFields DEF PlainOK, QueueOK
  <2>5. QED
    BY <2>1, <2>2, <2>3, <2>4
<1>8. ASSUME NEW r \in Roles, RoleStep(r) PROVE IndexOK' /\ QueueOK' /\ BlameOK' /\ PlainOK'
  <2> USE DEF RoleStep, Complete, Fail, Exit, Die
  <2>1. IndexOK' /\ BlameOK'
    BY <1>0, <1>8 DEF IndexOK, BlameOK
  <2>2. QueueOK'
    BY <1>0, <1>8, PutReport, ReportFields, SMTT(30) DEF QueueOK, Report
  <2>3. PlainOK'
    BY <1>0, <1>8 DEF PlainOK, Become
  <2>4. QED
    BY <2>1, <2>2, <2>3
<1>9. CASE UNCHANGED launchVars
  BY <1>0, <1>9 DEF launchVars, IndexOK, QueueOK, BlameOK, PlainOK
<1>10. QED
  BY <1>1, <1>2, <1>3, <1>4, <1>5, <1>6, <1>7, <1>8, <1>9 DEF LaunchNext, Supervise

(* Every variable of the launcher keeps its type, whatever the roles do.   *)
THEOREM LauncherTypes == LaunchSpec => []LaunchTypeOK
BY InitTypes, TypesPreserved, TypeParts, PTL DEF LaunchSpec

-----------------------------------------------------------------------------
(* Nobody is left behind. *)

Inv ==
  /\ TypeInv /\ StartedInOrder /\ ReapedSoFar /\ IndexWhenPolling
  /\ BlameIsDeserved /\ OverIsOver /\ NobodyLeftBehind

LEMMA InitInv == LaunchInit => Inv
<1> SUFFICES ASSUME LaunchInit PROVE Inv
  OBVIOUS
<1>1. TypeInv
  BY InitTypes
<1>2. StartedInOrder
  BY OrderFacts DEF LaunchInit, StartedInOrder
<1>3. ReapedSoFar /\ OverIsOver /\ NobodyLeftBehind
  BY DEF LaunchInit, ReapedSoFar, OverIsOver, NobodyLeftBehind
<1>6. IndexWhenPolling
  BY DEF LaunchInit, IndexWhenPolling
<1>4. BlameIsDeserved
  <2>1. statuses = <<>> /\ failure.role = "none" /\ "none" \notin Roles
    BY LauncherIsNoRole DEF LaunchInit, NoFailure
  <2>2. QED
    BY <2>1 DEF BlameIsDeserved
<1>5. QED
  BY <1>1, <1>2, <1>3, <1>4, <1>6 DEF Inv

LEMMA StartingIndex ==
  ASSUME IndexOK, phase = "starting"
  PROVE  index \in DOMAIN Order
<1>1. Len(Order) \in Nat \ {0} /\ DOMAIN Order = 1 .. Len(Order)
  BY OrderFacts
<1>2. QED
  BY <1>1 DEF IndexOK

(* A step that makes nobody new, and none who is new anything else.        *)
SameNew == \A r \in Roles : proc'[r] = "new" <=> proc[r] = "new"

LEMMA RoleStepProc ==
  ASSUME NEW r \in Roles, RoleStep(r), PlainOK
  PROVE  /\ \A q \in Roles \ {r} : proc'[q] = proc[q]
         /\ proc[r] \in Alive /\ proc'[r] # "new"
         /\ proc[r] \in {"failing"} => proc'[r] \in ExitNonzero
         /\ UNCHANGED <<stop, phase, index, completed, failure, outcome>>
         /\ statuses' # statuses => \E s \in {"completed", "failed"} :
               /\ statuses' = Append(statuses, [state |-> s, role |-> r])
               /\ s = "failed" => proc'[r] = "failing"
BY DEF RoleStep, Complete, Fail, Exit, Die, PlainOK, Become, Report

LEMMA StartedPreserved == Inv /\ [LaunchNext]_launchVars => StartedInOrder'
<1> SUFFICES ASSUME Inv, [LaunchNext]_launchVars
             PROVE  StartedInOrder'
  OBVIOUS
<1>0. /\ IndexOK /\ QueueOK /\ PlainOK /\ StartedInOrder
      /\ Len(Order) \in Nat \ {0} /\ DOMAIN Order = 1 .. Len(Order)
      /\ \A i \in DOMAIN Order : Order[i] \in Roles
      /\ \A r \in Roles : \E i \in DOMAIN Order : r = Order[i]
  BY OrderFacts DEF Inv, TypeInv
<1>a. ASSUME SameNew, phase' \in {phase, "inspecting", "terminating", "polling", "reaping", "over"},
             phase' = "starting" => index' = index,
             phase' \in {"inspecting", "terminating", "polling"} =>
               phase \in {"inspecting", "terminating", "polling"}
      PROVE  StartedInOrder'
  BY <1>0, <1>a DEF StartedInOrder, SameNew
<1>1. CASE Start
  <2>0. phase = "starting"
    BY <1>1 DEF Start
  <2>1. /\ phase = "starting" /\ index \in DOMAIN Order
        /\ proc' = [proc EXCEPT ![Order[index]] = "running"]
        /\ index' = IF index = Len(Order) THEN 1 ELSE index + 1
        /\ phase' = IF index = Len(Order) THEN "polling" ELSE "starting"
    BY <1>0, <1>1, <2>0, StartingIndex DEF Start, Become
  <2>2. \A i \in DOMAIN Order : proc'[Order[i]] = "new" <=> i > index
    <3>1. SUFFICES ASSUME NEW i \in DOMAIN Order
                   PROVE  proc'[Order[i]] = "new" <=> i > index
      OBVIOUS
    <3>2. CASE i = index
      BY <1>0, <2>1, <3>2 DEF PlainOK
    <3>3. CASE i # index
      <4>1. Order[i] # Order[index]
        BY <1>0, <2>1, <3>3, OneIndex
      <4>2. proc'[Order[i]] = proc[Order[i]]
        BY <1>0, <2>1, <4>1 DEF PlainOK
      <4>3. proc[Order[i]] = "new" <=> i >= index
        BY <1>0, <2>1 DEF StartedInOrder
      <4>4. QED
        BY <1>0, <2>1, <3>3, <4>2, <4>3
    <3>4. QED
      BY <3>2, <3>3
  <2>3. \A i, j \in DOMAIN Order :
          i < j /\ proc'[Order[i]] = "new" => proc'[Order[j]] = "new"
    BY <1>0, <2>1, <2>2
  <2>4. CASE index = Len(Order)
    <3>1. \A r \in Roles : proc'[r] # "new"
      BY <1>0, <2>1, <2>2, <2>4
    <3>2. phase' = "polling"
      BY <2>1, <2>4
    <3>3. QED
      BY <2>3, <3>1, <3>2 DEF StartedInOrder
  <2>5. CASE index # Len(Order)
    <3>1. phase' = "starting" /\ index' = index + 1
      BY <2>1, <2>5
    <3>2. \A i \in DOMAIN Order : proc'[Order[i]] = "new" <=> i >= index'
      BY <1>0, <2>1, <2>2, <3>1
    <3>3. QED
      BY <2>3, <3>1, <3>2 DEF StartedInOrder
  <2>6. QED
    BY <2>4, <2>5
<1>2. CASE Poll
  BY <1>0, <1>2, <1>a, PollEffect DEF SameNew
<1>3. CASE Inspect
  BY <1>0, <1>3, <1>a, InspectEffect DEF SameNew
<1>4. CASE Terminate
  BY <1>0, <1>4, <1>a DEF Terminate, SameNew
<1>5. CASE Reap
  BY <1>0, <1>5, <1>a DEF Reap, SameNew, Become, PlainOK
<1>6. CASE Conclude
  BY <1>0, <1>6, <1>a, ConcludeEffect DEF SameNew
<1>7. CASE Disturb
  BY <1>0, <1>7, <1>a, DisturbEffect DEF SameNew
<1>8. ASSUME NEW r \in Roles, RoleStep(r) PROVE StartedInOrder'
  BY <1>0, <1>8, <1>a, RoleStepProc DEF SameNew
<1>9. CASE UNCHANGED launchVars
  BY <1>0, <1>9, <1>a DEF launchVars, SameNew
<1>10. QED
  BY <1>1, <1>2, <1>3, <1>4, <1>5, <1>6, <1>7, <1>8, <1>9 DEF LaunchNext, Supervise

(* Once ended, or failing, a role's process stays so.                      *)
LEMMA EndedStays ==
  ASSUME Inv, [LaunchNext]_launchVars, NEW r \in Roles
  PROVE  /\ proc[r] \in {ExitZero} \cup ExitNonzero => proc'[r] = proc[r]
         /\ Failing(r) => Failing(r)'
<1>0. PlainOK /\ TypeInv /\ StartedInOrder /\ QueueOK
  BY DEF Inv, TypeInv
<1>1. CASE Start
  <2>1. index \in DOMAIN Order /\ phase = "starting" /\ Order[index] \in Roles
    <3>2. phase = "starting"
      BY <1>1 DEF Start
    <3>1. index \in DOMAIN Order
      BY <1>0, <3>2, StartingIndex DEF TypeInv
    <3>3. QED
      BY <3>1, <3>2, OrderFacts
  <2>2. proc[Order[index]] = "new"
    BY <1>0, <2>1, OrderFacts DEF StartedInOrder, TypeInv, IndexOK
  <2>3. QED
    BY <1>0, <1>1, <2>1, <2>2 DEF Start, Become, PlainOK, Failing
<1>2. CASE Poll
  BY <1>0, <1>2, PollEffect DEF Failing
<1>3. CASE Inspect
  BY <1>3, InspectEffect DEF Failing
<1>4. CASE Terminate
  BY <1>0, <1>4 DEF Terminate, PlainOK, Failing
<1>5. CASE Reap
  BY <1>0, <1>5 DEF Reap, Become, PlainOK, Failing
<1>6. CASE Conclude
  BY <1>6, ConcludeEffect DEF Failing
<1>7. CASE Disturb
  BY <1>7, DisturbEffect DEF Failing
<1>8. ASSUME NEW q \in Roles, RoleStep(q)
      PROVE  /\ proc[r] \in {ExitZero} \cup ExitNonzero => proc'[r] = proc[r]
             /\ Failing(r) => Failing(r)'
  BY <1>0, <1>8, RoleStepProc DEF Failing
<1>9. CASE UNCHANGED launchVars
  BY <1>9 DEF launchVars, Failing
<1>10. QED
  BY <1>1, <1>2, <1>3, <1>4, <1>5, <1>6, <1>7, <1>8, <1>9 DEF LaunchNext, Supervise

WillFail(r) == proc'[r] \in {"failing"} \cup ExitNonzero

LEMMA BlamePreserved == Inv /\ [LaunchNext]_launchVars => BlameIsDeserved'
<1> SUFFICES ASSUME Inv, [LaunchNext]_launchVars
             PROVE  BlameIsDeserved'
  OBVIOUS
<1>0. PlainOK /\ QueueOK /\ BlameIsDeserved /\ "launcher" \notin Roles
  BY LauncherIsNoRole DEF Inv, TypeInv
<1>a. \A r \in Roles : Failing(r) => WillFail(r)
  BY EndedStays DEF Failing, WillFail
<1>b. \A i \in DOMAIN statuses : statuses[i].role \in Roles
  BY <1>0, ReportFields DEF QueueOK
<1>c. ASSUME UNCHANGED <<statuses, failure>> PROVE BlameIsDeserved'
  BY <1>0, <1>a, <1>b, <1>c DEF BlameIsDeserved, Failing, WillFail
<1>1. CASE Start \/ Terminate \/ Reap
  BY <1>1, <1>c DEF Start, Terminate, Reap
<1>2. CASE Poll
  <2>1. CASE UNCHANGED <<statuses, failure>>
    BY <2>1, <1>c
  <2>2. CASE statuses # <<>> /\ statuses' = Tail(statuses)
    <3>1. \A i \in DOMAIN statuses' : i + 1 \in DOMAIN statuses /\ statuses'[i] = statuses[i + 1]
      BY <1>0, <2>2, TakeReport DEF QueueOK
    <3>2. \A i \in DOMAIN statuses' : statuses'[i].state = "failed" => WillFail(statuses'[i].role)
      BY <1>0, <1>a, <1>b, <3>1 DEF BlameIsDeserved, Failing, WillFail
    <3>3. failure'.role \in Roles => WillFail(failure'.role)
      <4>1. CASE failure' = failure
        BY <1>0, <1>a, <4>1 DEF BlameIsDeserved, Failing, WillFail
      <4>2. CASE Head(statuses).state = "failed" /\ failure'.role = Head(statuses).role
        <5>1. 1 \in DOMAIN statuses /\ Head(statuses) = statuses[1]
          BY <1>0, <2>2, TakeReport DEF QueueOK
        <5>2. QED
          BY <1>0, <1>a, <1>b, <4>2, <5>1 DEF BlameIsDeserved, Failing, WillFail
      <4>3. QED
        BY <1>0, <1>2, <4>1, <4>2, PollEffect
    <3>4. QED
      BY <3>2, <3>3 DEF BlameIsDeserved, Failing, WillFail
  <2>3. QED
    BY <1>0, <1>2, <2>1, <2>2, PollEffect
<1>3. CASE Inspect
  <2>1. CASE failure' = failure
    BY <1>3, <2>1, <1>c, InspectEffect
  <2>2. CASE \E r \in Roles : Dead(r) /\ failure'.role = r
    <3>1. statuses' = statuses
      BY <1>3, InspectEffect
    <3>2. failure'.role \in Roles /\ Failing(failure'.role)
      BY <2>2 DEF Dead, Failing
    <3>3. QED
      BY <1>0, <1>a, <1>b, <3>1, <3>2 DEF BlameIsDeserved, Failing, WillFail
  <2>3. QED
    BY <1>3, <2>1, <2>2, InspectEffect
<1>6. CASE Conclude
  <2>1. statuses' = statuses
    BY <1>6, ConcludeEffect
  <2>2. CASE failure' = failure
    BY <2>1, <2>2, <1>c
  <2>3. CASE \E r \in Roles : proc[r] # ExitZero /\ failure'.role = r
    <3>1. PICK r \in Roles : proc[r] # ExitZero /\ failure'.role = r
      BY <2>3
    <3>2. proc[r] \in ExitNonzero
      <4>1. phase = "reaping" /\ index > Len(Order) /\ ReapedSoFar
        BY <1>6, ConcludeEffect DEF Inv
      <4>2. PICK i \in DOMAIN Order : r = Order[i]
        BY OrderFacts
      <4>3. i < index
        BY <4>1, <4>2, OrderFacts DEF Inv, TypeInv, IndexOK
      <4>4. QED
        BY <3>1, <4>1, <4>2, <4>3 DEF ReapedSoFar
    <3>3. Failing(r)
      BY <3>2 DEF Failing
    <3>4. QED
      BY <1>0, <1>a, <1>b, <2>1, <3>1, <3>3 DEF BlameIsDeserved, Failing, WillFail
  <2>4. QED
    BY <1>6, <2>2, <2>3, ConcludeEffect
<1>7. CASE Disturb
  BY <1>0, <1>a, <1>b, <1>7, DisturbEffect DEF BlameIsDeserved, Failing, WillFail
<1>8. ASSUME NEW r \in Roles, RoleStep(r) PROVE BlameIsDeserved'
  <2>1. failure' = failure
    BY <1>0, <1>8, RoleStepProc
  <2>2. CASE statuses' = statuses
    BY <2>1, <2>2, <1>c
  <2>3. CASE statuses' # statuses
    <3>1. PICK s \in {"completed", "failed"} :
             /\ statuses' = Append(statuses, [state |-> s, role |-> r])
             /\ s = "failed" => proc'[r] = "failing"
      BY <1>0, <1>8, <2>3, RoleStepProc
    <3>2. \A i \in DOMAIN statuses' :
             \/ statuses'[i] = [state |-> s, role |-> r]
             \/ i \in DOMAIN statuses /\ statuses'[i] = statuses[i]
      <4>1. [state |-> s, role |-> r] \in StatusReport
        BY <3>1, ReportFields
      <4>2. QED
        BY <1>0, <3>1, <4>1, PutReport DEF QueueOK
    <3>3. s = "failed" => WillFail(r)
      BY <3>1 DEF WillFail
    <3>4. ASSUME NEW i \in DOMAIN statuses', statuses'[i].state = "failed"
          PROVE  WillFail(statuses'[i].role)
      <4>1. CASE statuses'[i] = [state |-> s, role |-> r]
        BY <3>3, <3>4, <4>1
      <4>2. CASE i \in DOMAIN statuses /\ statuses'[i] = statuses[i]
        BY <1>0, <1>a, <1>b, <3>4, <4>2 DEF BlameIsDeserved, Failing, WillFail
      <4>3. QED
        BY <3>2, <4>1, <4>2
    <3>5. QED
      BY <1>0, <1>a, <2>1, <3>4 DEF BlameIsDeserved, Failing, WillFail
  <2>4. QED
    BY <2>2, <2>3
<1>9. CASE UNCHANGED launchVars
  BY <1>9, <1>c DEF launchVars
<1>10. QED
  BY <1>1, <1>2, <1>3, <1>6, <1>7, <1>8, <1>9 DEF LaunchNext, Supervise

LEMMA ReapedPreserved == Inv /\ [LaunchNext]_launchVars => ReapedSoFar'
<1> SUFFICES ASSUME Inv, [LaunchNext]_launchVars, phase' = "reaping",
                    NEW i \in DOMAIN Order, i < index'
             PROVE  proc'[Order[i]] \in {ExitZero} \cup ExitNonzero
  BY DEF ReapedSoFar
<1>0. /\ PlainOK /\ IndexOK /\ ReapedSoFar /\ Order[i] \in Roles
      /\ i \in Nat \ {0} /\ index \in Nat
  BY OrderFacts DEF Inv, TypeInv, IndexOK
<1>a. ASSUME phase = "reaping", i < index
      PROVE  proc'[Order[i]] \in {ExitZero} \cup ExitNonzero
  BY <1>0, <1>a, EndedStays DEF ReapedSoFar
<1>1. CASE index' = 1
  BY <1>0, <1>1
<1>2. CASE Start
  BY <1>2 DEF Start
<1>3. CASE Poll
  BY <1>3, PollEffect DEF Inv, TypeInv
<1>4. CASE Inspect
  <2>1. phase = "inspecting" /\ index' = index
    BY <1>1, <1>4, InspectEffect
  <2>2. index = 1
    BY <2>1 DEF Inv, IndexWhenPolling
  <2>3. QED
    BY <1>1, <2>1, <2>2
<1>5. CASE Terminate
  <2>1. index' = index /\ phase = "terminating"
    BY <1>5 DEF Terminate
  <2>2. QED
    BY <1>1, <2>1 DEF Inv, IndexWhenPolling
<1>6. CASE Reap
  <2>1. phase = "reaping" /\ index \in DOMAIN Order /\ index' = index + 1
    <3>1. phase = "reaping" /\ index <= Len(Order) /\ index' = index + 1
      BY <1>6 DEF Reap
    <3>2. Len(Order) \in Nat /\ DOMAIN Order = 1 .. Len(Order)
      BY OrderFacts
    <3>3. QED
      BY <1>0, <3>1, <3>2 DEF IndexOK
  <2>2. CASE i < index
    BY <1>a, <2>1, <2>2
  <2>3. CASE i = index
    BY <1>0, <1>6, <2>1, <2>3 DEF Reap, Become, PlainOK
  <2>4. QED
    BY <1>0, <2>1, <2>2, <2>3
<1>7. CASE Conclude
  BY <1>7, ConcludeEffect
<1>8. CASE Disturb
  BY <1>1, <1>8, DisturbEffect
<1>9. ASSUME NEW r \in Roles, RoleStep(r)
      PROVE  proc'[Order[i]] \in {ExitZero} \cup ExitNonzero
  BY <1>0, <1>a, <1>9, RoleStepProc
<1>10. CASE UNCHANGED launchVars
  BY <1>a, <1>10 DEF launchVars
<1>11. QED
  BY <1>2, <1>3, <1>4, <1>5, <1>6, <1>7, <1>8, <1>9, <1>10 DEF LaunchNext, Supervise

LEMMA LoopIndexPreserved == Inv /\ [LaunchNext]_launchVars => IndexWhenPolling'
<1> SUFFICES ASSUME Inv, [LaunchNext]_launchVars
             PROVE  IndexWhenPolling'
  OBVIOUS
<1>0. IndexWhenPolling /\ QueueOK /\ PlainOK
  BY DEF Inv, TypeInv
<1> USE DEF IndexWhenPolling
<1>1. CASE Start
  BY <1>1 DEF Start
<1>2. CASE Poll
  BY <1>0, <1>2, PollEffect
<1>3. CASE Inspect
  BY <1>0, <1>3, InspectEffect
<1>4. CASE Terminate
  BY <1>0, <1>4 DEF Terminate
<1>5. CASE Reap
  BY <1>5 DEF Reap
<1>6. CASE Conclude
  BY <1>6, ConcludeEffect
<1>7. CASE Disturb
  BY <1>7, DisturbEffect
<1>8. ASSUME NEW r \in Roles, RoleStep(r) PROVE IndexWhenPolling'
  BY <1>0, <1>8, RoleStepProc
<1>9. CASE UNCHANGED launchVars
  BY <1>0, <1>9 DEF launchVars
<1>10. QED
  BY <1>1, <1>2, <1>3, <1>4, <1>5, <1>6, <1>7, <1>8, <1>9 DEF LaunchNext, Supervise

LEMMA OverPreserved == Inv /\ [LaunchNext]_launchVars => OverIsOver' /\ NobodyLeftBehind'
<1> SUFFICES ASSUME Inv, [LaunchNext]_launchVars
             PROVE  OverIsOver' /\ NobodyLeftBehind'
  OBVIOUS
<1>0. /\ PlainOK /\ IndexOK /\ QueueOK /\ StartedInOrder /\ ReapedSoFar
      /\ OverIsOver /\ NobodyLeftBehind /\ BlameIsDeserved'
  BY BlamePreserved DEF Inv, TypeInv
<1>a. ASSUME phase # "over", phase' # "over", outcome' = outcome
      PROVE  OverIsOver' /\ NobodyLeftBehind'
  BY <1>0, <1>a DEF OverIsOver, NobodyLeftBehind
<1>1. CASE Start
  BY <1>1, <1>a DEF Start
<1>2. CASE Poll
  BY <1>0, <1>2, <1>a, PollEffect
<1>3. CASE Inspect
  BY <1>3, <1>a, InspectEffect
<1>4. CASE Terminate
  BY <1>4, <1>a DEF Terminate
<1>5. CASE Reap
  <2>1. phase = "reaping" /\ index <= Len(Order)
    BY <1>5 DEF Reap
  <2>2. CASE phase' = phase /\ outcome' = outcome
    BY <1>a, <2>1, <2>2
  <2>3. CASE proc[Order[index]] = "new" /\ outcome' = "raised" /\ phase' = "over" /\ proc' = proc
    <3>1. Len(Order) \in Nat /\ DOMAIN Order = 1 .. Len(Order)
      BY OrderFacts
    <3>2. index \in DOMAIN Order
      BY <1>0, <2>1, <3>1 DEF IndexOK
    <3>3. ASSUME NEW r \in Roles PROVE proc[r] \notin Alive
      <4>1. PICK i \in DOMAIN Order : r = Order[i]
        BY <3>1, OrderFacts
      <4>2. i < index => proc[Order[i]] \in {ExitZero} \cup ExitNonzero
        BY <1>0, <2>1, <4>1 DEF ReapedSoFar
      <4>3. i > index => proc[Order[i]] = "new"
        BY <1>0, <2>3, <3>2, <4>1 DEF StartedInOrder
      <4>4. i = index => proc[Order[i]] = "new"
        BY <2>3
      <4>5. i < index \/ i = index \/ i > index
        BY <3>1, <3>2, <4>1
      <4>6. QED
        BY <4>1, <4>2, <4>3, <4>4, <4>5
    <3>4. failure'.role \in Roles => proc'[failure'.role] \in ExitNonzero
      BY <1>0, <2>3, <3>3 DEF BlameIsDeserved, Failing
    <3>5. QED
      BY <2>3, <3>3, <3>4 DEF OverIsOver, NobodyLeftBehind
  <2>4. QED
    BY <1>5, <2>2, <2>3 DEF Reap
<1>6. CASE Conclude
  <2>1. /\ phase = "reaping" /\ index > Len(Order) /\ phase' = "over" /\ proc' = proc
        /\ outcome' \in {"ok", "raised"}
        /\ outcome' = "ok" => \A r \in Roles : proc[r] = ExitZero
    BY <1>6, ConcludeEffect
  <2>2. ASSUME NEW r \in Roles PROVE proc[r] \notin Alive
    <3>1. PICK i \in DOMAIN Order : r = Order[i]
      BY OrderFacts
    <3>2. i < index
      BY <1>0, <2>1, <3>1, OrderFacts DEF IndexOK
    <3>3. QED
      BY <1>0, <2>1, <3>1, <3>2 DEF ReapedSoFar
  <2>3. failure'.role \in Roles => proc'[failure'.role] \in ExitNonzero
    BY <1>0, <2>1, <2>2 DEF BlameIsDeserved, Failing
  <2>4. QED
    BY <2>1, <2>2, <2>3 DEF OverIsOver, NobodyLeftBehind
<1>7. CASE Disturb
  BY <1>7, <1>a, DisturbEffect
<1>8. ASSUME NEW r \in Roles, RoleStep(r) PROVE OverIsOver' /\ NobodyLeftBehind'
  BY <1>0, <1>8, RoleStepProc DEF OverIsOver, NobodyLeftBehind
<1>9. CASE UNCHANGED launchVars
  BY <1>0, <1>9 DEF launchVars, OverIsOver, NobodyLeftBehind
<1>10. QED
  BY <1>1, <1>2, <1>3, <1>4, <1>5, <1>6, <1>7, <1>8, <1>9 DEF LaunchNext, Supervise

LEMMA InvPreserved == Inv /\ [LaunchNext]_launchVars => Inv'
<1> SUFFICES ASSUME Inv, [LaunchNext]_launchVars PROVE Inv'
  OBVIOUS
<1>1. TypeInv'
  BY TypesPreserved DEF Inv
<1>2. StartedInOrder' /\ ReapedSoFar' /\ IndexWhenPolling'
  BY StartedPreserved, ReapedPreserved, LoopIndexPreserved
<1>3. BlameIsDeserved' /\ OverIsOver' /\ NobodyLeftBehind'
  BY BlamePreserved, OverPreserved
<1>4. QED
  BY <1>1, <1>2, <1>3 DEF Inv

(* However run ends, no process outlives it, whom it blames has not ended  *)
(* well, and it succeeds only if all have: for any roles and targets.      *)
THEOREM LauncherLeavesNobody == LaunchSpec => []NobodyLeftBehind
<1>1. Inv => NobodyLeftBehind
  BY DEF Inv
<1>2. QED
  BY <1>1, InitInv, InvPreserved, PTL DEF LaunchSpec
-----------------------------------------------------------------------------
(* A training job is a run of the launcher. *)

Same == UNCHANGED launchVars

(* Every step of the job is a step of the launcher or of one role's process. *)
LEMMA JobStepIsLaunchStep == [JobNext]_vars => [LaunchNext]_launchVars
<1> SUFFICES ASSUME [JobNext]_vars
             PROVE  LaunchNext \/ Same
  BY DEF Same
<1> USE DEF Same
<1>0. Monitor \in Roles /\ Server \in Roles /\ \A w \in Workers : w \in Roles
  BY JobAssumption
<1>1. CASE Supervise
  BY <1>1 DEF LaunchNext
<1>2. CASE MonitorStep
  BY <1>0, <1>2 DEF MonitorStep, WriteRecord, MonitorReturns, LaunchNext, RoleStep
<1>3. CASE ServerStep
  BY <1>0, <1>3 DEF ServerStep, Listen, AcceptStopped, ServerReturns, Accept, ThreadEnds,
                    LaunchNext, RoleStep
<1>4. ASSUME NEW w \in Workers, WorkerStep(w) PROVE LaunchNext \/ Same
  BY <1>0, <1>4 DEF WorkerStep, Connect, SeeStop, Registered, Push, Advance, SaveCheckpoint,
                    Close, Closed, LoseServer, LaunchNext, RoleStep
<1>5. ASSUME NEW r \in Roles, ProcessStep(r) PROVE LaunchNext \/ Same
  BY <1>5 DEF ProcessStep, LaunchNext, RoleStep
<1>6. CASE Fault
  BY <1>0, <1>6 DEF Fault, Raise, PeerTimedOut, LaunchNext, RoleStep
<1>7. CASE Over \/ UNCHANGED vars
  BY <1>7 DEF Over, vars
<1>8. QED
  BY <1>1, <1>2, <1>3, <1>4, <1>5, <1>6, <1>7 DEF JobNext

THEOREM JobImplementsLauncher == JobSpec => LaunchSpec
<1>1. JobInit => LaunchInit
  BY DEF JobInit
<1>2. QED
  BY <1>1, JobStepIsLaunchStep, PTL DEF JobSpec, LaunchSpec

(* The job leaves no process behind. *)
THEOREM JobLeavesNobody == JobSpec => []NobodyLeftBehind
BY JobImplementsLauncher, LauncherLeavesNobody, PTL
-----------------------------------------------------------------------------
(* What a job that succeeds has done. *)

USE DEF ExitZero, ExitNonzero, Alive, ProcStates

Ended(r) == proc[r] \in {"completing", ExitZero}

Places == {"monitoring", "binding", "accepting", "waiting", "connecting",
           "registering", "training", "pushing", "closing"}

(* A worker shuts down, and completes, only after its last batch; rank 0   *)
(* of the benchmark only after it saved; the monitor completes with the    *)
(* last record.  The launcher knows that everybody has completed, and this *)
(* is what completion is worth.                                            *)
WorkersFinish ==
  \A w \in Workers :
    Ended(w) \/ at[w] = "closing" =>
      /\ batch[w] = Batches
      /\ NeedsSaving(w) => saved = Batches

MonitorFinishes == Ended(Monitor) => written = ExpectedRecords

JobInv ==
  /\ proc \in [Roles -> ProcStates]
  /\ at \in [Roles -> Places]
  /\ batch \in [Workers -> Nat]
  /\ saved \in {0, Batches}
  /\ WorkersFinish
  /\ MonitorFinishes

LEMMA RolesOfJob ==
  /\ Monitor \in Roles /\ Server \in Roles /\ Rank0 \in Workers
  /\ \A w \in Workers : w \in Roles /\ w # Monitor /\ w # Server
  /\ Monitor # Server
  /\ Batches \in Nat /\ Batches > 0
BY JobAssumption

LEMMA JobInitInv == JobInit => JobInv
<1> SUFFICES ASSUME JobInit PROVE JobInv
  OBVIOUS
<1>1. proc = [r \in Roles |-> "new"]
  BY DEF JobInit, LaunchInit
<1>2. \A r \in Roles : ~Ended(r)
  BY <1>1 DEF Ended
<1>3. at \in [Roles -> Places] /\ \A w \in Workers : at[w] # "closing"
  BY RolesOfJob DEF JobInit, Places
<1>4. WorkersFinish /\ MonitorFinishes
  BY <1>2, <1>3, RolesOfJob DEF WorkersFinish, MonitorFinishes
<1>5. proc \in [Roles -> ProcStates] /\ batch \in [Workers -> Nat] /\ saved \in {0, Batches}
  BY <1>1, RolesOfJob DEF JobInit
<1>6. QED
  BY <1>3, <1>4, <1>5 DEF JobInv

(* Whatever is not a target's own return completes nobody.                 *)
LEMMA NobodyCompletes ==
  ASSUME JobInv, NEW r \in Roles,
         \/ Supervise \/ Disturb \/ UNCHANGED proc
         \/ \E q \in Roles : Fail(q) \/ Exit(q) \/ Die(q)
  PROVE  Ended(r)' => Ended(r)
<1>0. proc \in [Roles -> ProcStates]
  BY DEF JobInv
<1>1. CASE Start
  BY <1>0, <1>1 DEF Start, Become, Ended
<1>2. CASE Poll \/ Inspect \/ Conclude \/ Disturb \/ UNCHANGED proc
  BY <1>2 DEF Poll, Inspect, Conclude, Disturb, StartFails, Interrupt, TimeOut, Ended
<1>3. CASE Terminate
  BY <1>0, <1>3 DEF Terminate, Ended
<1>4. CASE Reap
  BY <1>0, <1>4 DEF Reap, Become, Ended
<1>5. ASSUME NEW q \in Roles, Fail(q) \/ Exit(q) \/ Die(q)
      PROVE  Ended(r)' => Ended(r)
  BY <1>0, <1>5 DEF Fail, Exit, Die, Become, Ended
<1>6. QED
  BY <1>1, <1>2, <1>3, <1>4, <1>5 DEF Supervise

(* One target returns, and completes nobody else.                          *)
LEMMA OneCompletes ==
  ASSUME JobInv, NEW r \in Roles, NEW q \in Roles, Complete(q), r # q
  PROVE  Ended(r)' => Ended(r)
BY DEF JobInv, Complete, Become, Ended

(* Steps that complete nobody and leave the job's own state alone.         *)
LEMMA JobStateKept ==
  ASSUME JobInv, UNCHANGED jobVars, proc' \in [Roles -> ProcStates],
         \A r \in Roles : Ended(r)' => Ended(r)
  PROVE  JobInv'
<1>1. WorkersFinish'
  BY RolesOfJob DEF JobInv, jobVars, WorkersFinish, NeedsSaving
<1>2. MonitorFinishes'
  BY RolesOfJob DEF JobInv, jobVars, MonitorFinishes, ExpectedRecords
<1>3. QED
  BY <1>1, <1>2 DEF JobInv, jobVars

LEMMA JobInvPreserved ==
  ASSUME JobInv, proc' \in [Roles -> ProcStates], [JobNext]_vars
  PROVE  JobInv'
<1>0. /\ at \in [Roles -> Places] /\ batch \in [Workers -> Nat] /\ saved \in {0, Batches}
      /\ WorkersFinish /\ MonitorFinishes
  BY DEF JobInv
<1>1. CASE /\ UNCHANGED jobVars
           /\ \/ Supervise \/ Disturb \/ UNCHANGED proc
              \/ \E q \in Roles : Fail(q) \/ Exit(q) \/ Die(q)
  BY <1>1, NobodyCompletes, JobStateKept
<1>2. CASE MonitorStep
  <2>1. CASE WriteRecord
    <3>1. proc' = proc /\ ~Ended(Monitor)
      BY <2>1 DEF WriteRecord, Runs, launchVars, Ended
    <3>2. UNCHANGED <<app, at, conn, batch, saved>>
      BY <2>1 DEF WriteRecord
    <3>3. WorkersFinish' /\ MonitorFinishes'
      BY <1>0, <3>1, <3>2 DEF WorkersFinish, MonitorFinishes, NeedsSaving, Ended
    <3>4. QED
      BY <1>0, <3>2, <3>3 DEF JobInv
  <2>2. CASE MonitorReturns
    <3>1. UNCHANGED jobVars /\ written = ExpectedRecords /\ Complete(Monitor)
      BY <2>2 DEF MonitorReturns
    <3>2. WorkersFinish'
      BY <1>0, <3>1, OneCompletes, RolesOfJob DEF jobVars, WorkersFinish, NeedsSaving
    <3>3. MonitorFinishes'
      BY <3>1 DEF jobVars, MonitorFinishes, ExpectedRecords
    <3>4. QED
      BY <1>0, <3>1, <3>2, <3>3 DEF JobInv, jobVars
  <2>3. QED
    BY <1>2, <2>1, <2>2 DEF MonitorStep
<1>3. CASE ServerStep
  <2>1. CASE AcceptStopped
    BY <1>1, <2>1, RolesOfJob DEF AcceptStopped
  <2>2. CASE ServerReturns
    <3>1. UNCHANGED jobVars /\ Complete(Server)
      BY <2>2 DEF ServerReturns
    <3>2. WorkersFinish' /\ MonitorFinishes'
      BY <1>0, <3>1, OneCompletes, RolesOfJob
      DEF jobVars, WorkersFinish, MonitorFinishes, NeedsSaving, ExpectedRecords
    <3>3. QED
      BY <1>0, <3>1, <3>2 DEF JobInv, jobVars
  <2>3. CASE Listen \/ \E w \in Workers : Accept(w) \/ ThreadEnds(w)
    <3>1. proc' = proc /\ UNCHANGED <<app, batch, written, saved>>
      BY <2>3 DEF Listen, Accept, ThreadEnds, launchVars
    <3>2. at' \in [Roles -> Places] /\ \A w \in Workers : at'[w] = at[w]
      BY <1>0, <2>3, RolesOfJob DEF Listen, Accept, ThreadEnds, Goto, Places
    <3>3. WorkersFinish' /\ MonitorFinishes'
      BY <1>0, <3>1, <3>2 DEF WorkersFinish, MonitorFinishes, NeedsSaving, Ended, ExpectedRecords
    <3>4. QED
      BY <1>0, <3>1, <3>2, <3>3 DEF JobInv
  <2>4. QED
    BY <1>3, <2>1, <2>2, <2>3 DEF ServerStep
<1>4. ASSUME NEW w \in Workers, WorkerStep(w) PROVE JobInv'
  <2>0. w \in Roles /\ w # Monitor
    BY RolesOfJob
  <2>1. CASE SeeStop(w) \/ LoseServer(w)
    BY <1>1, <2>0, <2>1 DEF SeeStop, LoseServer
  <2>2. CASE Connect(w) \/ Registered(w) \/ Push(w) \/ Advance(w)
    <3>1. /\ proc' = proc /\ UNCHANGED <<app, written, saved>>
          /\ proc[w] = "running" /\ at[w] # "closing"
      BY <2>2 DEF Connect, Registered, Push, Advance, launchVars, Runs
    <3>2. \E l \in {"registering", "training", "pushing"} : Goto(w, l)
      BY <2>2 DEF Connect, Registered, Push, Advance
    <3>3. /\ at' \in [Roles -> Places] /\ at'[w] # "closing"
          /\ \A v \in Workers : v # w => at'[v] = at[v]
      BY <1>0, <2>0, <3>2, RolesOfJob DEF Goto, Places
    <3>4. /\ batch' \in [Workers -> Nat]
          /\ \A v \in Workers : v # w => batch'[v] = batch[v]
      BY <1>0, <2>2 DEF Connect, Registered, Push, Advance
    <3>5. WorkersFinish' /\ MonitorFinishes'
      BY <1>0, <3>1, <3>3, <3>4
      DEF WorkersFinish, MonitorFinishes, NeedsSaving, Ended, ExpectedRecords
    <3>6. QED
      BY <1>0, <3>1, <3>3, <3>4, <3>5 DEF JobInv
  <2>3. CASE SaveCheckpoint(w)
    <3>1. /\ proc' = proc /\ UNCHANGED <<app, at, batch, written>>
          /\ saved' = Batches /\ w = Rank0 /\ batch[w] = Batches
      BY <2>3 DEF SaveCheckpoint, NeedsSaving, launchVars
    <3>2. WorkersFinish' /\ MonitorFinishes'
      BY <1>0, <3>1 DEF WorkersFinish, MonitorFinishes, NeedsSaving, Ended, ExpectedRecords
    <3>3. QED
      BY <1>0, <3>1, <3>2 DEF JobInv
  <2>4. CASE Close(w)
    <3>1. /\ proc' = proc /\ UNCHANGED <<app, batch, written, saved>>
          /\ batch[w] = Batches
          /\ NeedsSaving(w) => saved > 0
          /\ Goto(w, "closing")
      BY <2>4 DEF Close, launchVars
    <3>2. /\ at' \in [Roles -> Places]
          /\ \A v \in Workers : v # w => at'[v] = at[v]
      BY <1>0, <2>0, <3>1, RolesOfJob DEF Goto, Places
    <3>3. NeedsSaving(w) => saved = Batches
      BY <1>0, <3>1, RolesOfJob
    <3>4. WorkersFinish' /\ MonitorFinishes'
      BY <1>0, <3>1, <3>2, <3>3
      DEF WorkersFinish, MonitorFinishes, NeedsSaving, Ended, ExpectedRecords
    <3>5. QED
      BY <1>0, <3>1, <3>2, <3>4 DEF JobInv
  <2>5. CASE Closed(w)
    <3>1. Complete(w) /\ UNCHANGED <<app, at, batch, written, saved>> /\ at[w] = "closing"
      BY <2>5 DEF Closed
    <3>2. \A r \in Roles : r # w /\ Ended(r)' => Ended(r)
      BY <2>0, <3>1, OneCompletes
    <3>3. WorkersFinish'
      BY <1>0, <3>1, <3>2, RolesOfJob DEF WorkersFinish, NeedsSaving
    <3>4. MonitorFinishes'
      BY <1>0, <2>0, <3>1, <3>2, RolesOfJob DEF MonitorFinishes, ExpectedRecords
    <3>5. QED
      BY <1>0, <3>1, <3>3, <3>4 DEF JobInv
  <2>6. QED
    BY <1>4, <2>1, <2>2, <2>3, <2>4, <2>5 DEF WorkerStep
<1>5. CASE Fault
  BY <1>1, <1>5, RolesOfJob DEF Fault, Raise, PeerTimedOut
<1>6. CASE Over \/ UNCHANGED vars
  BY <1>1, <1>6 DEF Over, vars, launchVars
<1>7. CASE Supervise /\ UNCHANGED jobVars
  BY <1>1, <1>7
<1>8. CASE \E r \in Roles : ProcessStep(r)
  BY <1>1, <1>8 DEF ProcessStep
<1>9. QED
  BY <1>2, <1>3, <1>4, <1>5, <1>6, <1>7, <1>8 DEF JobNext

(* A job that succeeds has trained, recorded and saved everything, for any *)
(* number of workers and batches: the launcher sees exit code 0 of every   *)
(* role, and nobody gets there without having done all of its part.        *)
THEOREM SuccessIsComplete == JobSpec => []SummaryIsComplete
<1>1. JobInv /\ NobodyLeftBehind => SummaryIsComplete
  BY RolesOfJob
  DEF JobInv, NobodyLeftBehind, SummaryIsComplete, WorkersFinish, MonitorFinishes, Ended, NeedsSaving
<1>2. JobInv /\ LaunchTypeOK' /\ [JobNext]_vars => JobInv'
  BY JobInvPreserved DEF LaunchTypeOK
<1>3. QED
  BY <1>1, <1>2, JobInitInv, JobImplementsLauncher, LauncherTypes, JobLeavesNobody, PTL
  DEF JobSpec

-----------------------------------------------------------------------------
(* The values of the job's state.  Records are put once per batch: those in *)
(* the queue and those in the file are as many as the batches done.        *)

BatchesDone == {p \in Workers \X (1 .. Batches) : p[2] <= batch[p[1]]}

JobTypes ==
  /\ app \in Apps
  /\ at \in [Roles -> Places]
  /\ conn \in [Workers -> {"none", "queued", "open", "closed"}]
  /\ batch \in [Workers -> 0 .. Batches]
  /\ metrics \in Nat /\ written \in Nat
  /\ saved \in {0, Batches}

OneRecordPerBatch == metrics + written = Cardinality(BatchesDone)

PushesInRange == \A w \in Workers : at[w] = "pushing" => batch[w] < Batches

CountInv == JobTypes /\ OneRecordPerBatch /\ PushesInRange

LEMMA AllBatches ==
  ASSUME NEW S \in SUBSET (Workers \X (1 .. Batches))
  PROVE  IsFiniteSet(S) /\ Cardinality(S) \in Nat /\ Cardinality(S) <= ExpectedRecords
<1>1. IsFiniteSet(1 .. Batches) /\ Cardinality(1 .. Batches) = Batches
  BY FS_Interval, RolesOfJob
<1>2. /\ IsFiniteSet(Workers \X (1 .. Batches))
      /\ Cardinality(Workers \X (1 .. Batches)) = Cardinality(Workers) * Batches
  BY <1>1, FS_Product, JobAssumption
<1>3. Cardinality(Workers) \in Nat
  BY FS_CardinalityType, JobAssumption
<1>4. IsFiniteSet(S) /\ Cardinality(S) <= Cardinality(Workers \X (1 .. Batches))
  BY <1>2, FS_Subset
<1>5. Cardinality(S) \in Nat
  BY <1>4, FS_CardinalityType
<1>6. QED
  BY <1>2, <1>3, <1>4, <1>5, RolesOfJob DEF ExpectedRecords

LEMMA CountInit == JobInit => CountInv
<1> SUFFICES ASSUME JobInit PROVE CountInv
  OBVIOUS
<1>1. at \in [Roles -> Places] /\ \A w \in Workers : at[w] = "connecting"
  BY RolesOfJob DEF JobInit, Places
<1>2. JobTypes
  BY <1>1, RolesOfJob DEF JobInit, JobTypes
<1>3. BatchesDone = {}
  <2>1. \A p \in Workers \X (1 .. Batches) : batch[p[1]] = 0 /\ p[2] \in Nat /\ p[2] > 0
    BY RolesOfJob DEF JobInit
  <2>2. QED
    BY <2>1 DEF BatchesDone
<1>4. OneRecordPerBatch
  BY <1>3, FS_EmptySet DEF JobInit, OneRecordPerBatch
<1>5. QED
  BY <1>1, <1>2, <1>4 DEF CountInv, PushesInRange

LEMMA OneBatchMore ==
  ASSUME JobTypes, NEW w \in Workers, batch[w] < Batches,
         batch' = [batch EXCEPT ![w] = @ + 1]
  PROVE  /\ batch' \in [Workers -> 0 .. Batches]
         /\ Cardinality(BatchesDone') = Cardinality(BatchesDone) + 1
<1>1. batch \in [Workers -> 0 .. Batches] /\ batch[w] \in Nat /\ Batches \in Nat
  BY RolesOfJob DEF JobTypes
<1>2. batch' \in [Workers -> 0 .. Batches]
  BY <1>1
<1> DEFINE new == <<w, batch[w] + 1>>
<1>3. new \in Workers \X (1 .. Batches)
  BY <1>1
<1>4. new \notin BatchesDone
  BY <1>1 DEF BatchesDone
<1>5. BatchesDone' \subseteq BatchesDone \cup {new}
  <2>1. ASSUME NEW v \in Workers, NEW n \in 1 .. Batches, n <= batch'[v], ~(n <= batch[v])
        PROVE  v = w /\ n = batch[w] + 1
    BY <1>1, <2>1
  <2>2. QED
    BY <2>1 DEF BatchesDone
<1>6. BatchesDone \cup {new} \subseteq BatchesDone'
  <2>1. \A v \in Workers : batch[v] \in Nat /\ batch'[v] \in Nat /\ batch[v] <= batch'[v]
    BY <1>1, <1>2
  <2>2. BatchesDone \subseteq BatchesDone'
    BY <2>1 DEF BatchesDone
  <2>3. new \in BatchesDone'
    BY <1>1, <1>3 DEF BatchesDone
  <2>4. QED
    BY <2>2, <2>3
<1>7. BatchesDone' = BatchesDone \cup {new}
  BY <1>5, <1>6
<1>8. IsFiniteSet(BatchesDone)
  BY AllBatches DEF BatchesDone
<1> HIDE DEF new
<1>9. Cardinality(BatchesDone \cup {new}) = Cardinality(BatchesDone) + 1
  BY <1>4, <1>8, FS_AddElement
<1>10. QED
  BY <1>2, <1>7, <1>9

LEMMA CountNext == CountInv /\ [JobNext]_vars => CountInv'
<1> SUFFICES ASSUME CountInv, [JobNext]_vars PROVE CountInv'
  OBVIOUS
<1>0. /\ JobTypes /\ OneRecordPerBatch /\ PushesInRange
      /\ at \in [Roles -> Places] /\ conn \in [Workers -> {"none", "queued", "open", "closed"}]
      /\ batch \in [Workers -> 0 .. Batches] /\ metrics \in Nat /\ written \in Nat
      /\ saved \in {0, Batches} /\ app \in Apps
  BY DEF CountInv, JobTypes
<1>1. CASE UNCHANGED jobVars
  BY <1>0, <1>1 DEF CountInv, JobTypes, OneRecordPerBatch, PushesInRange, BatchesDone, jobVars
<1>2. ASSUME UNCHANGED <<app, batch, metrics, written>>, saved' \in {0, Batches},
             at' \in [Roles -> Places],
             \A w \in Workers : at'[w] = "pushing" => at[w] = "pushing" \/ batch[w] < Batches,
             conn' \in [Workers -> {"none", "queued", "open", "closed"}]
      PROVE  CountInv'
  BY <1>0, <1>2 DEF CountInv, JobTypes, OneRecordPerBatch, PushesInRange, BatchesDone
<1>3. ASSUME NEW r \in Roles, NEW l \in Places, Goto(r, l),
             l = "pushing" => r \in Workers /\ batch[r] < Batches
      PROVE  /\ at' \in [Roles -> Places]
             /\ \A w \in Workers : at'[w] = "pushing" => at[w] = "pushing" \/ batch[w] < Batches
  BY <1>0, <1>3, RolesOfJob DEF Goto
<1>4. CASE WriteRecord
  <2>1. /\ metrics' \in Nat /\ written' \in Nat /\ metrics' + written' = metrics + written
        /\ UNCHANGED <<app, at, conn, batch, saved>>
    BY <1>0, <1>4 DEF WriteRecord
  <2>2. QED
    BY <1>0, <2>1 DEF CountInv, JobTypes, OneRecordPerBatch, PushesInRange, BatchesDone
<1>5. CASE Listen \/ \E w \in Workers : Accept(w)
  <2>1. Goto(Server, "accepting") \/ Goto(Server, "waiting") \/ UNCHANGED at
    BY <1>5 DEF Listen, Accept
  <2>2. "accepting" \in Places /\ "waiting" \in Places
    BY DEF Places
  <2>3. /\ at' \in [Roles -> Places]
        /\ \A w \in Workers : at'[w] = "pushing" => at[w] = "pushing" \/ batch[w] < Batches
    BY <1>0, <1>3, <2>1, <2>2, RolesOfJob
  <2>4. /\ UNCHANGED <<app, batch, metrics, written, saved>>
        /\ conn' \in [Workers -> {"none", "queued", "open", "closed"}]
    BY <1>0, <1>5 DEF Listen, Accept
  <2>5. QED
    BY <1>0, <1>2, <2>3, <2>4
<1>6. ASSUME NEW w \in Workers, ThreadEnds(w) PROVE CountInv'
  BY <1>0, <1>2, <1>6 DEF ThreadEnds
<1>7. ASSUME NEW w \in Workers, WorkerStep(w) PROVE CountInv'
  <2>1. w \in Roles /\ w # Monitor /\ w # Server
    BY RolesOfJob
  <2>2. CASE SeeStop(w) \/ LoseServer(w)
    BY <1>1, <2>2 DEF SeeStop, LoseServer
  <2>3. CASE Connect(w) \/ Registered(w) \/ Push(w) \/ Close(w)
    <3>1. \E l \in {"registering", "training", "pushing", "closing"} :
             Goto(w, l) /\ (l = "pushing" => batch[w] < Batches)
      BY <2>3 DEF Connect, Registered, Push, Close
    <3>2. {"registering", "training", "pushing", "closing"} \subseteq Places
      BY DEF Places
    <3>3. /\ at' \in [Roles -> Places]
          /\ \A v \in Workers : at'[v] = "pushing" => at[v] = "pushing" \/ batch[v] < Batches
      BY <1>3, <2>1, <3>1, <3>2
    <3>4. /\ UNCHANGED <<app, batch, metrics, written, saved>>
          /\ conn' \in [Workers -> {"none", "queued", "open", "closed"}]
      BY <1>0, <2>3 DEF Connect, Registered, Push, Close
    <3>5. QED
      BY <1>0, <1>2, <3>3, <3>4
  <2>4. CASE Advance(w)
    <3>1. /\ at[w] = "pushing" /\ batch' = [batch EXCEPT ![w] = @ + 1]
          /\ metrics' = metrics + 1 /\ Goto(w, "training")
          /\ UNCHANGED <<app, conn, written, saved>>
      BY <2>4 DEF Advance
    <3>2. batch[w] < Batches
      BY <1>0, <3>1 DEF PushesInRange
    <3>3. /\ batch' \in [Workers -> 0 .. Batches]
          /\ Cardinality(BatchesDone') = Cardinality(BatchesDone) + 1
      BY <1>0, <3>1, <3>2, OneBatchMore
    <3>4. at' \in [Roles -> Places] /\ at'[w] = "training"
      BY <1>0, <2>1, <3>1 DEF Goto, Places
    <3>5. PushesInRange'
      <4>1. \A v \in Workers : v # w => at'[v] = at[v] /\ batch'[v] = batch[v]
        BY <1>0, <3>1, RolesOfJob DEF Goto
      <4>2. QED
        BY <1>0, <3>4, <4>1 DEF PushesInRange
    <3>6. JobTypes'
      BY <1>0, <3>1, <3>3, <3>4 DEF JobTypes
    <3>7. OneRecordPerBatch'
      <4>1. Cardinality(BatchesDone) \in Nat
        BY AllBatches DEF BatchesDone
      <4>2. QED
        BY <1>0, <3>1, <3>3, <4>1 DEF OneRecordPerBatch
    <3>8. QED
      BY <3>5, <3>6, <3>7 DEF CountInv
  <2>5. CASE SaveCheckpoint(w)
    <3>1. saved' = Batches /\ UNCHANGED <<app, at, conn, batch, metrics, written>>
      BY <2>5 DEF SaveCheckpoint
    <3>2. QED
      BY <1>0, <1>2, <3>1
  <2>6. CASE Closed(w)
    <3>1. /\ UNCHANGED <<app, at, batch, metrics, written, saved>>
          /\ conn' \in [Workers -> {"none", "queued", "open", "closed"}]
      BY <1>0, <2>6 DEF Closed
    <3>2. QED
      BY <1>0, <1>2, <3>1
  <2>7. QED
    BY <1>7, <2>2, <2>3, <2>4, <2>5, <2>6 DEF WorkerStep
<1>8. QED
  BY <1>1, <1>4, <1>5, <1>6, <1>7
  DEF JobNext, MonitorStep, MonitorReturns, ServerStep, AcceptStopped, ServerReturns, ProcessStep,
      Fault, Raise, PeerTimedOut, Over, vars

LEMMA CountMeans == CountInv /\ LaunchTypeOK => JobTypeOK
<1> SUFFICES ASSUME CountInv, LaunchTypeOK PROVE JobTypeOK
  OBVIOUS
<1>1. /\ Cardinality(BatchesDone) \in Nat /\ Cardinality(BatchesDone) <= ExpectedRecords
      /\ ExpectedRecords \in Nat
  <2>1. Cardinality(BatchesDone) \in Nat /\ Cardinality(BatchesDone) <= ExpectedRecords
    BY AllBatches DEF BatchesDone
  <2>2. Cardinality(Workers) \in Nat
    BY FS_CardinalityType, JobAssumption
  <2>3. QED
    BY <2>1, <2>2, RolesOfJob DEF ExpectedRecords
<1>2. metrics \in 0 .. ExpectedRecords /\ written \in 0 .. ExpectedRecords
  BY <1>1 DEF CountInv, JobTypes, OneRecordPerBatch
<1>3. saved \in 0 .. Batches
  BY RolesOfJob DEF CountInv, JobTypes
<1>4. QED
  BY <1>2, <1>3 DEF CountInv, JobTypes, JobTypeOK, Places

(* Every variable of the job keeps its type.  In particular no worker goes *)
(* beyond its batches, and the metric queue never holds, nor the file gets, *)
(* more records than the monitor expects before it returns.                *)
THEOREM JobTypesHold == JobSpec => []JobTypeOK
BY CountMeans, CountInit, CountNext, JobImplementsLauncher, LauncherTypes, PTL DEF JobSpec
=============================================================================
