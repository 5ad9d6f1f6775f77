------------------------------ MODULE Launcher ------------------------------
(***************************************************************************)
(* Launcher.run: one operating-system process per role, and the parent     *)
(* that starts them, listens to the queue of their reports, looks at their *)
(* exit codes, and cleans up.  What a role does between its two reports is *)
(* its target's business; here it only ends well or raises.                *)
(*                                                                         *)
(* Reports and exit codes are two channels: the launcher takes one report  *)
(* at a time and looks at the exit codes afterwards, so a process may be   *)
(* seen dead before its own report of the failure is read.                 *)
(***************************************************************************)
EXTENDS Naturals, Sequences, FiniteSets

CONSTANTS
  Order,       \* the roles, in the order they are started
  MayDie,      \* roles whose process may be killed from outside
  SlowToEnd,   \* roles that may need longer than shutdown_timeout to exit
  Interruptible \* whether a start may fail, the user interrupt, time run out

Roles == {Order[i] : i \in DOMAIN Order}

ASSUME OrderAssumption ==
  /\ Order \in Seq(Roles)
  /\ Len(Order) > 0
  /\ \A i, j \in DOMAIN Order : Order[i] = Order[j] => i = j
ASSUME FaultsAssumption ==
  MayDie \subseteq Roles /\ SlowToEnd \subseteq Roles /\ Interruptible \in BOOLEAN
ASSUME LauncherIsNoRole == {"launcher", "none"} \cap Roles = {}

VARIABLES
  proc,       \* per role: its process
  statuses,   \* status_queue
  stop,       \* stop_event
  phase,      \* where Launcher.run is
  index,      \* the process its loop has come to
  completed,  \* roles whose completion it has read
  failure,    \* what it will raise, and whom it blames
  outcome     \* what run returned

launchVars == <<proc, statuses, stop, phase, index, completed, failure, outcome>>

Alive == {"running", "completing", "failing"}
ExitZero == "ok"
ExitNonzero == {"error", "killed"}
ProcStates == {"new", ExitZero} \cup Alive \cup ExitNonzero

NoFailure == [role |-> "none", why |-> "none"]
Failure == [role : Roles \cup {"launcher"},
            why : {"timeout", "report", "exit code", "interrupted", "not started"}]

StatusReport == [state : {"completed", "failed"}, role : Roles]

Become(r, s) == proc' = [proc EXCEPT ![r] = s]
Report(r, s) == statuses' = Append(statuses, [state |-> s, role |-> r])

-----------------------------------------------------------------------------
(* A role's process: _role_entry.  Its "started" report, which the launcher *)
(* takes and ignores, is left out.                                         *)

(* The target returns. *)
Complete(r) ==
  /\ proc[r] = "running"
  /\ Become(r, "completing")
  /\ Report(r, "completed")
  /\ UNCHANGED <<stop, phase, index, completed, failure, outcome>>

(* The target raises, whatever it raises. *)
Fail(r) ==
  /\ proc[r] = "running"
  /\ Become(r, "failing")
  /\ Report(r, "failed")
  /\ UNCHANGED <<stop, phase, index, completed, failure, outcome>>

(* The process ends, its report flushed. *)
Exit(r) ==
  /\ \/ proc[r] = "completing" /\ Become(r, ExitZero)
     \/ proc[r] = "failing" /\ Become(r, "error")
  /\ UNCHANGED <<statuses, stop, phase, index, completed, failure, outcome>>

(* Killed from outside: no report. *)
Die(r) ==
  /\ r \in MayDie
  /\ proc[r] \in Alive
  /\ Become(r, "killed")
  /\ UNCHANGED <<statuses, stop, phase, index, completed, failure, outcome>>

-----------------------------------------------------------------------------
(* The launcher. *)

Start ==
  /\ phase = "starting"
  /\ Become(Order[index], "running")
  /\ index' = IF index = Len(Order) THEN 1 ELSE index + 1
  /\ phase' = IF index = Len(Order) THEN "polling" ELSE "starting"
  /\ UNCHANGED <<statuses, stop, completed, failure, outcome>>

(* A supervised failure: out of the loop, and stop_event is set. *)
GiveUp(role, why) ==
  /\ failure' = [role |-> role, why |-> why]
  /\ phase' = "terminating"
  /\ index' = 1
  /\ stop' = TRUE

(* Any other exception: no stop_event, nobody is terminated.               *)
Unwind(why) ==
  /\ failure' = [role |-> "launcher", why |-> why]
  /\ phase' = "reaping"
  /\ index' = 1
  /\ UNCHANGED stop

StartFails ==
  /\ Interruptible
  /\ phase = "starting"
  /\ Unwind("not started")
  /\ UNCHANGED <<proc, statuses, completed, outcome>>

Interrupt ==
  /\ Interruptible
  /\ phase \in {"polling", "inspecting"}
  /\ Unwind("interrupted")
  /\ UNCHANGED <<proc, statuses, completed, outcome>>

TimeOut ==
  /\ Interruptible
  /\ phase = "polling"
  /\ GiveUp("launcher", "timeout")
  /\ UNCHANGED <<proc, statuses, completed, outcome>>

(* status_queue.get: one report, or queue.Empty.                           *)
Poll ==
  /\ phase = "polling"
  /\ \/ /\ statuses = <<>>
        /\ phase' = "inspecting"
        /\ UNCHANGED <<statuses, stop, index, completed, failure>>
     \/ /\ statuses # <<>>
        /\ statuses' = Tail(statuses)
        /\ IF Head(statuses).state = "failed"
           THEN GiveUp(Head(statuses).role, "report") /\ UNCHANGED completed
           ELSE /\ completed' = completed \cup {Head(statuses).role}
                /\ phase' = "inspecting"
                /\ UNCHANGED <<stop, index, failure>>
  /\ UNCHANGED <<proc, outcome>>

Dead(r) == r \notin completed /\ proc[r] \in ExitNonzero

(* r is the first of the roles rs, in the order of the processes.          *)
IsFirst(r, rs) ==
  \E i \in DOMAIN Order :
    r = Order[i] /\ r \in rs /\ \A j \in 1 .. i - 1 : Order[j] \notin rs

(* Faulty variant: trust the reports alone. *)
InspectNobody ==
  /\ phase = "inspecting"
  /\ phase' = IF completed = Roles THEN "reaping" ELSE "polling"
  /\ UNCHANGED <<index, stop, failure, proc, statuses, completed, outcome>>

(* The exit codes of the roles that have not completed.                    *)
Inspect ==
  /\ phase = "inspecting"
  /\ \/ \E r \in Roles :
          IsFirst(r, {q \in Roles : Dead(q)}) /\ GiveUp(r, "exit code")
     \/ /\ \A r \in Roles : ~Dead(r)
        /\ phase' = IF completed = Roles THEN "reaping" ELSE "polling"
        /\ UNCHANGED <<index, stop, failure>>
  /\ UNCHANGED <<proc, statuses, completed, outcome>>

(* terminate, for every process still alive: no handler delays it.         *)
Terminate ==
  /\ phase = "terminating"
  /\ proc' = [r \in Roles |-> IF proc[r] \in Alive THEN "killed" ELSE proc[r]]
  /\ phase' = "reaping"
  /\ UNCHANGED <<index, statuses, stop, completed, failure, outcome>>

(* Faulty variant: join, and no kill. *)
ReapPolitely ==
  /\ phase = "reaping"
  /\ index <= Len(Order)
  /\ proc[Order[index]] # "new"
  /\ index' = index + 1
  /\ UNCHANGED <<proc, outcome, phase, statuses, stop, completed, failure>>

(* join(shutdown_timeout), and kill what is still alive then.  Joining a    *)
(* process that was never started is an error of its own.                  *)
Reap ==
  /\ phase = "reaping"
  /\ index <= Len(Order)
  /\ LET r == Order[index] IN
       \/ /\ proc[r] \in {ExitZero} \cup ExitNonzero
          /\ index' = index + 1
          /\ UNCHANGED <<proc, outcome, phase>>
       \/ /\ \/ proc[r] = "running"
             \/ r \in SlowToEnd /\ proc[r] \in Alive
          /\ Become(r, "killed")
          /\ index' = index + 1
          /\ UNCHANGED <<outcome, phase>>
       \/ /\ proc[r] = "new"
          /\ outcome' = "raised"
          /\ phase' = "over"
          /\ UNCHANGED <<proc, index>>
  /\ UNCHANGED <<statuses, stop, completed, failure>>

Nonzero == {r \in Roles : proc[r] # ExitZero}

(* The end of run: raise the failure, else the first nonzero exit code.    *)
Conclude ==
  /\ phase = "reaping"
  /\ index > Len(Order)
  /\ phase' = "over"
  /\ \/ /\ failure # NoFailure
        /\ outcome' = "raised" /\ UNCHANGED failure
     \/ /\ failure = NoFailure
        /\ \E r \in Roles :
             IsFirst(r, Nonzero) /\ failure' = [role |-> r, why |-> "exit code"]
        /\ outcome' = "raised"
     \/ /\ failure = NoFailure /\ Nonzero = {}
        /\ outcome' = "ok" /\ UNCHANGED failure
  /\ UNCHANGED <<proc, statuses, stop, index, completed>>

-----------------------------------------------------------------------------

LaunchInit ==
  /\ proc = [r \in Roles |-> "new"]
  /\ statuses = <<>>
  /\ stop = FALSE
  /\ phase = "starting"
  /\ index = 1
  /\ completed = {}
  /\ failure = NoFailure
  /\ outcome = "none"

Supervise ==
  Start \/ Poll \/ Inspect \/ Terminate \/ Reap \/ Conclude

Disturb == StartFails \/ Interrupt \/ TimeOut

RoleStep(r) ==
  Complete(r) \/ Fail(r) \/ Exit(r) \/ Die(r)

(* Roles with arbitrary targets. *)
LaunchNext == Supervise \/ Disturb \/ \E r \in Roles : RoleStep(r)

LaunchSpec == LaunchInit /\ [][LaunchNext]_launchVars

-----------------------------------------------------------------------------
(* Properties. *)

(* The values of the launcher's state; index is in range where it is used. *)
LaunchTypeOK ==
  /\ proc \in [Roles -> ProcStates]
  /\ statuses \in Seq(StatusReport)
  /\ stop \in BOOLEAN
  /\ phase \in {"starting", "polling", "inspecting", "terminating", "reaping", "over"}
  /\ index \in 1 .. Len(Order) + 1
  /\ phase = "starting" => index <= Len(Order)
  /\ completed \subseteq Roles
  /\ failure \in Failure \cup {NoFailure}
  /\ outcome \in {"none", "ok", "raised"}

(* run leaves no process behind, however it ends: by returning, by a role's *)
(* failure, a timeout, an interrupt or a process that cannot be started.   *)
(* Whom it blames has in fact not ended well, and success is reported only  *)
(* when every process ended with exit code 0.                              *)
NobodyLeftBehind ==
  outcome # "none" =>
    /\ \A r \in Roles : proc[r] \notin Alive
    /\ failure.role \in Roles => proc[failure.role] \in ExitNonzero
    /\ outcome = "ok" => \A r \in Roles : proc[r] = ExitZero
=============================================================================
