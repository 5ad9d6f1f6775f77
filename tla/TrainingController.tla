------------------------- MODULE TrainingController --------------------------
(***************************************************************************)
(* TrainingProcessController: the one training process of a dashboard, the *)
(* lock its requests are handled under, and the waiter thread of every     *)
(* process it has started.                                                 *)
(*                                                                         *)
(* A process ends by itself; its waiter learns of it later, needs the lock, *)
(* and writes run.json after it has given the lock back.  In between other *)
(* requests are handled, among them the start of the next run, which may   *)
(* itself fail half-way.                                                   *)
(***************************************************************************)
EXTENDS Trainer

CONSTANTS
  MayPause,   \* runs that may be paused
  MayRestart  \* whether the dashboard may be killed and started again

VARIABLES
  process,  \* the run whose process it holds
  current,  \* run_id
  paused, message, stopRequested,
  waiter,   \* per run: its waiter thread
  errand    \* per run: what the waiter has read under the lock

controllerVars == <<process, current, paused, message, stopRequested, waiter, errand>>
dashboardVars == <<trainerVars, controllerVars>>

Alive(r) == r # None /\ proc[r] = "alive"
NoErrand == [run |-> None, stopped |-> FALSE]

-----------------------------------------------------------------------------
(* The requests. *)

(* The assignments of start before the process is there. *)
Prepare(r) ==
  /\ ~Alive(process)
  /\ current' = r
  /\ paused' = FALSE
  /\ stopRequested' = FALSE
  /\ message' = "starting"

(* Bound: none is started beside a run from the shell; beside one that a    *)
(* restart of the dashboard has left alone, it may be.                     *)
Start(r) ==
  /\ Prepare(r)
  /\ \A q \in Runs : proc[q] = "alive" => waiter[q] = "lost"
  /\ Launch(r, Default, FALSE)
  /\ process' = r
  /\ waiter' = [waiter EXCEPT ![r] = "waiting"]
  /\ UNCHANGED errand

(* Popen raises: the run id is taken, the old process is still held.       *)
StartFails(r) ==
  /\ Prepare(r)
  /\ IsNext(r)
  /\ proc' = [proc EXCEPT ![r] = "void"]
  /\ UNCHANGED <<at, plan, suspended, epoch, net, fileVars, process, waiter, errand>>

Pause ==
  /\ Alive(process) /\ process \in MayPause
  /\ ~paused
  /\ suspended' = suspended \cup {process}
  /\ paused' = TRUE
  /\ message' = "paused"
  /\ UNCHANGED <<proc, at, plan, epoch, net, fileVars, process, current, stopRequested, waiter, errand>>

Resume ==
  /\ Alive(process)
  /\ paused
  /\ suspended' = suspended \ {process}
  /\ paused' = FALSE
  /\ message' = "resumed"
  /\ UNCHANGED <<proc, at, plan, epoch, net, fileVars, process, current, stopRequested, waiter, errand>>

Stop ==
  /\ Alive(process)
  /\ suspended' = suspended \ {process}
  /\ paused' = FALSE
  /\ stopRequested' = TRUE
  /\ message' = "stopping"
  /\ Killed(process)
  /\ UNCHANGED <<process, current, waiter, errand>>

-----------------------------------------------------------------------------
(* The waiter thread of run r: _wait. *)

(* Faulty variant: no look at whose process the controller holds by now. *)
AwakenAnyway(r) ==
  /\ waiter[r] = "waiting"
  /\ proc[r] \in Ended
  /\ waiter' = [waiter EXCEPT ![r] = "writing"]
  /\ paused' = FALSE
  /\ message' = IF stopRequested THEN "stopped"
                ELSE IF proc[r] = "zero" THEN "completed" ELSE "failed"
  /\ errand' = [errand EXCEPT ![r] = [run |-> current, stopped |-> stopRequested]]
  /\ UNCHANGED <<trainerVars, process, current, stopRequested>>

(* process.wait has returned, and the lock is taken. *)
Awaken(r) ==
  /\ waiter[r] = "waiting"
  /\ proc[r] \in Ended
  /\ \/ /\ process = r
        /\ waiter' = [waiter EXCEPT ![r] = "writing"]
        /\ paused' = FALSE
        /\ message' = IF stopRequested THEN "stopped"
                      ELSE IF proc[r] = "zero" THEN "completed" ELSE "failed"
        /\ errand' = [errand EXCEPT ![r] = [run |-> current, stopped |-> stopRequested]]
     \/ /\ process # r
        /\ waiter' = [waiter EXCEPT ![r] = "done"]
        /\ UNCHANGED <<paused, message, errand>>
  /\ UNCHANGED <<trainerVars, process, current, stopRequested>>

(* Faulty variant: the file is left as it is. *)
FinaliseNothing(r) ==
  /\ waiter[r] = "writing"
  /\ waiter' = [waiter EXCEPT ![r] = "done"]
  /\ errand' = [errand EXCEPT ![r] = NoErrand]
  /\ UNCHANGED <<trainerVars, process, current, paused, message, stopRequested>>

(* Without the lock: a run.json left "running" is given its end.           *)
Finalise(r) ==
  /\ waiter[r] = "writing"
  /\ waiter' = [waiter EXCEPT ![r] = "done"]
  /\ LET run == errand[r].run IN
       status' = IF status[run] = "running"
                 THEN [status EXCEPT ![run] = IF errand[r].stopped THEN "stopped" ELSE "failed"]
                 ELSE status
  /\ errand' = [errand EXCEPT ![r] = NoErrand]
  /\ UNCHANGED <<processVars, metrics, latest, recent, npz, json, process, current, paused,
                 message, stopRequested>>

-----------------------------------------------------------------------------

(* The dashboard is killed and started again: its waiters are gone, the     *)
(* training process, if there is one, goes on without it.  Bound: before    *)
(* the last run.                                                           *)
Restart ==
  /\ MayRestart
  /\ proc[MaxRuns] = "none"
  /\ current # None
  /\ process' = None
  /\ current' = None
  /\ paused' = FALSE
  /\ message' = "idle"
  /\ stopRequested' = FALSE
  /\ waiter' = [r \in Runs |-> IF waiter[r] \in {"waiting", "writing"} THEN "lost" ELSE waiter[r]]
  /\ errand' = [r \in Runs |-> NoErrand]
  /\ UNCHANGED trainerVars

(* A run from the shell, resuming or not, by a user who sees to it that    *)
(* nothing else trains on the map.                                         *)
RunFromShell(r, c, resume) ==
  /\ \A q \in Runs : proc[q] # "alive"
  /\ Launch(r, c, resume)
  /\ UNCHANGED controllerVars

ControllerInit ==
  /\ process = None
  /\ current = None
  /\ paused = FALSE
  /\ message = "idle"
  /\ stopRequested = FALSE
  /\ waiter = [r \in Runs |-> "none"]
  /\ errand = [r \in Runs |-> NoErrand]

WaiterStep(r) == Awaken(r) \/ Finalise(r)

Request ==
  \/ \E r \in Runs : Start(r) \/ StartFails(r)
  \/ Pause \/ Resume \/ Stop

-----------------------------------------------------------------------------
(* Properties. *)

(* The values of the controller's state. *)
ControllerTypeOK ==
  /\ process \in Runs \cup {None} /\ current \in Runs \cup {None}
  /\ paused \in BOOLEAN /\ stopRequested \in BOOLEAN
  /\ message \in {"idle", "starting", "paused", "resumed", "stopping",
                  "stopped", "completed", "failed"}
  /\ waiter \in [Runs -> {"none", "waiting", "writing", "done", "lost"}]
  /\ errand \in [Runs -> [run : Runs \cup {None}, stopped : BOOLEAN]]

(* Whoever wrote it, the trainer or a waiter thread that came late, a run's *)
(* status is true: a final one is never that of a run still training,      *)
(* "completed" means that the last epoch was recorded, and a waiter writes  *)
(* about no other run than its own.  A dashboard that was not restarted    *)
(* has one training process at most: the one it holds.                     *)
StatusIsTrue ==
  \A r \in Runs :
    /\ status[r] \in FinalStatus => proc[r] \in Ended \/ at[r] = "exiting"
    /\ status[r] = "completed" => plan[r].resume \/ metrics[r] = [n \in 1 .. Epochs |-> n]
    /\ waiter[r] = "waiting" /\ proc[r] = "alive" => process = r
    /\ errand[r].run \in {r, None} \/ proc[errand[r].run] = "void"

(* Superseded: another start came before the waiter of r could get the lock. *)
Superseded(r) == process # r \/ current # r

(* A run whose process has ended, however it has, does not stay "running", *)
(* unless the dashboard was restarted or another start got in before its   *)
(* waiter: that run is never finalised.                                    *)
RunsAreFinalised ==
  \A r \in Runs :
    (proc[r] \in Ended /\ waiter[r] # "none") ~>
      (status[r] # "running" \/ waiter[r] = "lost" \/ Superseded(r))
=============================================================================
