------------------------------ MODULE Dashboard ------------------------------
(***************************************************************************)
(* What a browser is shown of a training: the status composed of the newest *)
(* run's files and the controller's snapshot (legacy_train_status), pushed *)
(* over a WebSocket whenever a signature of the two has changed             *)
(* (legacy_train_updates).                                                 *)
(*                                                                         *)
(* Files and snapshot are read one after the other while trainer, waiter   *)
(* and requests go on, and the signature does not cover all that is shown. *)
(***************************************************************************)
EXTENDS TrainingController

VARIABLES
  socket,  \* where the WebSocket's loop is
  seen,    \* the signature it has last seen
  view     \* the status it has sent since

viewerVars == <<socket, seen, view>>

(* The run updated last, by run.json's updated_at, and its last record.    *)
CurrentRun == recent
LastRecord(r) == IF metrics[r] = <<>> THEN 0 ELSE Last(metrics[r])

CurrentBundle ==
  IF CurrentRun = None THEN [run |-> None, status |-> "idle", epoch |-> 0]
  ELSE [run |-> CurrentRun, status |-> status[CurrentRun], epoch |-> LastRecord(CurrentRun)]

(* TrainingProcessController.snapshot. *)
Snapshot ==
  [run |-> current, running |-> Alive(process), paused |-> Alive(process) /\ paused,
   message |-> message]

(* legacy_status: what the files alone say.                                *)
FileStatus(b) ==
  [run |-> b.run, running |-> b.status = "running", paused |-> FALSE, message |-> b.status,
   epoch |-> b.epoch]

(* Overruled by the controller's snapshot if it has a run; the files of     *)
(* another run than that say nothing about it.                             *)
Status(b, s) ==
  IF s.run = None THEN FileStatus(b)
  ELSE [run |-> s.run, running |-> s.running, paused |-> s.paused, message |-> s.message,
        epoch |-> IF b.run = s.run THEN b.epoch ELSE 0]

(* The time of the newest run's latest.json. *)
Modified ==
  IF CurrentRun = None \/ latest[CurrentRun] = 0 THEN <<>>
  ELSE <<CurrentRun, latest[CurrentRun]>>

(* Faulty variant: the message is not part of it. *)
SignatureOfFiles == [latest |-> Modified, snapshot |-> [Snapshot EXCEPT !.message = "any"]]

Signature == [latest |-> Modified, snapshot |-> Snapshot]

-----------------------------------------------------------------------------
(* One round of the WebSocket's loop: look; compose and send.              *)

(* websocket.accept.  Bound: during or after the controller's last run, the *)
(* earlier ones having completed or never begun.                           *)
Connect ==
  /\ socket = "closed"
  /\ current = MaxRuns
  /\ \A r \in 1 .. MaxRuns - 1 : proc[r] \in {"zero", "void"}
  /\ socket' = "looking"
  /\ UNCHANGED <<seen, view, dashboardVars>>

Look ==
  /\ socket = "looking"
  /\ Signature # seen
  /\ seen' = Signature
  /\ socket' = "sending"
  /\ view' = None
  /\ UNCHANGED dashboardVars

(* legacy_train_status reads the files and then the snapshot.  In one step:  *)
(* what is overtaken in between is in the signature, and sent again.        *)
Send ==
  /\ socket = "sending"
  /\ view' = Status(CurrentBundle, Snapshot)
  /\ socket' = "looking"
  /\ UNCHANGED <<seen, dashboardVars>>

ViewerInit ==
  /\ socket = "closed"
  /\ seen = None
  /\ view = None

ViewerStep == Look \/ Send

-----------------------------------------------------------------------------
(* Properties. *)

ViewerTypeOK == socket \in {"looking", "sending", "closed"}

(* The browser is not left with an old picture of a run this dashboard has *)
(* started: once nothing moves any more it shows the controller's state    *)
(* and the last recorded epoch.  (A run from the shell moves only its       *)
(* files, and of those only latest.json is in the signature.)              *)
ViewCatchesUp ==
  []<>(socket = "closed" \/ current = None \/ Alive(process) \/ view = Status(CurrentBundle, Snapshot))
=============================================================================
