------------------------------ MODULE AutoDrive ------------------------------
(***************************************************************************)
(* The AutoDrive application: data are collected, a model is trained under  *)
(* the dashboard or from the shell, and driven with.  The three are done at *)
(* different times and meet in files only, so that a behaviour is about one *)
(* of them, and begins with what the one before may have left.             *)
(***************************************************************************)
EXTENDS Dashboard, DataCollection, Driver

VARIABLE activity

vars == <<activity, dashboardVars, viewerVars, dataVars, driverVars>>

(* The checkpoint and the sidecar that trainings leave: of one run, the     *)
(* sidecar an epoch behind at most; of two; or no sidecar yet; or neither.  *)
FilesLeft ==
  LET Npz(r, c, e) == [run |-> r, epoch |-> e, config |-> c, net |-> TrainedFor(e)]
      Json(r, c, e) == [run |-> r, epoch |-> e, config |-> c]
  IN  {<<NoFile, NoFile>>}
      \cup {<<Npz(1, c, 1), NoFile>> : c \in Configs}
      \cup {<<Npz(1, c, Epochs), Json(1, c, e)>> : c \in Configs, e \in {Epochs, Epochs - 1} \ {0}}
      \cup {<<Npz(r, c, e), Json(1, d, Epochs)>> :
               r \in Runs \cap {2}, c \in Configs, d \in Configs, e \in 1 .. Epochs}

Init ==
  /\ CollectionInit /\ ControllerInit /\ ViewerInit /\ DriverInit
  /\ \/ activity \in {"collecting", "training"} /\ TrainerInit
     \/ /\ activity = "driving" /\ NoRunYet
        /\ \E files \in FilesLeft : npz = files[1] /\ json = files[2]

Collecting ==
  /\ activity = "collecting"
  /\ CollectionStep
  /\ UNCHANGED <<activity, dashboardVars, viewerVars, driverVars>>

Training == activity = "training" /\ UNCHANGED <<activity, dataVars, driverVars>>

Trains(r) == Training /\ TrainerStep(r) /\ UNCHANGED <<controllerVars, viewerVars>>
Fails(r) == Training /\ TrainerFault(r) /\ UNCHANGED <<controllerVars, viewerVars>>
Waits(r) == Training /\ WaiterStep(r) /\ UNCHANGED viewerVars
Shows == Training /\ ViewerStep

UserStep ==
  /\ Training
  /\ \/ (Request \/ Restart) /\ UNCHANGED viewerVars
     \/ \E r \in Runs, c \in Chosen, resume \in BOOLEAN :
          RunFromShell(r, c, resume) /\ UNCHANGED viewerVars
     \/ Connect

Driving ==
  /\ activity = "driving"
  /\ DriverStep
  /\ UNCHANGED <<activity, dashboardVars, viewerVars, dataVars>>

Next ==
  \/ Collecting
  \/ \E r \in Runs : Trains(r) \/ Fails(r) \/ Waits(r)
  \/ UserStep \/ Shows
  \/ Driving

Spec == Init /\ [][Next]_vars

(* A process that is not suspended goes on, a waiter gets the lock, and the *)
(* WebSocket's loop is scheduled.  Users promise nothing.                   *)
FairSpec ==
  /\ Spec
  /\ \A r \in Runs : WF_vars(Trains(r)) /\ WF_vars(Waits(r))
  /\ WF_vars(Shows)

-----------------------------------------------------------------------------
(* Properties. *)

(* The values of every variable. *)
AutoDriveTypeOK ==
  /\ TrainerTypeOK /\ ControllerTypeOK /\ ViewerTypeOK
  /\ CollectionTypeOK
  /\ DriverTypeOK
  /\ activity \in {"collecting", "training", "driving"}
=============================================================================
