------------------------------- MODULE Trainer -------------------------------
(***************************************************************************)
(* Training processes (train.py main) and the files they leave: the run's  *)
(* own directory (JSONLRunLogger) and, shared by all runs of one map, the   *)
(* checkpoint and its inference sidecar.                                   *)
(*                                                                         *)
(* Every file is replaced whole (os.replace) or appended to, one after the *)
(* other, and the process may be killed between any two of them.  The      *)
(* model in memory is the list of the shufflings of the data it has been   *)
(* trained on; a resumed run must continue the list, not repeat or skip.   *)
(***************************************************************************)
EXTENDS Naturals, Sequences, SequencesExt

CONSTANTS
  MaxRuns,  \* bound: the runs that may be started
  Epochs,   \* --epochs
  Configs,  \* model and preprocessing configurations of the map
  Default,  \* the one the dashboard's command line leaves as it is
  Chosen,   \* the ones that runs from the shell ask for
  MayRaise, \* runs whose training may raise or be interrupted
  MayDie,   \* runs whose process may be killed by the system
  None

Runs == 1 .. MaxRuns

ASSUME TrainerAssumption ==
  /\ Epochs \in Nat \ {0}
  /\ Default \in Configs /\ Chosen \subseteq Configs
  /\ MaxRuns \in Nat \ {0}
  /\ MayRaise \subseteq Runs /\ MayDie \subseteq Runs
  /\ None \notin Runs

VARIABLES
  proc,      \* per run: its process
  at,        \* per run: where main is
  plan,      \* per run: its configuration, and whether it resumes
  suspended, \* runs whose process is suspended
  epoch,     \* per run: the last epoch begun
  net,       \* per run: the model in memory
  status,    \* per run: run.json's
  metrics,   \* per run: the epochs recorded in metrics.jsonl
  latest,    \* per run: the epoch of latest.json
  recent,    \* the run whose run.json has the latest updated_at
  npz,       \* the checkpoint
  json       \* its inference sidecar

processVars == <<proc, at, plan, suspended, epoch, net>>
fileVars == <<status, metrics, latest, recent, npz, json>>
trainerVars == <<processVars, fileVars>>

Ended == {"zero", "nonzero", "killed"}
Inside == {"training", "checkpointing", "describing", "recording", "publishing"}
Outside == {"loading", "beginning", "summarizing"}
FinalStatus == {"completed", "failed", "stopped"}
NoFile == [run |-> None, epoch |-> 0, config |-> None, net |-> <<>>]

Runnable(r) == proc[r] = "alive" /\ r \notin suspended
Goto(r, l) == at' = [at EXCEPT ![r] = l]
Step(r, here, there) == Runnable(r) /\ at[r] = here /\ Goto(r, there)

-----------------------------------------------------------------------------

(* Run ids are timestamps: they are used in order. *)
IsNext(r) == proc[r] = "none" /\ \A q \in 1 .. r - 1 : proc[q] # "none"

(* The process of run r is spawned. *)
Launch(r, c, resume) ==
  /\ IsNext(r)
  /\ proc' = [proc EXCEPT ![r] = "alive"]
  /\ plan' = [plan EXCEPT ![r] = [config |-> c, resume |-> resume]]
  /\ UNCHANGED <<at, suspended, epoch, net, fileVars>>

(* The process ends: its memory is gone, its files stay. *)
Exits(r, code) ==
  /\ proc' = [proc EXCEPT ![r] = code]
  /\ at' = [at EXCEPT ![r] = "gone"]
  /\ epoch' = [epoch EXCEPT ![r] = 0]
  /\ net' = [net EXCEPT ![r] = <<>>]

(* load_checkpoint: a new model, or the one of the checkpoint.             *)
Loaded(r) == IF plan[r].resume THEN [epoch |-> npz.epoch, net |-> npz.net]
                               ELSE [epoch |-> 0, net |-> <<>>]

(* A checkpoint of another configuration, or none, is not resumed from.    *)
Mismatch(r) == plan[r].resume /\ npz.config # plan[r].config

(* Datasets, loaders, model; with --resume the checkpoint.                 *)
Load(r) ==
  /\ Step(r, "loading", "beginning")
  /\ ~Mismatch(r)
  /\ epoch' = [epoch EXCEPT ![r] = Loaded(r).epoch]
  /\ net' = [net EXCEPT ![r] = Loaded(r).net]
  /\ UNCHANGED <<proc, plan, suspended, fileVars>>

RefuseToResume(r) ==
  /\ Runnable(r) /\ at[r] = "loading"
  /\ Mismatch(r)
  /\ Exits(r, "nonzero")
  /\ UNCHANGED <<plan, suspended, fileVars>>

(* on_train_begin: the directory and run.json; then the data summary and an *)
(* empty metrics file.                                                     *)
OpenRun(r) ==
  /\ Step(r, "beginning", "summarizing")
  /\ status' = [status EXCEPT ![r] = "running"]
  /\ recent' = r
  /\ UNCHANGED <<proc, plan, suspended, epoch, net, metrics, latest, npz, json>>

Summarize(r) ==
  /\ Step(r, "summarizing", "training")
  /\ UNCHANGED <<proc, plan, suspended, epoch, net, fileVars>>

(* Faulty variant: set_epoch is forgotten on resume. *)
ShufflingAnew(r) == Len(metrics[r])

(* The shuffling of the epoch at hand: DataLoader.set_epoch(start_epoch - 1) *)
(* and one more with every iteration over the loader.                      *)
Shuffling(r) == epoch[r]

(* Faulty variant: one epoch too many, as with range(start, epochs + 2). *)
TrainEpochTooMany(r) ==
  /\ epoch[r] <= Epochs
  /\ Step(r, "training", "checkpointing")
  /\ epoch' = [epoch EXCEPT ![r] = @ + 1]
  /\ net' = [net EXCEPT ![r] = Append(@, Shuffling(r))]
  /\ UNCHANGED <<proc, plan, suspended, fileVars>>

(* train_epoch and evaluate_model. *)
TrainEpoch(r) ==
  /\ epoch[r] < Epochs
  /\ Step(r, "training", "checkpointing")
  /\ epoch' = [epoch EXCEPT ![r] = @ + 1]
  /\ net' = [net EXCEPT ![r] = Append(@, Shuffling(r))]
  /\ UNCHANGED <<proc, plan, suspended, fileVars>>

Checkpoint(r) == [run |-> r, epoch |-> epoch[r], config |-> plan[r].config, net |-> net[r]]

SaveCheckpoint(r) ==
  /\ Step(r, "checkpointing", "describing")
  /\ npz' = Checkpoint(r)
  /\ UNCHANGED <<proc, plan, suspended, epoch, net, status, metrics, latest, recent, json>>

InferenceConfig(r) == [run |-> r, epoch |-> epoch[r], config |-> plan[r].config]

SaveSidecar(r) ==
  /\ Step(r, "describing", "recording")
  /\ json' = InferenceConfig(r)
  /\ UNCHANGED <<proc, plan, suspended, epoch, net, status, metrics, latest, recent, npz>>

(* on_epoch_end: metrics.jsonl; then latest.json, validation.json, run.json. *)
Record(r) ==
  /\ Step(r, "recording", "publishing")
  /\ metrics' = [metrics EXCEPT ![r] = Append(@, epoch[r])]
  /\ UNCHANGED <<proc, plan, suspended, epoch, net, status, latest, recent, npz, json>>

Publish(r) ==
  /\ Step(r, "publishing", "training")
  /\ latest' = [latest EXCEPT ![r] = epoch[r]]
  /\ status' = [status EXCEPT ![r] = "running"]
  /\ recent' = r
  /\ UNCHANGED <<proc, plan, suspended, epoch, net, metrics, npz, json>>

(* The loop is over, or has raised: on_train_end.                          *)
Conclude(r, v) ==
  /\ Goto(r, "exiting")
  /\ status' = [status EXCEPT ![r] = v]
  /\ recent' = r
  /\ UNCHANGED <<proc, plan, suspended, epoch, net, metrics, latest, npz, json>>

FinishLoop(r) ==
  /\ Runnable(r) /\ at[r] = "training"
  /\ epoch[r] = Epochs
  /\ Conclude(r, "completed")

(* In an epoch, by an interrupt, or because a metric is not finite.         *)
RaiseInside(r) ==
  /\ r \in MayRaise
  /\ Runnable(r)
  /\ \/ at[r] = "training" /\ epoch[r] < Epochs /\ Conclude(r, "stopped")
     \/ at[r] = "recording" /\ Conclude(r, "failed")

(* Before the loop nothing is concluded: the directory is there already, or *)
(* the summary cannot be written.                                          *)
RaiseOutside(r) ==
  /\ r \in MayRaise
  /\ Runnable(r) /\ at[r] \in {"beginning", "summarizing"}
  /\ Exits(r, "nonzero")
  /\ UNCHANGED <<plan, suspended, fileVars>>

(* What was raised is raised again after on_train_end. *)
Exit(r) ==
  /\ Runnable(r) /\ at[r] = "exiting"
  /\ Exits(r, IF status[r] = "completed" THEN "zero" ELSE "nonzero")
  /\ UNCHANGED <<plan, suspended, fileVars>>

(* Killed: by the system, or by terminate(), which Python does not handle. *)
Killed(r) ==
  /\ proc[r] = "alive"
  /\ Exits(r, "killed")
  /\ UNCHANGED <<plan, fileVars>>

Die(r) == r \in MayDie /\ Killed(r) /\ UNCHANGED suspended

-----------------------------------------------------------------------------

(* No process, no run; the two shared files may be there. *)
NoRunYet ==
  /\ proc = [r \in Runs |-> "none"]
  /\ at = [r \in Runs |-> "loading"]
  /\ plan = [r \in Runs |-> None]
  /\ suspended = {}
  /\ epoch = [r \in Runs |-> 0]
  /\ net = [r \in Runs |-> <<>>]
  /\ status = [r \in Runs |-> "none"]
  /\ metrics = [r \in Runs |-> <<>>]
  /\ latest = [r \in Runs |-> 0]
  /\ recent = None

TrainerInit == NoRunYet /\ npz = NoFile /\ json = NoFile

TrainerStep(r) ==
  \/ Load(r) \/ RefuseToResume(r)
  \/ OpenRun(r) \/ Summarize(r)
  \/ TrainEpoch(r) \/ SaveCheckpoint(r) \/ SaveSidecar(r)
  \/ Record(r) \/ Publish(r)
  \/ FinishLoop(r) \/ Exit(r)

TrainerFault(r) == RaiseInside(r) \/ RaiseOutside(r) \/ Die(r)

-----------------------------------------------------------------------------
(* Properties. *)

(* The values of the state of processes and files. *)
TrainerTypeOK ==
  /\ proc \in [Runs -> {"none", "void", "alive"} \cup Ended]
  /\ at \in [Runs -> Inside \cup Outside \cup {"exiting", "gone"}]
  /\ plan \in [Runs -> {None} \cup [config : Configs, resume : BOOLEAN]]
  /\ suspended \subseteq {r \in Runs : proc[r] # "none"}
  /\ epoch \in [Runs -> 0 .. Epochs]
  /\ status \in [Runs -> {"none", "running"} \cup FinalStatus]
  /\ metrics \in [Runs -> Seq(1 .. Epochs)]
  /\ latest \in [Runs -> 0 .. Epochs]
  /\ recent \in Runs \cup {None}
  /\ \A f \in {npz, json} : f = NoFile \/ (f.run \in Runs /\ f.config \in Configs)

(* The model an uninterrupted training has after n epochs. *)
TrainedFor(n) == [i \in 1 .. n |-> i - 1]

(* Whatever was killed, resumed, or started over, the checkpoint holds the *)
(* model that an uninterrupted training has after the epoch it names: no   *)
(* epoch is skipped or trained twice, and each on its own shuffling.  The  *)
(* files of one run are written in an order that never lets a metrics      *)
(* record speak of an epoch whose checkpoint was not saved.                *)
ResumeIsExact ==
  /\ npz # NoFile => npz.net = TrainedFor(npz.epoch)
  /\ \A r \in Runs :
       /\ npz.run = r /\ json.run = r => json.epoch \in {npz.epoch, npz.epoch - 1}
       /\ metrics[r] # <<>> /\ npz.run = r => Last(metrics[r]) <= npz.epoch
       /\ latest[r] = 0 \/ \E i \in DOMAIN metrics[r] : metrics[r][i] = latest[r]
=============================================================================
