--------------------------- MODULE AutoDrive_proofs ---------------------------
(***************************************************************************)
(* Proofs about the AutoDrive application, for any number of runs, epochs, *)
(* configurations, samples and steps: the types of all its variables, that *)
(* resuming is exact, that run statuses are true, that datasets are sound, *)
(* and that the driver drives safely.                                      *)
(*                                                                         *)
(* A behaviour is about one activity, so that each part of the inductive   *)
(* invariant is about the variables of one, and what the others have left  *)
(* of them stays as it is.                                                 *)
(***************************************************************************)
EXTENDS AutoDrive, FiniteSetTheorems, TLAPS

-----------------------------------------------------------------------------
(* The training process and its files. *)

(* The epoch at hand is begun, and not in the file in question yet.        *)
NotSaved == {"checkpointing"}
NotDescribed == {"checkpointing", "describing"}
NotRecorded == {"checkpointing", "describing", "recording"}

LastEpoch(r, places) == IF at[r] \in places THEN epoch[r] - 1 ELSE epoch[r]

(* The models in memory and on disk are those of an undisturbed training.  *)
ModelsExact ==
  /\ npz.epoch \in 0 .. Epochs /\ npz.net = TrainedFor(npz.epoch)
  /\ net = [r \in Runs |-> TrainedFor(epoch[r])]

(* Where main is, and what is behind it.                                   *)
PlaceInv(r) ==
  /\ at[r] = "gone" <=> proc[r] \in Ended
  /\ proc[r] \in {"none", "void"} => at[r] = "loading" /\ status[r] = "none"
  /\ proc[r] # "none" /\ proc[r] # "void" => plan[r] \in [config : Configs, resume : BOOLEAN]
  /\ at[r] = "loading" => epoch[r] = 0
  /\ at[r] \in Outside =>
       npz.run # r /\ json.run # r /\ metrics[r] = <<>> /\ latest[r] = 0
  /\ at[r] \in Inside \ {"training"} => epoch[r] > 0

(* What the files of a run say, while it trains.                           *)
FilesInv(r) ==
  at[r] # "gone" =>
    /\ npz.run = r => npz.epoch = LastEpoch(r, NotSaved)
    /\ json.run = r => json.epoch = LastEpoch(r, NotDescribed)
    /\ metrics[r] # <<>> => Last(metrics[r]) <= LastEpoch(r, NotRecorded)
    /\ at[r] = "publishing" => metrics[r] # <<>> /\ Last(metrics[r]) = epoch[r]

(* A run that began with a new model has recorded every epoch.             *)
RecordsInv(r) ==
  proc[r] = "alive" /\ ~plan[r].resume /\ at[r] # "exiting" =>
    metrics[r] = [n \in 1 .. LastEpoch(r, NotRecorded) |-> n]

(* What ResumeIsExact and StatusIsTrue say of one run and its files.        *)
ResumeOK(r) ==
  /\ npz.run = r /\ json.run = r => json.epoch \in {npz.epoch, npz.epoch - 1}
  /\ metrics[r] # <<>> /\ npz.run = r => Last(metrics[r]) <= npz.epoch
  /\ latest[r] = 0 \/ \E i \in DOMAIN metrics[r] : metrics[r][i] = latest[r]

StatusOK(r) ==
  /\ status[r] \in FinalStatus => proc[r] \in Ended \/ at[r] = "exiting"
  /\ status[r] = "completed" => plan[r].resume \/ metrics[r] = [n \in 1 .. Epochs |-> n]

RunInv(r) == PlaceInv(r) /\ FilesInv(r) /\ RecordsInv(r) /\ ResumeOK(r) /\ StatusOK(r)

-----------------------------------------------------------------------------
(* The controller. *)

IsVoid(r) == r \in Runs /\ proc[r] = "void"

(* What StatusIsTrue says of the waiter of a run.                           *)
WaiterOK(r) ==
  /\ waiter[r] = "waiting" /\ proc[r] = "alive" => process = r
  /\ errand[r].run \in {r, None} \/ proc[errand[r].run] = "void"

(* The run the controller speaks of is that of its process, or one that     *)
(* never began; and so is the run that a waiter writes about.               *)
HolderInv ==
  process # None =>
    /\ proc[process] \notin {"none", "void"}
    /\ current = process \/ IsVoid(current)

WaiterInv(r) ==
  /\ WaiterOK(r)
  /\ proc[r] = "none" => waiter[r] = "none"
  /\ waiter[r] # "writing" => errand[r] = NoErrand
  /\ waiter[r] = "writing" =>
       proc[r] \in Ended /\ (errand[r].run = r \/ IsVoid(errand[r].run))

ControllerInv == HolderInv /\ \A r \in Runs : WaiterInv(r)

TrainInv == (\A r \in Runs : RunInv(r)) /\ ControllerInv

-----------------------------------------------------------------------------
(* The data. *)

Image == [episode : 1 .. MaxEpisodes, index : Nat, frame : 1 .. MaxActions + 1]
Sample(n) == [episode : 1 .. MaxEpisodes, index : Nat, action : 1 .. n \cup {Torn}]
Session == [at : {"idle", "looping", "saving", "writing"}, episode : 0 .. MaxEpisodes,
            index : Nat, room : Nat, frame : 0 .. MaxActions + 1]

FilesOK ==
  /\ IsFiniteSet(images) /\ images \subseteq Image
  /\ Cardinality(images) \in Nat /\ Cardinality(images) <= MaxSamples
  /\ IsFiniteSet(records) /\ records \subseteq Sample(Len(shown))
  /\ shown \in Seq(1 .. MaxActions + 1) /\ Len(shown) <= MaxActions

(* A session's room, its frame, and the image that waits for its record.   *)
SessionInv ==
  /\ session \in Session
  /\ session.at # "idle" => session.frame > 0
  /\ session.at = "looping" => Cardinality(images) + session.room <= MaxSamples
  /\ session.at \in {"saving", "writing"} =>
       /\ session.room > 0 /\ session.episode > 0
       /\ Len(shown) > 0 /\ shown[Len(shown)] = session.frame
  /\ session.at = "saving" => Cardinality(images) + session.room <= MaxSamples
  /\ session.at = "writing" =>
       /\ Cardinality(images) + session.room <= MaxSamples + 1
       /\ \E i \in images : /\ i.episode = session.episode /\ i.index = session.index
                            /\ i.frame = session.frame

(* Every record that is not torn is that of an image.                      *)
RecordsSound ==
  \A r \in records : r.action # Torn =>
    \E i \in images : i.episode = r.episode /\ i.index = r.index /\ i.frame = shown[r.action]

Line == [run : Nat, frame : Nat, split : {"train", "val"}]

(* What may not be in one split if the other holds line t.                 *)
Apart(t, v) == t.run # v.run /\ (IsAudited(t) => t.frame # v.frame)

(* No run is in both splits, and no frame that was audited.                *)
Separate(lines) ==
  \A t, v \in lines : t.split = "train" /\ v.split = "val" => Apart(t, v)

(* The manifest once it is written. *)
WholeManifest == manifest \cup {pending[i] : i \in DOMAIN pending}

ManifestInv ==
  /\ exports \in 0 .. MaxExports
  /\ manifest \subseteq Line
  /\ pending \in Seq(Line)
  /\ Separate(WholeManifest)

DatasetInv ==
  /\ dataset \in [at : {"unread", "reading", "read", "mixed"}, version : Nat,
                  train : SUBSET Line, val : SUBSET Line]
  /\ dataset.at = "reading" =>
       /\ dataset.version <= exports
       /\ dataset.train # {} /\ \A t \in dataset.train : t.split = "train"
       /\ dataset.version = exports => dataset.train \subseteq manifest
  /\ dataset.at = "read" =>
       /\ dataset.train # {} /\ dataset.val # {}
       /\ \A t \in dataset.train, v \in dataset.val : Apart(t, v)

CollectInv == FilesOK /\ SessionInv /\ RecordsSound
DataInv == CollectInv /\ ManifestInv /\ DatasetInv

-----------------------------------------------------------------------------
(* The driver. *)

(* The failures counted are the safe actions sent last.                    *)
DriverInv ==
  /\ policy = [model |-> policy.model, weights |-> policy.weights, image |-> policy.image]
  /\ driver \in {"starting", "loading", "refused"} => sent = <<>> /\ startups = 0
  /\ driver \notin {"starting", "loading", "refused"} => policy.weights = policy.model
  /\ failing <= Len(sent)
  /\ \A i \in Len(sent) - failing + 1 .. Len(sent) : sent[i] = "safe"
  /\ failing < Len(sent) => sent[Len(sent) - failing] # "safe"
  /\ stopped <=> failing = MaxFailures
  /\ stopped => driver = "closed"

-----------------------------------------------------------------------------

TrainingPart ==
  /\ TrainerTypeOK /\ ControllerTypeOK /\ ViewerTypeOK
  /\ ModelsExact
  /\ IF activity = "training" THEN TrainInv ELSE ResumeIsExact /\ StatusIsTrue
CollectingPart == DataInv
DrivingPart == DriverTypeOK /\ DriverInv

AutoDriveInv ==
  /\ activity \in {"collecting", "training", "driving"}
  /\ TrainingPart /\ CollectingPart /\ DrivingPart

-----------------------------------------------------------------------------
(* Training: what a step of one run leaves to the others.                  *)

USE TrainerAssumption

(* The state of run q is not touched, nor a file of its.                    *)
Untouched(q) ==
  /\ proc'[q] = proc[q] /\ at'[q] = at[q] /\ plan'[q] = plan[q]
  /\ epoch'[q] = epoch[q] /\ status'[q] = status[q]
  /\ metrics'[q] = metrics[q] /\ latest'[q] = latest[q]
  /\ npz' = npz \/ npz'.run # q
  /\ json' = json \/ json'.run # q

LEMMA UntouchedKeeps ==
  ASSUME NEW q \in Runs, Untouched(q), RunInv(q)
  PROVE  RunInv(q)'
<1> USE DEF Untouched, RunInv, LastEpoch
<1>1. PlaceInv(q)'
  BY DEF PlaceInv
<1>2. FilesInv(q)'
  BY DEF FilesInv
<1>3. RecordsInv(q)'
  BY DEF RecordsInv
<1>4. ResumeOK(q)'
  BY DEF ResumeOK
<1>5. StatusOK(q)'
  BY DEF StatusOK
<1> QED
  BY <1>1, <1>2, <1>3, <1>4, <1>5

LEMMA OthersUntouched ==
  ASSUME TrainerTypeOK, NEW r \in Runs, TrainerStep(r) \/ TrainerFault(r), NEW q \in Runs, q # r
  PROVE  Untouched(q)
BY DEF Untouched, TrainerTypeOK, TrainerStep, TrainerFault, Load, RefuseToResume, OpenRun, Summarize,
       TrainEpoch, SaveCheckpoint, SaveSidecar, Record, Publish, FinishLoop, Exit, RaiseInside,
       RaiseOutside, Die, Killed, Conclude, Exits, Step, Goto, Checkpoint, InferenceConfig, fileVars

(* One more epoch, on the next shuffling. *)
LEMMA OneMoreEpoch ==
  ASSUME NEW n \in Nat
  PROVE  Append(TrainedFor(n), n) = TrainedFor(n + 1)
BY DEF TrainedFor

LEMMA OneMoreRecord ==
  ASSUME NEW n \in Nat, NEW s, s = [i \in 1 .. n |-> i]
  PROVE  Append(s, n + 1) = [i \in 1 .. n + 1 |-> i]
OBVIOUS

LEMMA LastOfAppend ==
  ASSUME NEW S, NEW s \in Seq(S), NEW e \in S
  PROVE  Append(s, e) # <<>> /\ Last(Append(s, e)) = e
BY DEF Last

LEMMA LastIsElement ==
  ASSUME NEW S, NEW s \in Seq(S), s # <<>>
  PROVE  Last(s) \in S /\ \E i \in DOMAIN s : s[i] = Last(s)
BY DEF Last

-----------------------------------------------------------------------------
(* Training: the run that takes the step. *)

LEMMA ProcessEnds ==
  ASSUME TrainerTypeOK, NEW r \in Runs, proc[r] = "alive", NEW code \in Ended, Exits(r, code)
  PROVE  /\ proc' \in [Runs -> {"none", "void", "alive"} \cup Ended]
         /\ at' \in [Runs -> Inside \cup Outside \cup {"exiting", "gone"}]
         /\ epoch' \in [Runs -> 0 .. Epochs]
         /\ proc'[r] = code /\ at'[r] = "gone"
         /\ \A q \in Runs : proc'[q] = "none" <=> proc[q] = "none"
BY DEF TrainerTypeOK, Exits, Ended

(* The actions in which the process of run r ends. *)
LEMMA WhenProcessEnds ==
  ASSUME NEW r \in Runs, RefuseToResume(r) \/ Exit(r) \/ RaiseOutside(r) \/ Die(r)
  PROVE  /\ proc[r] = "alive"
         /\ \E code \in Ended : Exits(r, code)
         /\ UNCHANGED <<plan, suspended, fileVars>>
BY DEF RefuseToResume, Exit, RaiseOutside, Die, Killed, Ended, Runnable

LEMMA TrainerTypesKept ==
  ASSUME TrainerTypeOK, ModelsExact, NEW r \in Runs, RunInv(r), TrainerStep(r) \/ TrainerFault(r)
  PROVE  TrainerTypeOK'
<1> USE DEF TrainerTypeOK, Step, Goto, fileVars, Runnable
<1>1. CASE Load(r)
  BY <1>1 DEF Load, Loaded, ModelsExact, Inside, Outside
<1>2. CASE RefuseToResume(r) \/ Exit(r) \/ RaiseOutside(r) \/ Die(r)
  <2>1. PICK code \in Ended : Exits(r, code)
    BY <1>2, WhenProcessEnds
  <2>2. proc[r] = "alive" /\ UNCHANGED <<plan, suspended, fileVars>>
    BY <1>2, WhenProcessEnds
  <2> QED
    BY <2>1, <2>2, ProcessEnds
<1>3. CASE OpenRun(r)
  BY <1>3 DEF OpenRun, Outside
<1>4. CASE Summarize(r)
  BY <1>4 DEF Summarize, Inside
<1>5. CASE TrainEpoch(r)
  BY <1>5, SMTT(30) DEF TrainEpoch, Inside
<1>6. CASE SaveCheckpoint(r)
  BY <1>6 DEF SaveCheckpoint, Checkpoint, Inside, RunInv, PlaceInv, Ended
<1>7. CASE SaveSidecar(r)
  BY <1>7, SMTT(30) DEF SaveSidecar, InferenceConfig, Inside, RunInv, PlaceInv, Ended
<1>8. CASE Record(r)
  <2>1. epoch[r] \in 1 .. Epochs
    BY <1>8 DEF Record, Inside, RunInv, PlaceInv
  <2>2. metrics' = [metrics EXCEPT ![r] = Append(metrics[r], epoch[r])]
    BY <1>8 DEF Record
  <2>3. metrics' \in [Runs -> Seq(1 .. Epochs)]
    BY <2>1, <2>2
  <2> QED
    BY <1>8, <2>3 DEF Record, Inside
<1>9. CASE Publish(r)
  BY <1>9 DEF Publish, Inside
<1>10. CASE FinishLoop(r) \/ RaiseInside(r)
  BY <1>10, ZenonT(30) DEF FinishLoop, RaiseInside, Conclude, FinalStatus
<1> QED
  BY <1>1, <1>2, <1>3, <1>4, <1>5, <1>6, <1>7, <1>8, <1>9, <1>10
  DEF TrainerStep, TrainerFault

LEMMA ModelsStayExact ==
  ASSUME TrainerTypeOK, ModelsExact, NEW r \in Runs, TrainerStep(r) \/ TrainerFault(r)
  PROVE  ModelsExact'
<1> USE DEF TrainerTypeOK, ModelsExact, Step, fileVars
<1>1. CASE Load(r)
  <2>1. TrainedFor(0) = <<>>
    BY DEF TrainedFor
  <2>2. Loaded(r).epoch \in 0 .. Epochs /\ Loaded(r).net = TrainedFor(Loaded(r).epoch)
    BY <2>1 DEF Loaded
  <2> QED
    BY <1>1, <2>2 DEF Load
<1>2. CASE TrainEpoch(r)
  <2>1. Append(TrainedFor(epoch[r]), epoch[r]) = TrainedFor(epoch[r] + 1)
    BY OneMoreEpoch, epoch[r] \in Nat
  <2> QED
    BY <1>2, <2>1 DEF TrainEpoch, Shuffling
<1>3. CASE SaveCheckpoint(r)
  BY <1>3 DEF SaveCheckpoint, Checkpoint
<1>4. CASE RefuseToResume(r) \/ Exit(r) \/ RaiseOutside(r) \/ Die(r)
  <2>1. TrainedFor(0) = <<>>
    BY DEF TrainedFor
  <2>2. PICK code \in Ended : Exits(r, code)
    BY <1>4, WhenProcessEnds
  <2>3. UNCHANGED npz
    BY <1>4, WhenProcessEnds
  <2>4. /\ epoch' = [epoch EXCEPT ![r] = 0]
        /\ net' = [net EXCEPT ![r] = TrainedFor(0)]
    BY <2>1, <2>2 DEF Exits
  <2> QED
    BY <2>3, <2>4
<1>5. CASE OpenRun(r) \/ Summarize(r) \/ SaveSidecar(r) \/ Record(r) \/ Publish(r)
             \/ FinishLoop(r) \/ RaiseInside(r)
  BY <1>5 DEF OpenRun, Summarize, SaveSidecar, Record, Publish, FinishLoop, RaiseInside, Conclude
<1> QED
  BY <1>1, <1>2, <1>3, <1>4, <1>5 DEF TrainerStep, TrainerFault

(* An epoch is recorded. *)
LEMMA RecordGrows ==
  ASSUME TrainerTypeOK, NEW r \in Runs, RunInv(r), Record(r)
  PROVE  /\ epoch[r] \in 1 .. Epochs
         /\ metrics'[r] = Append(metrics[r], epoch[r])
         /\ metrics'[r] # <<>> /\ Last(metrics'[r]) = epoch[r]
         /\ \A i \in DOMAIN metrics[r] :
              \E j \in DOMAIN metrics'[r] : metrics'[r][j] = metrics[r][i]
<1>1. epoch[r] \in 1 .. Epochs
  BY DEF TrainerTypeOK, Record, Step, Inside, RunInv, PlaceInv
<1>2. metrics[r] \in Seq(1 .. Epochs)
  BY DEF TrainerTypeOK
<1>3. metrics'[r] = Append(metrics[r], epoch[r])
  BY DEF TrainerTypeOK, Record
<1>4. Append(metrics[r], epoch[r]) # <<>> /\ Last(Append(metrics[r], epoch[r])) = epoch[r]
  BY <1>1, <1>2, LastOfAppend
<1>5. ASSUME NEW i \in DOMAIN metrics[r]
      PROVE  \E j \in DOMAIN Append(metrics[r], epoch[r]) :
               Append(metrics[r], epoch[r])[j] = metrics[r][i]
  <2>1. /\ i \in DOMAIN Append(metrics[r], epoch[r])
        /\ Append(metrics[r], epoch[r])[i] = metrics[r][i]
    BY <1>1, <1>2
  <2> QED
    BY <2>1
<1> QED
  BY <1>1, <1>3, <1>4, <1>5

LEMMA PlaceKept ==
  ASSUME TrainerTypeOK, NEW r \in Runs, RunInv(r), TrainerStep(r) \/ TrainerFault(r)
  PROVE  PlaceInv(r)'
<1> USE DEF TrainerTypeOK, RunInv, PlaceInv, Step, Goto, fileVars, Runnable, Ended, Inside, Outside
<1>1. CASE Load(r) \/ OpenRun(r) \/ Summarize(r)
  BY <1>1 DEF Load, OpenRun, Summarize
<1>2. CASE TrainEpoch(r)
  BY <1>2 DEF TrainEpoch
<1>3. CASE SaveCheckpoint(r) \/ SaveSidecar(r)
  BY <1>3 DEF SaveCheckpoint, SaveSidecar
<1>4. CASE Record(r) \/ Publish(r)
  BY <1>4 DEF Record, Publish
<1>5. CASE FinishLoop(r) \/ RaiseInside(r)
  BY <1>5 DEF FinishLoop, RaiseInside, Conclude
<1>6. CASE RefuseToResume(r) \/ Exit(r) \/ RaiseOutside(r) \/ Die(r)
  <2>1. PICK code \in Ended : Exits(r, code)
    BY <1>6, WhenProcessEnds
  <2>2. /\ proc[r] = "alive"
        /\ UNCHANGED <<plan, metrics, latest, status, npz, json>>
    BY <1>6, WhenProcessEnds
  <2>3. proc'[r] = code /\ at'[r] = "gone"
    BY <2>1, <2>2, ProcessEnds
  <2> QED
    BY <2>2, <2>3
<1> QED
  BY <1>1, <1>2, <1>3, <1>4, <1>5, <1>6 DEF TrainerStep, TrainerFault

LEMMA FilesKept ==
  ASSUME TrainerTypeOK, NEW r \in Runs, RunInv(r), TrainerStep(r) \/ TrainerFault(r)
  PROVE  FilesInv(r)'
<1> USE DEF TrainerTypeOK, RunInv, FilesInv, LastEpoch, NotSaved, NotDescribed, NotRecorded,
            Step, Goto, fileVars, Runnable
<1>1. CASE Load(r) \/ OpenRun(r) \/ Summarize(r)
  BY <1>1 DEF Load, OpenRun, Summarize, PlaceInv, Outside
<1>2. CASE TrainEpoch(r)
  BY <1>2, SMTT(30) DEF TrainEpoch
<1>3. CASE SaveCheckpoint(r)
  BY <1>3 DEF SaveCheckpoint, Checkpoint
<1>4. CASE SaveSidecar(r)
  BY <1>4 DEF SaveSidecar, InferenceConfig
<1>5. CASE Record(r)
  <2>1. /\ epoch[r] \in 1 .. Epochs
        /\ metrics'[r] # <<>> /\ Last(metrics'[r]) = epoch[r]
    BY <1>5, RecordGrows DEF RunInv
  <2> QED
    BY <1>5, <2>1 DEF Record
<1>6. CASE Publish(r)
  BY <1>6 DEF Publish
<1>7. CASE FinishLoop(r) \/ RaiseInside(r)
  <2>1. metrics[r] # <<>> => Last(metrics[r]) \in 1 .. Epochs
    BY LastIsElement
  <2> QED
    BY <1>7, <2>1 DEF FinishLoop, RaiseInside, Conclude
<1>8. CASE RefuseToResume(r) \/ Exit(r) \/ RaiseOutside(r) \/ Die(r)
  <2>1. PICK code \in Ended : Exits(r, code)
    BY <1>8, WhenProcessEnds
  <2> QED
    BY <1>8, <2>1, WhenProcessEnds, ProcessEnds
<1> QED
  BY <1>1, <1>2, <1>3, <1>4, <1>5, <1>6, <1>7, <1>8 DEF TrainerStep, TrainerFault

LEMMA RecordsKept ==
  ASSUME TrainerTypeOK, NEW r \in Runs, RunInv(r), TrainerStep(r) \/ TrainerFault(r)
  PROVE  RecordsInv(r)'
<1> USE DEF TrainerTypeOK, RunInv, RecordsInv, LastEpoch, NotRecorded, Step, Goto, fileVars, Runnable
<1>1. CASE Load(r)
  BY <1>1 DEF Load, Loaded, PlaceInv, Outside
<1>2. CASE OpenRun(r) \/ Summarize(r)
  BY <1>2 DEF OpenRun, Summarize
<1>3. CASE TrainEpoch(r)
  BY <1>3 DEF TrainEpoch
<1>4. CASE SaveCheckpoint(r) \/ SaveSidecar(r)
  BY <1>4 DEF SaveCheckpoint, SaveSidecar
<1>5. CASE Record(r)
  <2>1. epoch[r] \in 1 .. Epochs
    BY <1>5, RecordGrows DEF RunInv
  <2>2. ~plan[r].resume => Append(metrics[r], epoch[r]) = [n \in 1 .. epoch[r] |-> n]
    BY <1>5, <2>1, OneMoreRecord, epoch[r] - 1 \in Nat, epoch[r] - 1 + 1 = epoch[r] DEF Record
  <2> QED
    BY <1>5, <2>1, <2>2 DEF Record
<1>6. CASE Publish(r)
  BY <1>6 DEF Publish
<1>7. CASE FinishLoop(r) \/ RaiseInside(r)
  BY <1>7 DEF FinishLoop, RaiseInside, Conclude
<1>8. CASE RefuseToResume(r) \/ Exit(r) \/ RaiseOutside(r) \/ Die(r)
  <2>1. PICK code \in Ended : Exits(r, code)
    BY <1>8, WhenProcessEnds
  <2> QED
    BY <1>8, <2>1, WhenProcessEnds, ProcessEnds DEF Ended
<1> QED
  BY <1>1, <1>2, <1>3, <1>4, <1>5, <1>6, <1>7, <1>8 DEF TrainerStep, TrainerFault

LEMMA ResumeKept ==
  ASSUME TrainerTypeOK, ModelsExact, NEW r \in Runs, RunInv(r), TrainerStep(r) \/ TrainerFault(r)
  PROVE  ResumeOK(r)'
<1> USE DEF TrainerTypeOK, RunInv, ResumeOK, Step, Goto, fileVars, Runnable
<1>1. CASE SaveCheckpoint(r)
  <2>1. /\ at[r] = "checkpointing" /\ epoch[r] \in Int
        /\ npz'.run = r /\ npz'.epoch = epoch[r]
        /\ UNCHANGED <<json, metrics, latest>>
    BY <1>1 DEF SaveCheckpoint, Checkpoint
  <2>2. /\ json.run = r => json.epoch = epoch[r] - 1
        /\ metrics[r] # <<>> => Last(metrics[r]) <= epoch[r] - 1
    BY <2>1 DEF FilesInv, LastEpoch, NotDescribed, NotRecorded
  <2>3. metrics[r] # <<>> => Last(metrics[r]) \in 1 .. Epochs
    BY LastIsElement
  <2> QED
    BY <2>1, <2>2, <2>3
<1>2. CASE SaveSidecar(r)
  BY <1>2 DEF SaveSidecar, InferenceConfig, FilesInv, LastEpoch, NotSaved
<1>3. CASE Record(r)
  <2>1. /\ epoch[r] \in 1 .. Epochs
        /\ metrics'[r] # <<>> /\ Last(metrics'[r]) = epoch[r]
        /\ \A i \in DOMAIN metrics[r] :
              \E j \in DOMAIN metrics'[r] : metrics'[r][j] = metrics[r][i]
    BY <1>3, RecordGrows DEF RunInv
  <2>2. npz.run = r => npz.epoch = epoch[r]
    BY <1>3 DEF Record, FilesInv, LastEpoch, NotSaved
  <2>3. UNCHANGED <<npz, json, latest>>
    BY <1>3 DEF Record
  <2> QED
    BY <2>1, <2>2, <2>3
<1>4. CASE Publish(r)
  <2>1. /\ metrics[r] # <<>> /\ Last(metrics[r]) = epoch[r]
        /\ UNCHANGED <<npz, json, metrics>> /\ latest'[r] = epoch[r]
    BY <1>4 DEF Publish, FilesInv
  <2>2. Len(metrics[r]) \in DOMAIN metrics[r] /\ metrics[r][Len(metrics[r])] = epoch[r]
    BY <2>1 DEF Last
  <2> QED
    BY <2>1, <2>2
<1>5. CASE Load(r) \/ OpenRun(r) \/ Summarize(r) \/ TrainEpoch(r) \/ FinishLoop(r) \/ RaiseInside(r)
  BY <1>5 DEF Load, OpenRun, Summarize, TrainEpoch, FinishLoop, RaiseInside, Conclude
<1>6. CASE RefuseToResume(r) \/ Exit(r) \/ RaiseOutside(r) \/ Die(r)
  BY <1>6, WhenProcessEnds
<1> QED
  BY <1>1, <1>2, <1>3, <1>4, <1>5, <1>6 DEF TrainerStep, TrainerFault

LEMMA StatusKept ==
  ASSUME TrainerTypeOK, NEW r \in Runs, RunInv(r), TrainerStep(r) \/ TrainerFault(r)
  PROVE  StatusOK(r)'
<1> USE DEF TrainerTypeOK, RunInv, StatusOK, Step, Goto, fileVars, Runnable, FinalStatus
<1>1. CASE OpenRun(r) \/ Publish(r)
  BY <1>1 DEF OpenRun, Publish
<1>2. CASE Load(r) \/ Summarize(r) \/ TrainEpoch(r) \/ SaveCheckpoint(r) \/ SaveSidecar(r)
             \/ Record(r)
  BY <1>2 DEF Load, Summarize, TrainEpoch, SaveCheckpoint, SaveSidecar, Record, Ended
<1>3. CASE FinishLoop(r)
  BY <1>3 DEF FinishLoop, Conclude, RecordsInv, LastEpoch, NotRecorded
<1>4. CASE RaiseInside(r)
  BY <1>4 DEF RaiseInside, Conclude
<1>5. CASE RefuseToResume(r) \/ Exit(r) \/ RaiseOutside(r) \/ Die(r)
  <2>1. PICK code \in Ended : Exits(r, code)
    BY <1>5, WhenProcessEnds
  <2>2. proc[r] = "alive" /\ UNCHANGED <<plan, metrics, status>>
    BY <1>5, WhenProcessEnds
  <2>3. proc'[r] \in Ended
    BY <2>1, <2>2, ProcessEnds
  <2> QED
    BY <2>2, <2>3
<1> QED
  BY <1>1, <1>2, <1>3, <1>4, <1>5 DEF TrainerStep, TrainerFault

(* What a step of a training process, or its death, does to the runs.       *)
LEMMA TrainerKeeps ==
  ASSUME TrainerTypeOK, ModelsExact, \A q \in Runs : RunInv(q),
         NEW r \in Runs, TrainerStep(r) \/ TrainerFault(r)
  PROVE  TrainerTypeOK' /\ ModelsExact' /\ \A q \in Runs : RunInv(q)'
<1>1. TrainerTypeOK' /\ ModelsExact'
  BY TrainerTypesKept, ModelsStayExact
<1>2. RunInv(r)'
  BY PlaceKept, FilesKept, RecordsKept, ResumeKept, StatusKept DEF RunInv
<1>3. ASSUME NEW q \in Runs, q # r PROVE RunInv(q)'
  BY <1>3, OthersUntouched, UntouchedKeeps
<1> QED
  BY <1>1, <1>2, <1>3

-----------------------------------------------------------------------------
(* Training: the controller, its waiters, and the user. *)

TrainingTypes == TrainerTypeOK /\ ControllerTypeOK
TrainState == TrainingTypes /\ ModelsExact /\ TrainInv

(* A process is spawned for a run that never was. *)
LEMMA LaunchKeeps ==
  ASSUME TrainerTypeOK, ModelsExact, \A q \in Runs : RunInv(q),
         NEW r \in Runs, NEW c \in Configs, NEW resume \in BOOLEAN, Launch(r, c, resume)
  PROVE  /\ TrainerTypeOK' /\ ModelsExact' /\ \A q \in Runs : RunInv(q)'
         /\ proc[r] = "none" /\ proc'[r] = "alive"
         /\ \A q \in Runs \ {r} : proc'[q] = proc[q]
<1> USE DEF Launch, IsNext, TrainerTypeOK, fileVars
<1>1. /\ proc[r] = "none" /\ proc'[r] = "alive"
      /\ plan'[r] = [config |-> c, resume |-> resume]
      /\ \A q \in Runs \ {r} : proc'[q] = proc[q] /\ plan'[q] = plan[q]
  OBVIOUS
<1>2. TrainerTypeOK'
  OBVIOUS
<1>3. ModelsExact'
  BY DEF ModelsExact
<1>4. ASSUME NEW q \in Runs, q # r PROVE RunInv(q)'
  BY <1>1, <1>4, UntouchedKeeps DEF Untouched
<1>5. RunInv(r)'
  <2> USE <1>1 DEF RunInv, PlaceInv, Outside
  <2>1. PlaceInv(r)'
    BY DEF Ended, Inside
  <2>2. FilesInv(r)'
    BY DEF FilesInv
  <2>3. RecordsInv(r)'
    BY DEF RecordsInv, LastEpoch, NotRecorded
  <2>4. ResumeOK(r)'
    BY DEF ResumeOK
  <2>5. StatusOK(r)'
    BY DEF StatusOK, FinalStatus
  <2> QED
    BY <2>1, <2>2, <2>3, <2>4, <2>5
<1> QED
  BY <1>1, <1>2, <1>3, <1>4, <1>5

(* A process ends, suspended or not. *)
LEMMA EndKeeps ==
  ASSUME TrainerTypeOK, ModelsExact, \A q \in Runs : RunInv(q),
         NEW r \in Runs, proc[r] = "alive", Exits(r, "killed"), UNCHANGED <<plan, fileVars>>,
         suspended' = suspended \ {r}
  PROVE  /\ TrainerTypeOK' /\ ModelsExact' /\ \A q \in Runs : RunInv(q)'
         /\ proc'[r] = "killed"
         /\ \A q \in Runs \ {r} : proc'[q] = proc[q]
<1> USE DEF fileVars
<1>1. /\ proc'[r] = "killed" /\ at'[r] = "gone"
      /\ \A q \in Runs \ {r} : proc'[q] = proc[q] /\ at'[q] = at[q] /\ epoch'[q] = epoch[q]
  BY DEF TrainerTypeOK, Exits
<1>2. TrainerTypeOK'
  BY ProcessEnds DEF TrainerTypeOK, Ended
<1>3. ModelsExact'
  <2>1. TrainedFor(0) = <<>>
    BY DEF TrainedFor
  <2> QED
    BY <2>1 DEF ModelsExact, Exits, TrainerTypeOK
<1>4. ASSUME NEW q \in Runs, q # r PROVE RunInv(q)'
  BY <1>1, <1>4, UntouchedKeeps DEF Untouched
<1>5. RunInv(r)'
  <2> USE <1>1 DEF RunInv
  <2>1. PlaceInv(r)'
    BY DEF PlaceInv, Ended, Outside, Inside
  <2>2. FilesInv(r)' /\ RecordsInv(r)'
    BY DEF FilesInv, RecordsInv
  <2>3. ResumeOK(r)' /\ StatusOK(r)'
    BY DEF ResumeOK, StatusOK, Ended
  <2> QED
    BY <2>1, <2>2, <2>3
<1> QED
  BY <1>1, <1>2, <1>3, <1>4, <1>5

(* The controller does not mind what processes do, as long as none comes    *)
(* to life or had never been.                                              *)
LEMMA ProcessesGoOn ==
  ASSUME ControllerTypeOK, ControllerInv, UNCHANGED controllerVars,
         \A q \in Runs : proc'[q] = proc[q] \/ (proc[q] = "alive" /\ proc'[q] \in Ended)
  PROVE  ControllerTypeOK' /\ ControllerInv'
<1> USE DEF controllerVars, ControllerTypeOK
<1>1. ControllerTypeOK'
  OBVIOUS
<1>2. HolderInv'
  BY DEF ControllerInv, HolderInv, IsVoid, Ended
<1>3. ASSUME NEW q \in Runs PROVE WaiterInv(q)'
  BY DEF ControllerInv, WaiterInv, WaiterOK, IsVoid, Ended
<1> QED
  BY <1>1, <1>2, <1>3 DEF ControllerInv

LEMMA TrainerStepProc ==
  ASSUME TrainerTypeOK, NEW r \in Runs, TrainerStep(r) \/ TrainerFault(r), NEW q \in Runs
  PROVE  proc'[q] = proc[q] \/ (proc[q] = "alive" /\ proc'[q] \in Ended)
<1>1. CASE RefuseToResume(r) \/ Exit(r) \/ RaiseOutside(r) \/ Die(r)
  <2>1. PICK code \in Ended : Exits(r, code)
    BY <1>1, WhenProcessEnds
  <2>2. proc[r] = "alive"
    BY <1>1, WhenProcessEnds
  <2> QED
    BY <2>1, <2>2 DEF Exits, TrainerTypeOK
<1>2. CASE ~(RefuseToResume(r) \/ Exit(r) \/ RaiseOutside(r) \/ Die(r))
  BY <1>2 DEF TrainerStep, TrainerFault, Load, OpenRun, Summarize, TrainEpoch, SaveCheckpoint,
              SaveSidecar, Record, Publish, FinishLoop, RaiseInside, Conclude
<1> QED
  BY <1>1, <1>2

LEMMA TrainerOrFault ==
  ASSUME TrainState, NEW r \in Runs, TrainerStep(r) \/ TrainerFault(r), UNCHANGED controllerVars
  PROVE  TrainState'
<1>1. TrainerTypeOK' /\ ModelsExact' /\ \A q \in Runs : RunInv(q)'
  BY TrainerKeeps DEF TrainState, TrainingTypes, TrainInv
<1>2. ControllerTypeOK' /\ ControllerInv'
  <2>1. \A q \in Runs : proc'[q] = proc[q] \/ (proc[q] = "alive" /\ proc'[q] \in Ended)
    BY TrainerStepProc DEF TrainState, TrainingTypes
  <2> QED
    BY <2>1, ProcessesGoOn DEF TrainState, TrainingTypes, TrainInv
<1> QED
  BY <1>1, <1>2 DEF TrainState, TrainingTypes, TrainInv

LEMMA FilesUnchanged ==
  ASSUME UNCHANGED trainerVars
  PROVE  /\ TrainerTypeOK => TrainerTypeOK'
         /\ ModelsExact => ModelsExact'
         /\ \A q \in Runs : RunInv(q) => RunInv(q)'
<1>1. TrainerTypeOK => TrainerTypeOK'
  BY DEF TrainerTypeOK, trainerVars, processVars, fileVars
<1>2. ModelsExact => ModelsExact'
  BY DEF ModelsExact, trainerVars, processVars, fileVars
<1>3. ASSUME NEW q \in Runs, RunInv(q) PROVE RunInv(q)'
  BY <1>3, UntouchedKeeps DEF Untouched, trainerVars, processVars, fileVars
<1> QED
  BY <1>1, <1>2, <1>3

LEMMA AwakenKeeps ==
  ASSUME TrainState, NEW r \in Runs, Awaken(r)
  PROVE  TrainState'
<1> USE DEF TrainState, TrainingTypes, TrainInv
<1>1. UNCHANGED trainerVars /\ UNCHANGED proc
  BY DEF Awaken, trainerVars, processVars
<1>2. TrainerTypeOK' /\ ModelsExact' /\ \A q \in Runs : RunInv(q)'
  BY <1>1, FilesUnchanged
<1>3. UNCHANGED <<process, current, stopRequested>> /\ waiter[r] = "waiting" /\ proc[r] \in Ended
  BY DEF Awaken
<1>4. CASE process = r
  <2>1. /\ waiter' = [waiter EXCEPT ![r] = "writing"]
        /\ paused' = FALSE
        /\ message' \in {"stopped", "completed", "failed"}
        /\ errand' = [errand EXCEPT ![r] = [run |-> current, stopped |-> stopRequested]]
    BY <1>4 DEF Awaken
  <2>2. current = r \/ IsVoid(current)
    BY <1>4 DEF ControllerInv, HolderInv, TrainerAssumption
  <2>3. ControllerTypeOK'
    BY <1>3, <2>1 DEF ControllerTypeOK
  <2>4. /\ waiter'[r] = "writing" /\ errand'[r].run = current
        /\ \A q \in Runs \ {r} : waiter'[q] = waiter[q] /\ errand'[q] = errand[q]
    BY <2>1 DEF ControllerTypeOK
  <2>5. ControllerInv'
    BY <1>1, <1>3, <2>2, <2>4 DEF ControllerInv, HolderInv, WaiterInv, WaiterOK, IsVoid, Ended
  <2> QED
    BY <1>2, <2>3, <2>5
<1>5. CASE process # r
  <2>1. waiter' = [waiter EXCEPT ![r] = "done"] /\ UNCHANGED <<paused, message, errand>>
    BY <1>5 DEF Awaken
  <2>2. ControllerTypeOK'
    BY <1>3, <2>1 DEF ControllerTypeOK
  <2>3. /\ waiter'[r] = "done"
        /\ \A q \in Runs \ {r} : waiter'[q] = waiter[q]
    BY <2>1 DEF ControllerTypeOK
  <2>4. ControllerInv'
    BY <1>1, <1>3, <2>1, <2>3 DEF ControllerInv, HolderInv, WaiterInv, WaiterOK, IsVoid, Ended
  <2> QED
    BY <1>2, <2>2, <2>4
<1> QED
  BY <1>4, <1>5

LEMMA FinaliseKeeps ==
  ASSUME TrainState, NEW r \in Runs, Finalise(r)
  PROVE  TrainState'
<1> USE DEF TrainState, TrainingTypes, TrainInv
<1>1. /\ UNCHANGED <<proc, at, plan, suspended, epoch, net, metrics, latest, recent, npz, json>>
      /\ UNCHANGED <<process, current, paused, message, stopRequested>>
      /\ waiter[r] = "writing"
      /\ waiter' = [waiter EXCEPT ![r] = "done"]
      /\ errand' = [errand EXCEPT ![r] = NoErrand]
  BY DEF Finalise, processVars
<1>2. proc[r] \in Ended /\ status \in [Runs -> {"none", "running"} \cup FinalStatus]
  BY <1>1 DEF ControllerInv, WaiterInv, TrainerTypeOK
<1>3. \/ UNCHANGED status
      \/ /\ status[r] = "running"
         /\ \E v \in {"stopped", "failed"} : status' = [status EXCEPT ![r] = v]
  <2>1. CASE errand[r].run = r
    BY <2>1 DEF Finalise
  <2>2. CASE IsVoid(errand[r].run)
    <3>1. status[errand[r].run] = "none"
      BY <2>2 DEF IsVoid, RunInv, PlaceInv
    <3> QED
      BY <3>1 DEF Finalise
  <2> QED
    BY <1>1, <2>1, <2>2 DEF ControllerInv, WaiterInv
<1>4. TrainerTypeOK' /\ ModelsExact'
  BY <1>1, <1>2, <1>3, ZenonT(30) DEF TrainerTypeOK, ModelsExact, FinalStatus
<1>5. ASSUME NEW q \in Runs, q # r PROVE RunInv(q)'
  BY <1>1, <1>2, <1>3, <1>5, UntouchedKeeps DEF Untouched
<1>6. RunInv(r)'
  <2>1. PlaceInv(r)' /\ FilesInv(r)' /\ RecordsInv(r)' /\ ResumeOK(r)'
    BY <1>1, <1>2 DEF RunInv, PlaceInv, FilesInv, RecordsInv, ResumeOK, LastEpoch, Ended
  <2>2. StatusOK(r)'
    <3>1. CASE UNCHANGED status
      BY <1>1, <3>1 DEF RunInv, StatusOK
    <3>2. CASE \E v \in {"stopped", "failed"} : status' = [status EXCEPT ![r] = v]
      BY <1>1, <1>2, <3>2 DEF StatusOK
    <3> QED
      BY <1>3, <3>1, <3>2
  <2> QED
    BY <2>1, <2>2 DEF RunInv
<1>7. ControllerTypeOK'
  BY <1>1 DEF ControllerTypeOK, NoErrand
<1>8. /\ waiter'[r] = "done" /\ errand'[r] = NoErrand
      /\ \A q \in Runs \ {r} : waiter'[q] = waiter[q] /\ errand'[q] = errand[q]
  BY <1>1 DEF ControllerTypeOK
<1>9. ControllerInv'
  <2>1. HolderInv'
    BY <1>1, <1>2, <1>8 DEF ControllerInv, HolderInv, IsVoid, ControllerTypeOK, Ended
  <2>2. ASSUME NEW q \in Runs PROVE WaiterInv(q)'
    BY <1>1, <1>2, <1>8 DEF ControllerInv, WaiterInv, WaiterOK, IsVoid, NoErrand, ControllerTypeOK, Ended
  <2> QED
    BY <2>1, <2>2 DEF ControllerInv
<1> QED
  BY <1>4, <1>5, <1>6, <1>7, <1>9

(* A request of the dashboard, or its end. *)
LEMMA StartKeeps ==
  ASSUME TrainState, NEW r \in Runs, Start(r)
  PROVE  TrainState'
<1> USE DEF TrainState, TrainingTypes, TrainInv
<1>1. Launch(r, Default, FALSE)
  BY DEF Start
<1>2. /\ TrainerTypeOK' /\ ModelsExact' /\ \A q \in Runs : RunInv(q)'
      /\ proc[r] = "none" /\ proc'[r] = "alive"
      /\ \A q \in Runs \ {r} : proc'[q] = proc[q]
  BY <1>1, LaunchKeeps, Default \in Configs, FALSE \in BOOLEAN
<1>3. /\ process' = r /\ current' = r /\ paused' = FALSE /\ stopRequested' = FALSE
      /\ message' = "starting" /\ UNCHANGED errand
      /\ waiter' = [waiter EXCEPT ![r] = "waiting"]
      /\ \A q \in Runs : proc[q] = "alive" => waiter[q] = "lost"
  BY DEF Start, Prepare
<1>4. ControllerTypeOK'
  BY <1>3 DEF ControllerTypeOK
<1>5. /\ waiter'[r] = "waiting" /\ waiter[r] = "none"
      /\ \A q \in Runs \ {r} : waiter'[q] = waiter[q]
  BY <1>2, <1>3 DEF ControllerTypeOK, ControllerInv, WaiterInv
<1>6. ControllerInv'
  <2>1. HolderInv'
    BY <1>2, <1>3, <1>5 DEF ControllerInv, HolderInv, IsVoid, ControllerTypeOK, Ended
  <2>2. ASSUME NEW q \in Runs PROVE WaiterInv(q)'
    BY <1>2, <1>3, <1>5 DEF ControllerInv, WaiterInv, WaiterOK, IsVoid, NoErrand, ControllerTypeOK, Ended
  <2> QED
    BY <2>1, <2>2 DEF ControllerInv
<1> QED
  BY <1>2, <1>4, <1>6

LEMMA StartFailsKeeps ==
  ASSUME TrainState, NEW r \in Runs, StartFails(r)
  PROVE  TrainState'
<1> USE DEF TrainState, TrainingTypes, TrainInv
<1>1. /\ proc[r] = "none" /\ proc' = [proc EXCEPT ![r] = "void"]
      /\ UNCHANGED <<at, plan, suspended, epoch, net, status, metrics, latest, recent, npz, json>>
      /\ UNCHANGED <<process, waiter, errand>>
      /\ current' = r /\ paused' = FALSE /\ stopRequested' = FALSE /\ message' = "starting"
  BY DEF StartFails, Prepare, IsNext, fileVars
<1>2. proc'[r] = "void" /\ \A q \in Runs \ {r} : proc'[q] = proc[q]
  BY <1>1 DEF TrainerTypeOK
<1>3. TrainerTypeOK' /\ ModelsExact'
  BY <1>1, <1>2 DEF TrainerTypeOK, ModelsExact
<1>4. ASSUME NEW q \in Runs, q # r PROVE RunInv(q)'
  BY <1>1, <1>2, <1>4, UntouchedKeeps DEF Untouched
<1>5. RunInv(r)'
  <2>1. PlaceInv(r)' /\ FilesInv(r)' /\ RecordsInv(r)' /\ ResumeOK(r)'
    BY <1>1, <1>2 DEF RunInv, PlaceInv, FilesInv, RecordsInv, ResumeOK, LastEpoch, Ended
  <2>2. StatusOK(r)'
    BY <1>1, <1>2 DEF RunInv, PlaceInv, StatusOK, FinalStatus
  <2> QED
    BY <2>1, <2>2 DEF RunInv
<1>6. ControllerTypeOK'
  BY <1>1 DEF ControllerTypeOK
<1>7. ControllerInv'
  <2>1. HolderInv'
    BY <1>1, <1>2 DEF ControllerInv, HolderInv, IsVoid, ControllerTypeOK, Ended
  <2>2. ASSUME NEW q \in Runs PROVE WaiterInv(q)'
    BY <1>1, <1>2 DEF ControllerInv, WaiterInv, WaiterOK, IsVoid, NoErrand, ControllerTypeOK, Ended
  <2> QED
    BY <2>1, <2>2 DEF ControllerInv
<1> QED
  BY <1>3, <1>4, <1>5, <1>6, <1>7

LEMMA PauseOrResumeKeeps ==
  ASSUME TrainState, Pause \/ Resume
  PROVE  TrainState'
<1> USE DEF TrainState, TrainingTypes, TrainInv
<1>1. /\ UNCHANGED <<proc, at, plan, epoch, net, status, metrics, latest, recent, npz, json>>
      /\ UNCHANGED <<process, current, stopRequested, waiter, errand>>
      /\ paused' \in BOOLEAN /\ message' \in {"paused", "resumed"}
      /\ suspended' \subseteq suspended \cup {process}
      /\ process \in Runs /\ proc[process] = "alive"
  BY DEF Pause, Resume, Alive, fileVars, ControllerTypeOK
<1>2. TrainerTypeOK' /\ ModelsExact'
  BY <1>1 DEF TrainerTypeOK, ModelsExact
<1>3. ASSUME NEW q \in Runs PROVE RunInv(q)'
  BY <1>1, UntouchedKeeps DEF Untouched
<1>4. ControllerTypeOK'
  BY <1>1 DEF ControllerTypeOK
<1>5. ControllerInv'
  <2>1. HolderInv'
    BY <1>1 DEF ControllerInv, HolderInv, IsVoid, ControllerTypeOK, Ended
  <2>2. ASSUME NEW q \in Runs PROVE WaiterInv(q)'
    BY <1>1 DEF ControllerInv, WaiterInv, WaiterOK, IsVoid, NoErrand, ControllerTypeOK, Ended
  <2> QED
    BY <2>1, <2>2 DEF ControllerInv
<1> QED
  BY <1>2, <1>3, <1>4, <1>5

LEMMA StopKeeps ==
  ASSUME TrainState, Stop
  PROVE  TrainState'
<1> USE DEF TrainState, TrainingTypes, TrainInv
<1>1. /\ process \in Runs /\ proc[process] = "alive" /\ Exits(process, "killed")
      /\ UNCHANGED <<plan, fileVars>> /\ suspended' = suspended \ {process}
      /\ UNCHANGED <<process, current, waiter, errand>>
      /\ paused' = FALSE /\ stopRequested' = TRUE /\ message' = "stopping"
  BY DEF Stop, Killed, Alive, ControllerTypeOK
<1>2. /\ TrainerTypeOK' /\ ModelsExact' /\ \A q \in Runs : RunInv(q)'
      /\ proc'[process] = "killed"
      /\ \A q \in Runs \ {process} : proc'[q] = proc[q]
  BY <1>1, EndKeeps
<1>3. ControllerTypeOK'
  BY <1>1 DEF ControllerTypeOK
<1>4. ControllerInv'
  <2>1. HolderInv'
    BY <1>1, <1>2 DEF ControllerInv, HolderInv, IsVoid, ControllerTypeOK, Ended
  <2>2. ASSUME NEW q \in Runs PROVE WaiterInv(q)'
    BY <1>1, <1>2 DEF ControllerInv, WaiterInv, WaiterOK, IsVoid, NoErrand, ControllerTypeOK, Ended
  <2> QED
    BY <2>1, <2>2 DEF ControllerInv
<1> QED
  BY <1>2, <1>3, <1>4

LEMMA RestartKeeps ==
  ASSUME TrainState, Restart
  PROVE  TrainState'
<1> USE DEF TrainState, TrainingTypes, TrainInv
<1>1. TrainerTypeOK' /\ ModelsExact' /\ \A q \in Runs : RunInv(q)'
  BY FilesUnchanged DEF Restart
<1>2. UNCHANGED proc /\ process' = None
  BY DEF Restart, trainerVars, processVars
<1>3. ControllerTypeOK'
  BY DEF Restart, ControllerTypeOK, NoErrand
<1>4. \A q \in Runs : /\ errand'[q] = NoErrand
                      /\ waiter'[q] \notin {"waiting", "writing"}
                      /\ waiter[q] = "none" => waiter'[q] = "none"
  BY DEF Restart
<1>5. ControllerInv'
  <2>1. HolderInv'
    BY <1>2, <1>4 DEF ControllerInv, HolderInv, IsVoid, ControllerTypeOK, Ended
  <2>2. ASSUME NEW q \in Runs PROVE WaiterInv(q)'
    <3>1. errand'[q].run = None
      BY <1>4 DEF NoErrand
    <3>2. WaiterOK(q)'
      BY <1>4, <3>1 DEF WaiterOK
    <3> QED
      BY <1>2, <1>4, <3>2 DEF ControllerInv, WaiterInv, NoErrand
  <2> QED
    BY <2>1, <2>2 DEF ControllerInv
<1> QED
  BY <1>1, <1>3, <1>5

LEMMA RunFromShellKeeps ==
  ASSUME TrainState, NEW r \in Runs, NEW c \in Chosen, NEW resume \in BOOLEAN,
         RunFromShell(r, c, resume)
  PROVE  TrainState'
<1> USE DEF TrainState, TrainingTypes, TrainInv
<1>1. Launch(r, c, resume) /\ UNCHANGED controllerVars /\ c \in Configs
  BY DEF RunFromShell
<1>2. /\ TrainerTypeOK' /\ ModelsExact' /\ \A q \in Runs : RunInv(q)'
      /\ proc[r] = "none" /\ proc'[r] = "alive"
      /\ \A q \in Runs \ {r} : proc'[q] = proc[q]
  BY <1>1, LaunchKeeps
<1>3. ControllerTypeOK'
  BY <1>1 DEF ControllerTypeOK, controllerVars
<1>4. ControllerInv'
  <2>1. HolderInv'
    BY <1>1, <1>2 DEF ControllerInv, HolderInv, IsVoid, ControllerTypeOK, Ended, controllerVars
  <2>2. ASSUME NEW q \in Runs PROVE WaiterInv(q)'
    BY <1>1, <1>2 DEF ControllerInv, WaiterInv, WaiterOK, IsVoid, NoErrand, ControllerTypeOK, Ended, controllerVars
  <2> QED
    BY <2>1, <2>2 DEF ControllerInv
<1> QED
  BY <1>2, <1>3, <1>4

LEMMA DashboardUnchanged ==
  ASSUME TrainState, UNCHANGED dashboardVars
  PROVE  TrainState'
<1> USE DEF TrainState, TrainingTypes, TrainInv
<1>1. TrainerTypeOK' /\ ModelsExact' /\ \A q \in Runs : RunInv(q)'
  BY FilesUnchanged DEF dashboardVars
<1>2. ControllerTypeOK' /\ ControllerInv'
  BY ProcessesGoOn DEF dashboardVars, trainerVars, processVars
<1> QED
  BY <1>1, <1>2

-----------------------------------------------------------------------------
(* Training: all of it. *)

LEMMA RunsAreFine ==
  ASSUME TrainState
  PROVE  ResumeIsExact /\ StatusIsTrue
<1>1. ResumeIsExact
  BY DEF TrainState, TrainInv, ModelsExact, ResumeIsExact, RunInv, ResumeOK
<1>2. StatusIsTrue
  BY DEF TrainState, TrainInv, ControllerInv, WaiterInv, WaiterOK, StatusIsTrue, RunInv, StatusOK
<1> QED
  BY <1>1, <1>2

(* No run yet, and the files of earlier ones. *)
LEMMA NoRunYetIsFine ==
  ASSUME NoRunYet, ControllerInit, npz.epoch \in 0 .. Epochs, npz.net = TrainedFor(npz.epoch),
         \A f \in {npz, json} : f = NoFile \/ (f.run \in Runs /\ f.config \in Configs),
         \A r \in Runs : npz.run = r /\ json.run = r => json.epoch \in {npz.epoch, npz.epoch - 1}
  PROVE  TrainerTypeOK /\ ControllerTypeOK /\ ModelsExact /\ ResumeIsExact /\ StatusIsTrue
<1> USE DEF NoRunYet, ControllerInit
<1>1. TrainerTypeOK
  BY DEF TrainerTypeOK, Outside
<1>2. ControllerTypeOK
  BY DEF ControllerTypeOK, NoErrand
<1>3. ModelsExact
  <2>1. TrainedFor(0) = <<>>
    BY DEF TrainedFor
  <2> QED
    BY <2>1 DEF ModelsExact
<1>4. ResumeIsExact
  BY DEF ResumeIsExact
<1>5. StatusIsTrue
  BY DEF StatusIsTrue, FinalStatus, NoErrand
<1> QED
  BY <1>1, <1>2, <1>3, <1>4, <1>5

LEMMA NoFileIsFine ==
  ASSUME NoRunYet, ControllerInit, npz = NoFile, json = NoFile
  PROVE  TrainState
<1>1. NoFile.epoch = 0 /\ NoFile.net = TrainedFor(0) /\ NoFile.run = None
  BY DEF NoFile, TrainedFor
<1>2. TrainerTypeOK /\ ControllerTypeOK /\ ModelsExact
  BY <1>1, NoRunYetIsFine
<1>3. ControllerInv
  BY DEF ControllerInv, HolderInv, WaiterInv, WaiterOK, NoRunYet, ControllerInit, NoErrand
<1>4. ASSUME NEW r \in Runs PROVE RunInv(r)
  <2> USE <1>1 DEF NoRunYet, RunInv
  <2>1. PlaceInv(r)
    BY DEF PlaceInv, Ended, Inside
  <2>2. FilesInv(r) /\ RecordsInv(r)
    BY DEF FilesInv, RecordsInv
  <2>3. ResumeOK(r) /\ StatusOK(r)
    BY DEF ResumeOK, StatusOK, FinalStatus
  <2> QED
    BY <2>1, <2>2, <2>3
<1> QED
  BY <1>2, <1>3, <1>4 DEF TrainState, TrainingTypes, TrainInv

LEMMA FilesLeftAreFine ==
  ASSUME NEW files \in FilesLeft, npz = files[1], json = files[2]
  PROVE  /\ npz.epoch \in 0 .. Epochs /\ npz.net = TrainedFor(npz.epoch)
         /\ \A f \in {npz, json} : f = NoFile \/ (f.run \in Runs /\ f.config \in Configs)
         /\ \A r \in Runs : npz.run = r /\ json.run = r => json.epoch \in {npz.epoch, npz.epoch - 1}
<1> DEFINE Npz(r, c, e) == [run |-> r, epoch |-> e, config |-> c, net |-> TrainedFor(e)]
           Json(r, c, e) == [run |-> r, epoch |-> e, config |-> c]
<1>1. NoFile.epoch = 0 /\ NoFile.net = TrainedFor(0) /\ NoFile.run = None
  BY DEF NoFile, TrainedFor
<1>2. 1 \in Runs /\ Epochs \in Nat \ {0}
  BY DEF Runs
<1>3. CASE files = <<NoFile, NoFile>>
  BY <1>1, <1>2, <1>3
<1>4. CASE \E c \in Configs : files = <<Npz(1, c, 1), NoFile>>
  BY <1>1, <1>2, <1>4
<1>5. CASE \E c \in Configs, e \in {Epochs, Epochs - 1} \ {0} :
             files = <<Npz(1, c, Epochs), Json(1, c, e)>>
  BY <1>2, <1>5
<1>6. CASE \E r \in Runs \cap {2}, c \in Configs, d \in Configs, e \in 1 .. Epochs :
             files = <<Npz(r, c, e), Json(1, d, Epochs)>>
  BY <1>2, <1>6
<1> QED
  BY <1>3, <1>4, <1>5, <1>6 DEF FilesLeft

LEMMA TrainingInit ==
  ASSUME Init
  PROVE  TrainingPart
<1> USE DEF TrainingPart
<1>1. NoRunYet /\ ControllerInit /\ ViewerTypeOK
  BY DEF Init, TrainerInit, ViewerInit, ViewerTypeOK
<1>2. CASE TrainerInit
  BY <1>1, <1>2, NoFileIsFine, RunsAreFine DEF TrainerInit, TrainState, TrainingTypes
<1>3. CASE activity = "driving" /\ \E files \in FilesLeft : npz = files[1] /\ json = files[2]
  BY <1>1, <1>3, FilesLeftAreFine, NoRunYetIsFine
<1> QED
  BY <1>2, <1>3 DEF Init

(* A step of the training's process, waiters, users or viewers. *)
LEMMA TrainingSteps ==
  ASSUME TrainState, ViewerTypeOK,
         UserStep \/ Shows \/ \E r \in Runs : Trains(r) \/ Fails(r) \/ Waits(r)
  PROVE  TrainState' /\ ViewerTypeOK'
<1> USE DEF ViewerTypeOK, viewerVars
<1>1. ASSUME NEW r \in Runs, Trains(r) \/ Fails(r) PROVE TrainState' /\ ViewerTypeOK'
  BY <1>1, TrainerOrFault DEF Trains, Fails
<1>2. ASSUME NEW r \in Runs, Waits(r) PROVE TrainState' /\ ViewerTypeOK'
  BY <1>2, AwakenKeeps, FinaliseKeeps DEF Waits, WaiterStep
<1>3. CASE Connect \/ Shows
  <2>1. UNCHANGED dashboardVars /\ ViewerTypeOK'
    BY <1>3 DEF Connect, Shows, ViewerStep, Look, Send
  <2> QED
    BY <2>1, DashboardUnchanged
<1>4. CASE Request /\ UNCHANGED viewerVars
  BY <1>4, StartKeeps, StartFailsKeeps, PauseOrResumeKeeps, StopKeeps DEF Request
<1>5. CASE Restart /\ UNCHANGED viewerVars
  BY <1>5, RestartKeeps
<1>6. ASSUME NEW r \in Runs, NEW c \in Chosen, NEW resume \in BOOLEAN,
             RunFromShell(r, c, resume), UNCHANGED viewerVars
      PROVE  TrainState' /\ ViewerTypeOK'
  BY <1>6, RunFromShellKeeps
<1> QED
  BY <1>1, <1>2, <1>3, <1>4, <1>5, <1>6 DEF UserStep

(* Otherwise the training's files stay as they are. *)
LEMMA TrainingStays ==
  ASSUME TrainingPart, UNCHANGED <<activity, dashboardVars, viewerVars>>
  PROVE  TrainingPart'
<1> USE DEF TrainingPart
<1>1. TrainerTypeOK' /\ ModelsExact'
  BY FilesUnchanged DEF dashboardVars
<1>2. ControllerTypeOK' /\ ViewerTypeOK'
  BY DEF dashboardVars, controllerVars, ControllerTypeOK, viewerVars, ViewerTypeOK
<1>3. activity # "training" => ResumeIsExact' /\ StatusIsTrue'
  BY DEF dashboardVars, trainerVars, processVars, fileVars, controllerVars, ResumeIsExact, StatusIsTrue
<1>4. activity = "training" => TrainInv'
  BY DashboardUnchanged DEF TrainState, TrainingTypes
<1> QED
  BY <1>1, <1>2, <1>3, <1>4

LEMMA TrainingNext ==
  ASSUME TrainingPart, [Next]_vars
  PROVE  TrainingPart'
<1>1. CASE UserStep \/ Shows \/ \E r \in Runs : Trains(r) \/ Fails(r) \/ Waits(r)
  <2>1. activity = "training"
    BY <1>1 DEF UserStep, Shows, Trains, Fails, Waits, Training
  <2>2. TrainState /\ ViewerTypeOK
    BY <2>1 DEF TrainingPart, TrainState, TrainingTypes
  <2>3. TrainState' /\ ViewerTypeOK'
    BY <1>1, <2>2, TrainingSteps
  <2>4. activity' = "training"
    BY <1>1, <2>1 DEF UserStep, Shows, Trains, Fails, Waits, Training
  <2> QED
    BY <2>3, <2>4 DEF TrainingPart, TrainState, TrainingTypes
<1>2. CASE Collecting \/ Driving \/ UNCHANGED vars
  <2>1. UNCHANGED <<activity, dashboardVars, viewerVars>>
    BY <1>2 DEF Collecting, Driving, vars
  <2> QED
    BY <2>1, TrainingStays
<1> QED
  BY <1>1, <1>2 DEF Next

-----------------------------------------------------------------------------
(* Driving. *)

USE DriverAssumption

(* What one more action does to the actions sent. *)
LEMMA OneMoreAction ==
  ASSUME NEW s \in Seq({"policy", "safe"}), NEW a \in {"policy", "safe"}
  PROVE  /\ Append(s, a) \in Seq({"policy", "safe"})
         /\ Len(Append(s, a)) = Len(s) + 1
         /\ Append(s, a)[Len(s) + 1] = a
         /\ \A i \in 1 .. Len(s) : Append(s, a)[i] = s[i]
OBVIOUS

LEMMA DriverKeeps ==
  ASSUME DriverTypeOK, DriverInv, DriverStep
  PROVE  DriverTypeOK' /\ DriverInv'
<1> USE DEF DriverTypeOK, DriverInv
<1>1. CASE ReadSidecar
  BY <1>1 DEF ReadSidecar, Refuse, NoPolicy
<1>2. CASE ReadCheckpoint
  BY <1>2 DEF ReadCheckpoint, Refuse
<1>3. CASE ResetFrame
  BY <1>3 DEF ResetFrame, Startup, Close
<1>4. CASE Lose \/ Return
  BY <1>4 DEF Lose, Return, Close
<1>5. CASE Predict \/ FailToPredict
  <2>1. /\ driver = "driving" /\ steps < MaxSteps /\ steps' = steps + 1
        /\ UNCHANGED <<policy, startups>>
        /\ stopped' = (failing' >= MaxFailures)
        /\ IF stopped' THEN driver' = "closed" ELSE driver' \in {"driving", "resetting"}
    BY <1>5 DEF Predict, FailToPredict, Act, Close
  <2>2. PICK a \in {"policy", "safe"} :
          /\ sent' = Append(sent, a)
          /\ failing' = IF a = "safe" THEN failing + 1 ELSE 0
    BY <1>5 DEF Predict, FailToPredict, Act, Command, SafeAction
  <2>3. failing < MaxFailures
    BY <2>1
  <2>4. DriverTypeOK'
    BY <2>1, <2>2, <2>3, OneMoreAction
  <2>5. /\ sent' \in Seq({"policy", "safe"}) /\ Len(sent') = Len(sent) + 1
        /\ sent'[Len(sent) + 1] = a
        /\ \A i \in 1 .. Len(sent) : sent'[i] = sent[i]
    BY <2>2, OneMoreAction
  <2>6. /\ failing' <= Len(sent')
        /\ \A i \in Len(sent') - failing' + 1 .. Len(sent') : sent'[i] = "safe"
        /\ failing' < Len(sent') => sent'[Len(sent') - failing'] # "safe"
    <3>1. CASE a = "safe"
      BY <2>2, <2>5, <3>1, SMTT(30)
    <3>2. CASE a = "policy"
      BY <2>2, <2>5, <3>2
    <3> QED
      BY <3>1, <3>2
  <2>7. stopped' <=> failing' = MaxFailures
    <3>1. (failing' >= MaxFailures) <=> failing' = MaxFailures
      BY <2>2, <2>3
    <3> QED
      BY <2>1, <3>1, Zenon
  <2> QED
    BY <2>1, <2>4, <2>6, <2>7
<1> QED
  BY <1>1, <1>2, <1>3, <1>4, <1>5 DEF DriverStep

LEMMA DrivingInit == Init => DrivingPart
<1> SUFFICES ASSUME DriverInit PROVE DrivingPart
  BY DEF Init
<1>1. DriverTypeOK
  <2>1. <<>> \in Seq({"policy", "safe"}) /\ 0 \in 0 .. MaxSteps /\ 0 \in 0 .. MaxFailures
    OBVIOUS
  <2> QED
    BY <2>1 DEF DriverInit, DriverTypeOK
<1>2. DriverInv
  BY DEF DriverInit, DriverInv, NoPolicy
<1> QED
  BY <1>1, <1>2 DEF DrivingPart

LEMMA DrivingNext ==
  ASSUME DrivingPart, [Next]_vars
  PROVE  DrivingPart'
<1> USE DEF DrivingPart
<1>1. CASE Driving
  BY <1>1, DriverKeeps DEF Driving
<1>2. CASE ~Driving
  <2>1. UNCHANGED driverVars
    BY <1>2 DEF Next, vars, Collecting, Trains, Fails, Waits, UserStep, Shows, Training
  <2> QED
    BY <2>1 DEF driverVars, DriverTypeOK, DriverInv
<1> QED
  BY <1>1, <1>2

LEMMA DrivingIsSafe ==
  ASSUME DrivingPart
  PROVE  DrivesSafely
<1> DEFINE n == Len(sent)
           Blind(m) == m > 0 /\ m <= n /\ \A i \in n - m + 1 .. n : sent[i] = "safe"
<1> USE DEF DrivingPart, DriverTypeOK, DriverInv
<1>1. sent # <<>> \/ startups > 0 => policy.weights = policy.model
  OBVIOUS
<1>2. n \in Nat /\ failing \in 0 .. MaxFailures
  OBVIOUS
<1>3. ASSUME NEW m \in Nat, m > failing, m <= n
      PROVE  \E i \in n - m + 1 .. n : sent[i] # "safe"
  <2>1. n - failing \in n - m + 1 .. n /\ sent[n - failing] # "safe"
    BY <1>2, <1>3
  <2> QED
    BY <2>1
<1>4. failing = MaxFailures => Blind(MaxFailures)
  BY <1>2
<1>5. stopped <=> Blind(MaxFailures)
  BY <1>2, <1>3, <1>4, SMTT(30)
<1>6. ~Blind(MaxFailures + 1)
  <2>1. MaxFailures + 1 \in Nat /\ MaxFailures + 1 > failing
    BY <1>2
  <2>2. CASE MaxFailures + 1 <= n
    <3>1. PICK i \in n - (MaxFailures + 1) + 1 .. n : sent[i] # "safe"
      BY <1>3, <2>1, <2>2
    <3> QED
      BY <3>1
  <2> QED
    BY <2>2
<1> QED
  BY <1>1, <1>5, <1>6 DEF DrivesSafely

-----------------------------------------------------------------------------
(* Collecting. *)

LEMMA Bounds ==
  /\ MaxSamples \in Nat \ {0} /\ MaxEpisodes \in Nat \ {0} /\ MaxActions \in Nat \ {0}
  /\ MaxExports \in Nat \ {0} /\ GroupSize \in Nat \ {0}
BY CollectionAssumption

SessionVars == <<images, records, shown, session>>

LEMMA OneMoreFrame ==
  ASSUME NEW S, NEW s \in Seq(S), NEW f \in S
  PROVE  /\ Append(s, f) \in Seq(S) /\ Len(Append(s, f)) = Len(s) + 1
         /\ Append(s, f)[Len(s) + 1] = f
         /\ \A i \in 1 .. Len(s) : Append(s, f)[i] = s[i]
OBVIOUS

LEMMA BeginSessionKeeps ==
  ASSUME CollectInv, BeginSession
  PROVE  CollectInv'
<1> USE DEF CollectInv
<1>1. /\ UNCHANGED <<images, records, shown>> /\ Cardinality(images) < MaxSamples
      /\ Cardinality(images) \in Nat
  BY DEF BeginSession, FilesOK
<1>2. PICK f \in FirstFrames :
        session' = [at |-> "looping", episode |-> 0, index |-> 0,
                    room |-> MaxSamples - Cardinality(images), frame |-> f]
  BY DEF BeginSession
<1>3. f \in 1 .. MaxActions + 1
  BY Bounds DEF FirstFrames, Fresh, FilesOK
<1>4. session' \in Session
  BY <1>1, <1>2, <1>3, Bounds DEF Session
<1>5. SessionInv'
  BY <1>1, <1>2, <1>3, <1>4, Bounds DEF SessionInv
<1> QED
  BY <1>1, <1>5 DEF FilesOK, RecordsSound

LEMMA RecordStepKeeps ==
  ASSUME CollectInv, RecordStep
  PROVE  CollectInv'
<1> DEFINE e == IF session.episode = 0 THEN Cardinality(Episodes) + 1 ELSE session.episode
<1> USE DEF CollectInv
<1>1. /\ UNCHANGED <<images, records>> /\ session.at = "looping" /\ session.room > 0
      /\ Len(shown) < MaxActions /\ shown' = Append(shown, session.frame)
      /\ e <= MaxEpisodes /\ session' = [session EXCEPT !.at = "saving", !.episode = e]
  BY DEF RecordStep
<1>2. e \in 1 .. MaxEpisodes
  <2>1. IsFiniteSet(Episodes)
    <3> DEFINE f == [i \in images |-> i.episode]
    <3>1. f \in Surjection(images, Episodes)
      BY DEF Surjection, Episodes
    <3> QED
      BY <3>1, FS_Surjection DEF FilesOK
  <2>2. Cardinality(Episodes) \in Nat
    BY <2>1, FS_CardinalityType
  <2>3. session.episode \in 0 .. MaxEpisodes
    BY DEF SessionInv, Session
  <2> QED
    BY <1>1, <2>2, <2>3, Bounds, SMTT(30)
<1>3. session.frame \in 1 .. MaxActions + 1
  BY <1>1, Bounds, SMTT(30) DEF SessionInv, Session
<1>4. /\ shown' \in Seq(1 .. MaxActions + 1) /\ Len(shown') = Len(shown) + 1 /\ Len(shown) \in Nat
      /\ shown'[Len(shown')] = session.frame
      /\ \A i \in 1 .. Len(shown) : shown'[i] = shown[i]
  BY <1>1, <1>3, OneMoreFrame DEF FilesOK
<1> HIDE DEF e
<1>5. /\ session' \in Session
      /\ session'.at = "saving" /\ session'.episode = e /\ session'.room = session.room
      /\ session'.frame = session.frame
  <2>1. session \in Session
    BY DEF SessionInv
  <2>2. session' = [at |-> "saving", episode |-> e, index |-> session.index,
                    room |-> session.room, frame |-> session.frame]
    BY <1>1, <2>1 DEF Session
  <2>3. e \in 0 .. MaxEpisodes
    BY <1>2, Bounds
  <2> QED
    BY <2>1, <2>2, <2>3 DEF Session
<1>6. Sample(Len(shown)) \subseteq Sample(Len(shown'))
  BY <1>4 DEF Sample
<1>7. FilesOK'
  BY <1>1, <1>4, <1>6, Bounds DEF FilesOK
<1>8. SessionInv'
  BY <1>1, <1>2, <1>3, <1>4, <1>5 DEF SessionInv
<1>9. RecordsSound'
  <2>1. \A r \in records : r.action # Torn => r.action \in 1 .. Len(shown)
    BY DEF FilesOK, Sample
  <2> QED
    BY <1>1, <1>4, <2>1 DEF RecordsSound
<1> QED
  BY <1>7, <1>8, <1>9

LEMMA SaveImageKeeps ==
  ASSUME CollectInv, SaveImage
  PROVE  CollectInv'
<1> DEFINE i == [episode |-> session.episode, index |-> session.index, frame |-> session.frame]
<1> USE DEF CollectInv
<1>1. /\ UNCHANGED <<records, shown>> /\ session.at = "saving"
      /\ images' = images \cup {i} /\ session' = [session EXCEPT !.at = "writing"]
  BY DEF SaveImage
<1>2. /\ IsFiniteSet(images') /\ Cardinality(images') \in Nat
      /\ Cardinality(images') <= Cardinality(images) + 1 /\ Cardinality(images) \in Nat
  <2>1. IsFiniteSet(images') /\ IsFiniteSet(images)
    BY <1>1, FS_AddElement DEF FilesOK
  <2>2. Cardinality(images') \in Nat /\ Cardinality(images) \in Nat
    BY <2>1, FS_CardinalityType
  <2>3. Cardinality(images') = IF i \in images THEN Cardinality(images) ELSE Cardinality(images) + 1
    BY <1>1, <2>1, FS_AddElement
  <2> QED
    BY <2>1, <2>2, <2>3
<1>3. i \in Image
  BY <1>1, Bounds, SMTT(30) DEF SessionInv, Session, Image
<1>4. /\ session' \in Session /\ session'.at = "writing" /\ session'.episode = session.episode
      /\ session'.room = session.room /\ session'.frame = session.frame
      /\ session'.index = session.index /\ session.room \in Nat
  BY <1>1 DEF SessionInv, Session
<1>5. Cardinality(images) + session.room <= MaxSamples /\ session.room > 0
  BY <1>1 DEF SessionInv
<1>6. /\ Cardinality(images') <= MaxSamples
      /\ Cardinality(images') + session'.room <= MaxSamples + 1
  BY <1>2, <1>4, <1>5, Bounds
<1>7. \E j \in images' : /\ j.episode = session'.episode /\ j.index = session'.index
                         /\ j.frame = session'.frame
  <2>1. /\ i \in images' /\ i.episode = session'.episode /\ i.index = session'.index
        /\ i.frame = session'.frame
    BY <1>1, <1>4
  <2> QED
    BY <2>1
<1> HIDE DEF i
<1>8. FilesOK'
  BY <1>1, <1>2, <1>3, <1>6 DEF FilesOK
<1>9. SessionInv'
  BY <1>1, <1>4, <1>6, <1>7 DEF SessionInv
<1>10. RecordsSound'
  BY <1>1 DEF RecordsSound
<1> QED
  BY <1>8, <1>9, <1>10

LEMMA WriteRecordKeeps ==
  ASSUME CollectInv, WriteRecord
  PROVE  CollectInv'
<1> DEFINE r == [episode |-> session.episode, index |-> session.index, action |-> Len(shown)]
<1> USE DEF CollectInv
<1>1. /\ UNCHANGED <<images, shown>> /\ session.at = "writing" /\ records' = records \cup {r}
  BY DEF WriteRecord
<1>2. PICK f \in FirstFrames \cup {session.frame} :
        \/ session' = [session EXCEPT !.at = "looping", !.index = @ + 1, !.room = @ - 1, !.frame = f]
        \/ session' = [session EXCEPT !.at = "looping", !.index = 0, !.room = @ - 1, !.frame = f,
                                      !.episode = 0]
  BY DEF WriteRecord, FirstFrames
<1>3. f \in 1 .. MaxActions + 1
  BY <1>1, Bounds, SMTT(30) DEF FirstFrames, Fresh, FilesOK, SessionInv, Session
<1>4. /\ session' \in Session /\ session'.at = "looping" /\ session'.room = session.room - 1
      /\ session'.frame = f /\ session.room \in Nat
  <2>1. session \in Session /\ session.room > 0
    BY <1>1 DEF SessionInv
  <2>2. session.room - 1 \in Nat /\ session.room \in Nat /\ session.index + 1 \in Nat
    BY <2>1 DEF Session
  <2>3. f \in 0 .. MaxActions + 1 /\ 0 \in 0 .. MaxEpisodes
    BY <1>3, Bounds
  <2>4. PICK i \in {session.index + 1, 0}, n \in {session.episode, 0} :
          session' = [at |-> "looping", episode |-> n, index |-> i, room |-> session.room - 1,
                      frame |-> f]
    BY <1>2, <2>1 DEF Session
  <2>5. i \in Nat /\ n \in 0 .. MaxEpisodes
    BY <2>1, <2>2, <2>3 DEF Session
  <2> QED
    BY <2>2, <2>3, <2>4, <2>5 DEF Session
<1>5. IsFiniteSet(records')
  BY <1>1, FS_AddElement DEF FilesOK
<1>6. r \in Sample(Len(shown))
  BY <1>1 DEF SessionInv, Session, Sample, FilesOK
<1>7. \E i \in images : i.episode = r.episode /\ i.index = r.index /\ i.frame = shown[r.action]
  BY <1>1 DEF SessionInv
<1> HIDE DEF r
<1>8. FilesOK'
  BY <1>1, <1>5, <1>6 DEF FilesOK
<1>9. SessionInv'
  <2>1. Cardinality(images) + session.room <= MaxSamples + 1
    BY <1>1 DEF SessionInv
  <2>2. Cardinality(images) + session'.room <= MaxSamples
    BY <1>4, <2>1, Bounds DEF FilesOK
  <2> QED
    BY <1>1, <1>3, <1>4, <2>2 DEF SessionInv
<1>10. RecordsSound'
  BY <1>1, <1>7 DEF RecordsSound
<1> QED
  BY <1>8, <1>9, <1>10

LEMMA EndSessionKeeps ==
  ASSUME CollectInv, EndSession \/ CollectorDies
  PROVE  CollectInv'
<1> DEFINE r == [episode |-> session.episode, index |-> session.index, action |-> Torn]
<1> USE DEF CollectInv
<1>1. /\ UNCHANGED <<images, shown>> /\ session' = Idle
      /\ records' = records \/ (session.at = "writing" /\ records' = records \cup {r})
  BY DEF EndSession, CollectorDies
<1>2. session.at = "writing" => r \in Sample(Len(shown))
  BY DEF SessionInv, Session, Sample
<1>3. r.action = Torn
  OBVIOUS
<1> HIDE DEF r
<1>4. IsFiniteSet(records')
  <2>1. IsFiniteSet(records) /\ IsFiniteSet(records \cup {r})
    BY FS_AddElement DEF FilesOK
  <2> QED
    BY <1>1, <2>1
<1>5. FilesOK'
  BY <1>1, <1>2, <1>4 DEF FilesOK
<1>6. SessionInv'
  <2>1. Idle \in Session /\ Idle.at = "idle"
    BY Bounds DEF Idle, Session
  <2> QED
    BY <1>1, <2>1 DEF SessionInv
<1>7. RecordsSound'
  BY <1>1, <1>3 DEF RecordsSound
<1> QED
  BY <1>5, <1>6, <1>7

LEMMA CollectStays ==
  ASSUME CollectInv, UNCHANGED SessionVars
  PROVE  CollectInv'
BY DEF CollectInv, FilesOK, SessionInv, RecordsSound, SessionVars

-----------------------------------------------------------------------------
(* Manifests. *)

(* A finite set is written as a sequence of its elements. *)
LEMMA SequenceOfSet ==
  ASSUME NEW S, IsFiniteSet(S)
  PROVE  SetToSeq(S) \in Seq(S)
<1>1. Cardinality(S) \in Nat /\ ExistsBijection(1 .. Cardinality(S), S)
  BY FS_CardinalityType
<1>2. \E f \in [1 .. Cardinality(S) -> S] : IsInjective(f)
  BY <1>1 DEF ExistsBijection, Bijection, Injection
<1>3. SetToSeq(S) \in [1 .. Cardinality(S) -> S]
  BY <1>2 DEF SetToSeq
<1> QED
  BY <1>1, <1>3

(* Blocks are numbered after the episodes. *)
LEMMA BlockType ==
  ASSUME NEW n \in Nat
  PROVE  Block(n) \in Nat /\ Block(n) \notin 1 .. MaxEpisodes
<1>1. n \div GroupSize \in Nat
  BY Bounds
<1> QED
  BY <1>1, Bounds DEF Block

(* What audit.py lets pass is split by run, and no frame is in two runs.    *)
LEMMA CollectedLinesSound ==
  ASSUME FilesOK, Auditable, NEW validation
  PROVE  /\ IsFiniteSet(CollectedLines(validation))
         /\ CollectedLines(validation) \subseteq Line
         /\ Separate(CollectedLines(validation))
<1> DEFINE L(r) == [run |-> r.episode, frame |-> ImageOf(r).frame, split |-> Split(r.episode, validation)]
<1>1. CollectedLines(validation) = {L(r) : r \in records}
  BY DEF CollectedLines
<1>2. IsFiniteSet(CollectedLines(validation))
  <2> DEFINE g == [r \in records |-> L(r)]
  <2>1. g \in Surjection(records, CollectedLines(validation))
    BY <1>1 DEF Surjection
  <2> QED
    BY <2>1, FS_Surjection DEF FilesOK
<1>3. ASSUME NEW r \in records
      PROVE  /\ r.episode \in Nat /\ ImageOf(r).frame \in Nat
             /\ Split(r.episode, validation) \in {"train", "val"}
  <2>1. ImageOf(r) \in images
    BY DEF Auditable, IsValid, ImageOf
  <2>2. ImageOf(r) \in Image /\ r \in Sample(Len(shown))
    BY <2>1 DEF FilesOK
  <2> QED
    BY <2>2, Bounds DEF Image, Sample, Split
<1>4. CollectedLines(validation) \subseteq Line
  BY <1>1, <1>3 DEF Line
<1>5. ASSUME NEW r \in records, NEW q \in records, L(r).split = "train", L(q).split = "val"
      PROVE  Apart(L(r), L(q))
  <2>1. r.episode \notin validation /\ q.episode \in validation
    BY <1>5 DEF Split
  <2>2. r # q
    BY <2>1
  <2> QED
    BY <2>1, <2>2 DEF Auditable, Apart
<1>6. Separate(CollectedLines(validation))
  BY <1>1, <1>5 DEF Separate
<1> QED
  BY <1>2, <1>4, <1>6

(* Legacy images are split by block, whatever they show. *)
LEMMA LegacyLinesSound ==
  ASSUME NEW validation
  PROVE  /\ IsFiniteSet(LegacyLines(validation))
         /\ LegacyLines(validation) \subseteq Line
         /\ Separate(LegacyLines(validation))
<1> DEFINE L(i) == [run |-> Block(i.number), frame |-> i.frame, split |-> Split(Block(i.number), validation)]
<1>1. LegacyLines(validation) = {L(i) : i \in LegacyImages}
  BY DEF LegacyLines
<1>2. IsFiniteSet(LegacyLines(validation))
  <2> DEFINE g == [i \in LegacyImages |-> L(i)]
  <2>1. g \in Surjection(LegacyImages, LegacyLines(validation))
    BY <1>1 DEF Surjection
  <2> QED
    BY <2>1, FS_Surjection, CollectionAssumption
<1>3. ASSUME NEW i \in LegacyImages
      PROVE  /\ i.frame \in Nat /\ Block(i.number) \in Nat /\ ~IsAudited(L(i))
             /\ Split(Block(i.number), validation) \in {"train", "val"}
  <2>1. i.number \in Nat /\ i.frame \in Nat
    BY CollectionAssumption
  <2> QED
    BY <2>1, BlockType DEF IsAudited, Split
<1>4. LegacyLines(validation) \subseteq Line
  BY <1>1, <1>3 DEF Line
<1>5. ASSUME NEW i \in LegacyImages, NEW j \in LegacyImages, L(i).split = "train", L(j).split = "val"
      PROVE  Apart(L(i), L(j))
  <2>1. Block(i.number) \notin validation /\ Block(j.number) \in validation
    BY <1>5 DEF Split
  <2> QED
    BY <1>3, <2>1 DEF Apart
<1>6. Separate(LegacyLines(validation))
  BY <1>1, <1>5 DEF Separate
<1> QED
  BY <1>2, <1>4, <1>6

LEMMA ExportKeeps ==
  ASSUME ManifestInv, DatasetInv, NEW lines, IsFiniteSet(lines), lines \subseteq Line,
         Separate(lines), Export(lines)
  PROVE  ManifestInv' /\ DatasetInv'
<1>1. /\ exports < MaxExports /\ exports' = exports + 1
      /\ pending' = SetToSeq(lines) /\ manifest' = {} /\ UNCHANGED dataset
  BY DEF Export
<1>2. pending' \in Seq(lines)
  BY <1>1, SequenceOfSet
<1>3. exports' \in 0 .. MaxExports /\ exports \in Nat
  BY <1>1, Bounds DEF ManifestInv
<1>4. WholeManifest' \subseteq lines
  BY <1>1, <1>2 DEF WholeManifest
<1>5. Separate(WholeManifest)'
  BY <1>4 DEF Separate
<1>6. ManifestInv'
  BY <1>1, <1>2, <1>3, <1>5 DEF ManifestInv
<1>7. DatasetInv'
  <2>1. dataset.at = "reading" => dataset.version \in Nat /\ dataset.version <= exports
    BY DEF DatasetInv
  <2> QED
    BY <1>1, <1>3, <2>1 DEF DatasetInv
<1> QED
  BY <1>6, <1>7

LEMMA WriteLineKeeps ==
  ASSUME ManifestInv, DatasetInv, WriteLine
  PROVE  ManifestInv' /\ DatasetInv'
<1>1. /\ pending # <<>> /\ manifest' = manifest \cup {Head(pending)} /\ pending' = Tail(pending)
      /\ UNCHANGED <<exports, dataset>> /\ pending \in Seq(Line)
  BY DEF WriteLine, ManifestInv
<1>2. /\ Head(pending) \in Line /\ Tail(pending) \in Seq(Line)
      /\ 1 \in DOMAIN pending /\ Head(pending) = pending[1]
  BY <1>1
<1>3. ASSUME NEW i \in DOMAIN Tail(pending)
      PROVE  \E j \in DOMAIN pending : Tail(pending)[i] = pending[j]
  <2>1. i + 1 \in DOMAIN pending /\ Tail(pending)[i] = pending[i + 1]
    BY <1>1
  <2> QED
    BY <2>1
<1>4. WholeManifest' \subseteq WholeManifest
  BY <1>1, <1>2, <1>3 DEF WholeManifest
<1>5. Separate(WholeManifest)'
  BY <1>4 DEF Separate, ManifestInv
<1>6. ManifestInv'
  BY <1>1, <1>2, <1>5 DEF ManifestInv
<1>7. DatasetInv'
  BY <1>1 DEF DatasetInv
<1> QED
  BY <1>6, <1>7

LEMMA ExportDiesKeeps ==
  ASSUME ManifestInv, DatasetInv, ExportDies
  PROVE  ManifestInv' /\ DatasetInv'
<1>1. pending' = <<>> /\ UNCHANGED <<manifest, exports, dataset>>
  BY DEF ExportDies
<1>2. WholeManifest' \subseteq WholeManifest
  BY <1>1 DEF WholeManifest
<1>3. Separate(WholeManifest)'
  BY <1>2 DEF Separate, ManifestInv
<1> QED
  BY <1>1, <1>3 DEF ManifestInv, DatasetInv

LEMMA ReadKeeps ==
  ASSUME ManifestInv, DatasetInv, ReadTrain \/ ReadVal
  PROVE  ManifestInv' /\ DatasetInv'
<1>1. UNCHANGED <<manifest, exports, pending>>
  BY DEF ReadTrain, ReadVal
<1>2. ManifestInv'
  BY <1>1 DEF ManifestInv, Separate, WholeManifest
<1>3. \A s : Lines(s) \subseteq manifest /\ \A l \in Lines(s) : l.split = s
  BY DEF Lines
<1>4. manifest \subseteq Line /\ exports \in Nat
  BY DEF ManifestInv
<1>5. CASE ReadTrain
  <2>1. dataset' = [at |-> "reading", version |-> exports, train |-> Lines("train"), val |-> {}]
    BY <1>5 DEF ReadTrain
  <2>2. Lines("train") # {}
    BY <1>5 DEF ReadTrain
  <2> QED
    BY <1>1, <1>2, <1>3, <1>4, <2>1, <2>2 DEF DatasetInv
<1>6. CASE ReadVal /\ Lines("val") = {}
  BY <1>1, <1>2, <1>6 DEF ReadVal, Unread, DatasetInv
<1>7. CASE ReadVal /\ Lines("val") # {}
  <2>1. /\ dataset.at = "reading" /\ dataset.train \subseteq Line /\ dataset.version \in Nat
        /\ dataset.train # {}
    BY <1>7 DEF ReadVal, DatasetInv
  <2>2. dataset' = [at |-> IF exports = dataset.version THEN "read" ELSE "mixed",
                    version |-> dataset.version, train |-> dataset.train, val |-> Lines("val")]
    BY <1>7 DEF ReadVal, DatasetInv
  <2>3. exports = dataset.version =>
          \A t \in dataset.train, v \in Lines("val") : Apart(t, v)
    <3>1. Separate(manifest)
      BY DEF ManifestInv, Separate, WholeManifest
    <3>2. exports = dataset.version =>
            dataset.train \subseteq manifest /\ \A t \in dataset.train : t.split = "train"
      BY <2>1 DEF DatasetInv
    <3> QED
      BY <1>3, <3>1, <3>2 DEF Separate
  <2> QED
    BY <1>2, <1>3, <1>4, <1>7, <2>1, <2>2, <2>3 DEF DatasetInv
<1> QED
  BY <1>5, <1>6, <1>7

LEMMA DataKeeps ==
  ASSUME DataInv, CollectionStep
  PROVE  DataInv'
<1> USE DEF DataInv
<1>1. CASE BeginSession \/ RecordStep \/ SaveImage \/ WriteRecord \/ EndSession \/ CollectorDies
  <2>1. CollectInv'
    BY <1>1, BeginSessionKeeps, RecordStepKeeps, SaveImageKeeps, WriteRecordKeeps, EndSessionKeeps
  <2>2. UNCHANGED <<manifest, exports, pending, dataset>>
    BY <1>1 DEF BeginSession, RecordStep, SaveImage, WriteRecord, EndSession, CollectorDies
  <2>3. ManifestInv' /\ DatasetInv'
    BY <2>2 DEF ManifestInv, DatasetInv, Separate, WholeManifest
  <2> QED
    BY <2>1, <2>3
<1>2. CASE ExportCollected
  <2>1. PICK validation : Export(CollectedLines(validation)) /\ Auditable
    BY <1>2 DEF ExportCollected
  <2>2. ManifestInv' /\ DatasetInv'
    BY <2>1, CollectedLinesSound, ExportKeeps DEF CollectInv
  <2>3. CollectInv'
    BY <2>1, CollectStays DEF Export, SessionVars
  <2> QED
    BY <2>2, <2>3
<1>3. CASE ExportLegacy
  <2>1. PICK validation : Export(LegacyLines(validation))
    BY <1>3 DEF ExportLegacy
  <2>2. ManifestInv' /\ DatasetInv'
    BY <2>1, LegacyLinesSound, ExportKeeps
  <2>3. CollectInv'
    BY <2>1, CollectStays DEF Export, SessionVars
  <2> QED
    BY <2>2, <2>3
<1>4. CASE WriteLine \/ ExportDies \/ ReadTrain \/ ReadVal
  <2>1. ManifestInv' /\ DatasetInv'
    BY <1>4, WriteLineKeeps, ExportDiesKeeps, ReadKeeps
  <2>2. CollectInv'
    BY <1>4, CollectStays DEF WriteLine, ExportDies, ReadTrain, ReadVal, SessionVars
  <2> QED
    BY <2>1, <2>2
<1> QED
  BY <1>1, <1>2, <1>3, <1>4 DEF CollectionStep

LEMMA CollectingInit == Init => CollectingPart
<1> SUFFICES ASSUME CollectionInit PROVE CollectingPart
  BY DEF Init
<1> USE DEF CollectionInit
<1>1. FilesOK
  BY FS_EmptySet, Bounds DEF FilesOK
<1>2. SessionInv
  BY Bounds DEF SessionInv, Session, Idle
<1>3. RecordsSound
  BY DEF RecordsSound
<1>4. ManifestInv
  BY Bounds DEF ManifestInv, Separate, WholeManifest
<1>5. DatasetInv
  BY DEF DatasetInv, Unread
<1> QED
  BY <1>1, <1>2, <1>3, <1>4, <1>5 DEF CollectingPart, DataInv, CollectInv

LEMMA CollectingNext ==
  ASSUME CollectingPart, [Next]_vars
  PROVE  CollectingPart'
<1> USE DEF CollectingPart
<1>1. CASE Collecting
  BY <1>1, DataKeeps DEF Collecting
<1>2. CASE ~Collecting
  <2>1. UNCHANGED dataVars
    BY <1>2 DEF Next, vars, Driving, Trains, Fails, Waits, UserStep, Shows, Training
  <2>2. UNCHANGED SessionVars
    BY <2>1 DEF dataVars, SessionVars
  <2>3. CollectInv'
    BY <2>2, CollectStays DEF DataInv
  <2>4. ManifestInv' /\ DatasetInv'
    BY <2>1 DEF dataVars, DataInv, ManifestInv, DatasetInv, Separate, WholeManifest
  <2> QED
    BY <2>3, <2>4 DEF DataInv
<1> QED
  BY <1>1, <1>2

LEMMA DataAreSound ==
  ASSUME CollectingPart
  PROVE  CollectionTypeOK /\ DatasetIsSound
<1> USE DEF CollectingPart, DataInv, CollectInv
<1>1. CollectionTypeOK
  <2>1. \A i \in images : i.episode \in 1 .. MaxEpisodes /\ i.index \in Nat
                            /\ i.frame \in 1 .. MaxActions + 1
    BY DEF FilesOK, Image
  <2>2. \A r \in records : r.episode \in 1 .. MaxEpisodes /\ r.action \in 1 .. MaxActions \cup {Torn}
    BY Bounds DEF FilesOK, Sample
  <2>3. session.at \in {"idle", "looping", "saving", "writing"}
    BY DEF SessionInv, Session
  <2>4. exports \in 0 .. MaxExports /\ \A l \in manifest : l.split \in {"train", "val"}
    BY DEF ManifestInv, Line
  <2>5. dataset.at \in {"unread", "reading", "read", "mixed"}
    BY DEF DatasetInv
  <2> QED
    BY <2>1, <2>2, <2>3, <2>4, <2>5 DEF CollectionTypeOK
<1>2. DatasetIsSound
  BY DEF DatasetIsSound, RecordsSound, FilesOK, DatasetInv, Apart
<1> QED
  BY <1>1, <1>2

-----------------------------------------------------------------------------
(* The application. *)

LEMMA AutoDriveInvariant == Spec => []AutoDriveInv
<1>1. Init => AutoDriveInv
  BY TrainingInit, CollectingInit, DrivingInit DEF Init, AutoDriveInv
<1>2. AutoDriveInv /\ [Next]_vars => AutoDriveInv'
  <2> SUFFICES ASSUME AutoDriveInv, [Next]_vars PROVE AutoDriveInv'
    OBVIOUS
  <2>1. UNCHANGED activity
    BY DEF Next, vars, Collecting, Driving, Trains, Fails, Waits, UserStep, Shows, Training
  <2> QED
    BY <2>1, TrainingNext, CollectingNext, DrivingNext DEF AutoDriveInv
<1> QED
  BY <1>1, <1>2, PTL DEF Spec

LEMMA AutoDriveInvHelps ==
  AutoDriveInv =>
    AutoDriveTypeOK /\ ResumeIsExact /\ StatusIsTrue /\ DatasetIsSound /\ DrivesSafely
<1> SUFFICES ASSUME AutoDriveInv
             PROVE  AutoDriveTypeOK /\ ResumeIsExact /\ StatusIsTrue /\ DatasetIsSound /\ DrivesSafely
  OBVIOUS
<1> USE DEF AutoDriveInv
<1>1. CollectionTypeOK /\ DatasetIsSound /\ DrivesSafely
  BY DataAreSound, DrivingIsSafe
<1>2. AutoDriveTypeOK
  BY <1>1 DEF AutoDriveTypeOK, TrainingPart, DrivingPart
<1>3. ResumeIsExact /\ StatusIsTrue
  BY RunsAreFine DEF TrainingPart, TrainState, TrainingTypes
<1> QED
  BY <1>1, <1>2, <1>3

(* Every variable of the application has the values that its code gives it. *)
THEOREM AutoDriveTypesHold == Spec => []AutoDriveTypeOK
BY AutoDriveInvariant, AutoDriveInvHelps, PTL

(* However often train.py is killed, interrupted, resumed, or started over  *)
(* from the dashboard or the shell, the checkpoint holds the model that an *)
(* uninterrupted training has after the epoch it names, and no record of   *)
(* metrics.jsonl or latest.json is ahead of the checkpoint.                *)
THEOREM ResumesExactly == Spec => []ResumeIsExact
BY AutoDriveInvariant, AutoDriveInvHelps, PTL

(* No run.json says that a run has ended which is still training, or that a *)
(* run is completed which has not recorded every epoch; a waiter thread    *)
(* of the dashboard writes about no other run than its own.                *)
THEOREM StatusesAreTrue == Spec => []StatusIsTrue
BY AutoDriveInvariant, AutoDriveInvHelps, PTL

(* Whatever is killed while data are collected, exported and read: actions *)
(* are learnt with the frames they were sent for, and the training and     *)
(* validation data of one manifest have no run in common and, if audit.py   *)
(* wrote it, no frame, though frames may look alike in collected images.    *)
THEOREM DatasetsAreSound == Spec => []DatasetIsSound
BY AutoDriveInvariant, AutoDriveInvHelps, PTL

(* The closed loop drives with weights of the sidecar's model only, and     *)
(* stops for safety after, and only after, MaxFailures predictions in a row *)
(* have failed, episodes or not.                                           *)
THEOREM DriverIsSafe == Spec => []DrivesSafely
BY AutoDriveInvariant, AutoDriveInvHelps, PTL
=============================================================================
