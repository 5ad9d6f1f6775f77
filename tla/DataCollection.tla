---------------------------- MODULE DataCollection ----------------------------
(***************************************************************************)
(* From driving by hand to a dataset: collect.py writes an image and a     *)
(* record per step into the directory of the episode, audit.py (or         *)
(* manifest.py, for the old image folders) writes a manifest in which each *)
(* record is for training or for validation, AutoDriveDataset reads it.    *)
(*                                                                         *)
(* Each may be killed between two files or two lines, and a manifest may    *)
(* be written anew while it is read.  Frames and actions are numbers: an    *)
(* action's is its place in the list of all actions sent to the simulator.  *)
(***************************************************************************)
EXTENDS Naturals, FiniteSets, SequencesExt

CONSTANTS
  MaxSamples,   \* --max-samples
  MaxEpisodes,  \* bound: the episodes recorded
  MaxActions,   \* bound: the actions sent
  MaxExports,   \* bound: the manifests written
  LegacyImages, \* the images of the old folders: the number in the name, the frame shown
  GroupSize,    \* --group-size
  Torn          \* what a half-written line says

ASSUME CollectionAssumption ==
  /\ {MaxSamples, MaxEpisodes, MaxActions, MaxExports, GroupSize} \subseteq Nat \ {0}
  /\ LegacyImages \subseteq [number : Nat, frame : Nat] /\ IsFiniteSet(LegacyImages)

VARIABLES
  images,   \* the PNG files
  records,  \* the lines of the records.jsonl; action Torn: half of one
  shown,    \* per action sent, the frame it was sent for
  session,  \* the running collect()
  manifest, \* the lines of the manifest
  exports,  \* how many times a manifest was begun
  pending,  \* the lines still to be written
  dataset   \* what a training process has read

dataVars == <<images, records, shown, session, manifest, exports, pending, dataset>>

Idle == [at |-> "idle", episode |-> 0, index |-> 0, room |-> 0, frame |-> 0]
Unread == [at |-> "unread", version |-> 0, train |-> {}, val |-> {}]

-----------------------------------------------------------------------------
(* collect(). *)

Episodes == {i.episode : i \in images}
Fresh == Len(shown) + 1

(* adapter.reset: a new frame, or the one every episode starts with.       *)
FirstFrames == {1, Fresh}

(* The images that are there count towards --max-samples.  Bound: nothing is *)
(* collected once there is a manifest.                                     *)
BeginSession ==
  /\ session = Idle /\ exports = 0
  /\ Cardinality(images) < MaxSamples
  /\ \E f \in FirstFrames :
       session' = [at |-> "looping", episode |-> 0, index |-> 0,
                   room |-> MaxSamples - Cardinality(images), frame |-> f]
  /\ UNCHANGED <<images, records, shown, manifest, exports, pending, dataset>>

(* Keys are polled; the first step of an episode makes its directory.  The  *)
(* pixels are copied before the action is sent.                            *)
RecordStep ==
  /\ session.at = "looping" /\ session.room > 0
  /\ Len(shown) < MaxActions
  /\ LET e == IF session.episode = 0 THEN Cardinality(Episodes) + 1 ELSE session.episode
     IN  e <= MaxEpisodes /\ session' = [session EXCEPT !.at = "saving", !.episode = e]
  /\ shown' = Append(shown, session.frame)
  /\ UNCHANGED <<images, records, manifest, exports, pending, dataset>>

(* Faulty variant: not the copy but the frame after the action is saved. *)
SaveWhatIsShown ==
  /\ session.at = "saving"
  /\ images' = images \cup {[episode |-> session.episode, index |-> session.index, frame |-> Fresh]}
  /\ session' = [session EXCEPT !.at = "writing"]
  /\ UNCHANGED <<records, shown, manifest, exports, pending, dataset>>

SaveImage ==
  /\ session.at = "saving"
  /\ images' = images \cup
       {[episode |-> session.episode, index |-> session.index, frame |-> session.frame]}
  /\ session' = [session EXCEPT !.at = "writing"]
  /\ UNCHANGED <<records, shown, manifest, exports, pending, dataset>>

(* The record; the next frame, which may look like the last, of the same    *)
(* episode or, if this one is done, of the next.                           *)
WriteRecord ==
  /\ session.at = "writing"
  /\ records' = records \cup
       {[episode |-> session.episode, index |-> session.index, action |-> Len(shown)]}
  /\ \/ \E f \in {session.frame, Fresh} :
          session' = [session EXCEPT !.at = "looping", !.index = @ + 1, !.room = @ - 1, !.frame = f]
     \/ \E f \in FirstFrames :
          session' = [session EXCEPT !.at = "looping", !.index = 0, !.room = @ - 1, !.frame = f,
                                     !.episode = 0]
  /\ UNCHANGED <<images, shown, manifest, exports, pending, dataset>>

(* By key, at the limit, or because the simulator is gone.                 *)
EndSession ==
  /\ session.at = "looping"
  /\ session' = Idle
  /\ UNCHANGED <<images, records, shown, manifest, exports, pending, dataset>>

(* Killed: an image without its record, or with half of it.                *)
CollectorDies ==
  /\ session.at \in {"saving", "writing"}
  /\ session' = Idle
  /\ records' \in
       IF session.at = "writing"
       THEN {records, records \cup
              {[episode |-> session.episode, index |-> session.index, action |-> Torn]}}
       ELSE {records}
  /\ UNCHANGED <<images, shown, manifest, exports, pending, dataset>>

-----------------------------------------------------------------------------
(* audit.py and manifest.py. *)

ImageOf(r) == CHOOSE i \in images : i.episode = r.episode /\ i.index = r.index

(* audit_sources finds no error, and no image twice.                       *)
IsValid(r) ==
  r.action # Torn /\ \E i \in images : i.episode = r.episode /\ i.index = r.index

(* Faulty variant: the duplicates are reported, the manifest is written.   *)
AuditableWithRepeats == \A r \in records : IsValid(r)

Auditable ==
  /\ \A r \in records : IsValid(r)
  /\ \A r, q \in records : r # q => ImageOf(r).frame # ImageOf(q).frame

(* At least one run for validation, at least one for training: one, for a   *)
(* val_ratio of 0.2 and seven runs at most.                                *)
Validations(runs) == IF Cardinality(runs) < 2 THEN {} ELSE {{r} : r \in runs}

Split(r, validation) == IF r \in validation THEN "val" ELSE "train"

CollectedLines(validation) ==
  {[run |-> r.episode, frame |-> ImageOf(r).frame, split |-> Split(r.episode, validation)]
     : r \in records}

(* build_legacy_records: blocks of GroupSize image numbers stand for runs;  *)
(* numbered here after the episodes.  The images are not compared: one      *)
(* frame may be in two blocks.  Bound: who has old folders collects nothing. *)
Block(n) == MaxEpisodes + 1 + n \div GroupSize
LegacyLines(validation) ==
  {[run |-> Block(i.number), frame |-> i.frame, split |-> Split(Block(i.number), validation)]
     : i \in LegacyImages}

(* write_manifest truncates the file. *)
Export(lines) ==
  /\ session = Idle
  /\ pending = <<>> /\ exports < MaxExports
  /\ exports' = exports + 1
  /\ pending' = SetToSeq(lines)
  /\ manifest' = {}
  /\ UNCHANGED <<images, records, shown, session, dataset>>

ExportCollected ==
  /\ Auditable
  /\ \E validation \in Validations({r.episode : r \in records}) :
       Export(CollectedLines(validation))

ExportLegacy ==
  /\ images = {}
  /\ \E validation \in Validations({Block(i.number) : i \in LegacyImages}) :
       Export(LegacyLines(validation))

WriteLine ==
  /\ pending # <<>>
  /\ manifest' = manifest \cup {Head(pending)}
  /\ pending' = Tail(pending)
  /\ UNCHANGED <<images, records, shown, session, exports, dataset>>

(* Killed: the manifest stays as far as it was written. *)
ExportDies ==
  /\ pending # <<>>
  /\ pending' = <<>>
  /\ UNCHANGED <<images, records, shown, session, manifest, exports, dataset>>

-----------------------------------------------------------------------------
(* A training process reads the manifest twice; without a record in a split *)
(* it raises.                                                              *)

Lines(split) == {l \in manifest : l.split = split}

ReadTrain ==
  /\ dataset.at = "unread"
  /\ Lines("train") # {}
  /\ dataset' = [at |-> "reading", version |-> exports, train |-> Lines("train"), val |-> {}]
  /\ UNCHANGED <<images, records, shown, session, manifest, exports, pending>>

ReadVal ==
  /\ dataset.at = "reading"
  /\ dataset' = IF Lines("val") = {} THEN Unread
                ELSE [dataset EXCEPT !.at = IF exports = dataset.version THEN "read" ELSE "mixed",
                                     !.val = Lines("val")]
  /\ UNCHANGED <<images, records, shown, session, manifest, exports, pending>>

CollectionStep ==
  BeginSession \/ RecordStep \/ SaveImage \/ WriteRecord \/ EndSession \/ CollectorDies
    \/ ExportCollected \/ ExportLegacy \/ WriteLine \/ ExportDies
    \/ ReadTrain \/ ReadVal

CollectionInit ==
  /\ images = {} /\ records = {} /\ shown = <<>>
  /\ session = Idle
  /\ manifest = {} /\ exports = 0 /\ pending = <<>>
  /\ dataset = Unread

-----------------------------------------------------------------------------
(* Properties. *)

(* The values of the data's state. *)
CollectionTypeOK ==
  /\ \A i \in images : i.episode \in 1 .. MaxEpisodes /\ i.index \in Nat /\ i.frame \in 1 .. MaxActions + 1
  /\ \A r \in records : r.episode \in 1 .. MaxEpisodes /\ r.action \in 1 .. MaxActions \cup {Torn}
  /\ session.at \in {"idle", "looping", "saving", "writing"}
  /\ exports \in 0 .. MaxExports
  /\ \A l \in manifest : l.split \in {"train", "val"}
  /\ dataset.at \in {"unread", "reading", "read", "mixed"}

(* The lines of audit.py: those of collected episodes.                     *)
IsAudited(l) == l.run \in 1 .. MaxEpisodes

(* Whatever was killed in between, a training does not learn what was not   *)
(* driven, and is not validated on what it has learnt: every record that is *)
(* not torn belongs to an image of the frame its action was sent for; there *)
(* are never more images than asked for; and a dataset read from one        *)
(* manifest, however far that was written, has no empty split, no run in    *)
(* both and, if audit.py wrote it ("duplicate images found; resolve them    *)
(* before splitting to avoid leakage"), no frame in both.  A manifest of    *)
(* legacy folders promises separate blocks only.                           *)
DatasetIsSound ==
  /\ \A r \in records : r.action # Torn =>
       \E i \in images : i.episode = r.episode /\ i.index = r.index /\ i.frame = shown[r.action]
  /\ Cardinality(images) <= MaxSamples
  /\ dataset.at = "read" =>
       /\ dataset.train # {} /\ dataset.val # {}
       /\ \A t \in dataset.train, v \in dataset.val :
            t.run # v.run /\ (IsAudited(t) => t.frame # v.frame)
=============================================================================
