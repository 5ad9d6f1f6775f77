-------------------------------- MODULE Driver --------------------------------
(***************************************************************************)
(* Closed-loop driving: AutoDrivePolicy puts the inference sidecar and the  *)
(* checkpoint together, ClosedLoopDriver drives with it, and falls back to  *)
(* a safe action when a prediction fails.                                  *)
(*                                                                         *)
(* The two files may be of different runs or epochs, if a training was      *)
(* killed between them or is going on; a simulator may return what is no    *)
(* frame, or be gone.                                                      *)
(***************************************************************************)
EXTENDS Trainer

CONSTANTS
  MaxSteps,    \* --max-steps
  MaxFailures  \* control.max_consecutive_failures

ASSUME DriverAssumption == {MaxSteps, MaxFailures} \subseteq Nat \ {0}

VARIABLES
  policy,    \* the model, the weights, the size of image it was built with
  driver,    \* where the process is
  steps,     \* statistics["steps"]
  failing,   \* consecutive_failures
  stopped,   \* statistics["stopped_for_safety"]
  sent,      \* the actions the simulator got, but for those before an episode
  startups   \* how many it got before an episode

driverVars == <<policy, driver, steps, failing, stopped, sent, startups>>

NoPolicy == [model |-> None, weights |-> None, image |-> None]

-----------------------------------------------------------------------------
(* AutoDrivePolicy(). *)

Refuse == driver' = "refused" /\ UNCHANGED policy

(* The model is built from the sidecar, for images of its size.            *)
ReadSidecar ==
  /\ driver = "starting"
  /\ IF json.run = None THEN Refuse
     ELSE /\ driver' = "loading"
          /\ policy' = [NoPolicy EXCEPT !.model = json.config.model, !.image = json.config.image]
  /\ UNCHANGED <<steps, failing, stopped, sent, startups>>

(* The weights must fit and the configurations agree; the size of the image *)
(* is not among what is compared.                                          *)
ReadCheckpoint ==
  /\ driver = "loading"
  /\ IF npz.config.model # policy.model THEN Refuse
     ELSE /\ driver' = "resetting"
          /\ policy' = [policy EXCEPT !.weights = npz.config.model]
  /\ UNCHANGED <<steps, failing, stopped, sent, startups>>

-----------------------------------------------------------------------------
(* ClosedLoopDriver.run. *)

Command(action) == sent' = Append(sent, action)

(* The policy's startup action. *)
Startup == startups' = startups + 1

SafeAction == "safe"

(* Whatever ends the loop, the adapter is closed. *)
Close == driver' = "closed"

(* Faulty variant: a new episode forgets the failures of the last. *)
ResetFrameAndCount ==
  /\ driver = "resetting"
  /\ driver' = "driving" /\ failing' = 0
  /\ UNCHANGED <<policy, steps, stopped, sent, startups>>

(* _reset_frame: if reset gives no frame the first action is the policy's   *)
(* startup action; if that gives none either, it raises.                   *)
ResetFrame ==
  /\ driver = "resetting"
  /\ \/ driver' = "driving" /\ UNCHANGED startups
     \/ Startup /\ (driver' = "driving" \/ Close)
     \/ Close /\ UNCHANGED startups
  /\ UNCHANGED <<policy, steps, failing, stopped, sent>>

(* The step of an action in the simulator, and what comes of it: too many   *)
(* failures, the end of the episode, or the next step.                     *)
Act(action, failures) ==
  /\ Command(action)
  /\ failing' = failures
  /\ steps' = steps + 1
  /\ stopped' = (failures >= MaxFailures)
  /\ IF stopped' THEN Close ELSE driver' \in {"driving", "resetting"}
  /\ UNCHANGED <<policy, startups>>

Predict ==
  /\ driver = "driving" /\ steps < MaxSteps
  /\ Act("policy", 0)

(* The model's output is not finite, or the frame is none. *)
FailToPredict ==
  /\ driver = "driving" /\ steps < MaxSteps
  /\ Act(SafeAction, failing + 1)

(* The simulator is gone. *)
Lose ==
  /\ driver = "driving" /\ steps < MaxSteps
  /\ Close
  /\ UNCHANGED <<policy, steps, failing, stopped, sent, startups>>

Return ==
  /\ driver = "driving" /\ steps = MaxSteps
  /\ Close
  /\ UNCHANGED <<policy, steps, failing, stopped, sent, startups>>

DriverStep ==
  ReadSidecar \/ ReadCheckpoint \/ ResetFrame \/ Predict \/ FailToPredict \/ Lose \/ Return

DriverInit ==
  /\ policy = NoPolicy
  /\ driver = "starting"
  /\ steps = 0 /\ failing = 0
  /\ stopped = FALSE
  /\ sent = <<>> /\ startups = 0

-----------------------------------------------------------------------------
(* Properties. *)

(* The values of the driver's state. *)
DriverTypeOK ==
  /\ driver \in {"starting", "refused", "loading", "resetting", "driving", "closed"}
  /\ steps \in 0 .. MaxSteps
  /\ failing \in 0 .. MaxFailures
  /\ stopped \in BOOLEAN
  /\ sent \in Seq({"policy", "safe"}) /\ startups \in Nat

(* A car is not driven by weights of another model than the sidecar's, and  *)
(* not blindly for long: MaxFailures safe actions in a row, episodes or not, *)
(* are its last, it is then that the driver has stopped for safety, and it  *)
(* never says so otherwise.                                                *)
DrivesSafely ==
  LET n == Len(sent)
      Blind(m) == m > 0 /\ m <= n /\ \A i \in n - m + 1 .. n : sent[i] = "safe"
  IN  /\ sent # <<>> \/ startups > 0 => policy.weights = policy.model
      /\ stopped <=> Blind(MaxFailures)
      /\ stopped => driver = "closed"
      /\ ~Blind(MaxFailures + 1)
=============================================================================
