# KernelLeaf: TLA+ models, checks and proofs

KernelLeaf is a small deep-learning framework in Python: autograd, layers, optimizers, a
data loader, a dense synchronous Parameter Server, an experimental sparse sharded Parameter
Server, and applications (distributed MNIST, an autonomous-driving trainer with a
dashboard). This directory holds TLA+ models of the parts whose difficulty is in their
control, TLC configurations that check them on small instances, and TLAPS proofs for all
values of the constants.

To check a model: `tlc -workers 2 -config MCParameterServer.cfg MCParameterServer.tla`.
To check the proofs: `tlapm` on each of `ParameterServer_proofs.tla`,
`SyncTraining_proofs.tla`, `SparseServer_proofs.tla`, `SparseExperiment_proofs.tla`,
`DataLoader_proofs.tla`, `DistributedJob_proofs.tla` (with the launcher's proofs),
`AutoDrive_proofs.tla` and `TrainingStep_proofs.tla`.
`PROJECT.json` lists the runs, what lines of the source every definition stands for, the
hazards of the code with the properties that cover them, and for every property a
one-definition mutation of the model (a *faulty variant*, kept next to the definition it
spoils) that breaks it.

## 1. Inventory

Every entry gives the part's state, its operations, who it interacts with, what is hard
about it and what makes it correct.

### 1.1 Dense synchronous Parameter Server (`kernelleaf/distributed/parameter_server.py`)

* State: parameter version `step`, registered workers, last time each was seen, gradients of
  the open round, the reason of a failure, the model and its optimizer.
* Operations: one `handle_message` under one lock, with a branch per message type
  (REGISTER, HEARTBEAT, PULL_PARAMETERS, PUSH_GRADIENTS, SHUTDOWN, anything else), a timeout
  check at its start, and `serve_connection`, one thread per connection.
* Hard: requests of different workers come in any order; early, late, repeated and malformed
  gradients; a worker's timeout racing the gradient that completes the round; an optimizer
  that raises between storing the last gradient and opening the next round.
* Correct when: every version is one optimizer step over exactly one gradient of every
  configured worker, pushed for that version; an accepted gradient is used once; failure is
  final.

### 1.2 Workers, connections and server threads (`worker.py`, `runtime.py`, `transport.py`)

* State: per worker its step, its copy of the parameters, its place in the push/poll loop;
  per connection what is in flight; per server thread whether it still serves.
* Operations: register, push and wait (poll until the next version is there), shut down;
  abort on an error; a server thread that gives up on a timeout or a disconnect.
* Hard: pushes and polls of the workers interleave freely; a process dies with its gradient
  stored or in flight; a thread goes away silently; everyone waits on everyone.
* Correct when: the job is sequential SGD over global batches, workers end with the same
  model, and a lost worker ends the job instead of hanging it.

### 1.3 Message protocol, codec and transport (`protocol.py`, `serialization.py`, `transport.py`)

* State: the bytes of a stream already received, per connection.
* Hard: a frame arrives in fragments; a timeout in the middle of a frame.
* Correct when: frames come out whole and in order or the connection is given up.

### 1.4 Launcher, monitor and local jobs (`launcher.py`, `monitor.py`, `distributed_mnist.py`, `autodrive/train.py`)

* State: role processes, a status queue, a stop event, the set of completed roles; the
  queue of metric records and the file they go to; the benchmark's checkpoint.
* Hard: a role that dies without a report, or is seen dead before its report is read; a
  timeout racing completion; cleanup of children that will not end; a monitor, a server and
  workers that wait for each other without looking at each other.
* Correct when: `run` returns only after every role completed, raises when one failed, ends
  whatever dies, leaves no child behind, and a job it reports as done is complete.

### 1.5 Sparse sharded Parameter Server: one shard (`experiments/distributed/runtime/server.py`)

* State: keys of the shard and their values, version, workers and their modes, barrier
  contributions per worker and clock, applied clock.
* Operations: register, pull, push (asynchronous at once, synchronous through a barrier that
  waits on a condition variable with a deadline), set_mode (globally or per worker).
* Hard: a push that timed out stays in the barrier; a mode switch while others wait; late
  registration while a clock is open; one bad entry in the middle of an application.
* Correct when: every pushed update is applied exactly once or reported as failed, and
  nobody waits on a barrier that can no longer fill.

### 1.6 Sparse client, sockets and experiment workers (`client.py`, `socket_transport.py`, `grpc_transport.py`, `module.py`, `sparse_lr.py`, `lda.py`, `run_experiments.py`)

* State: per client the shards' connections and registration, per worker its clock; in the
  parent the shard and worker processes and the results collected.
* Hard: an operation visits the shards one after the other and may fail in between; some
  requests are retried after a reconnect and pushes are not; the parent gives up at the
  first error and leaves the workers to find out.
* Correct when: shards stay in step with each other, no update is applied twice, every
  process ends, and results are those of a complete training.

### 1.7 DataLoader (`kernelleaf/data/data_basic.py`)

* State: bounded task and result queues, a stop event, a producer thread and worker threads,
  the consumer's out-of-order buffer.
* Hard: results finish out of order, queues fill up, errors and ends of different threads,
  closing in the middle, the consumer's check that some worker is still alive.
* Correct when: batches come out in sampler order, each once, an error surfaces at its own
  batch, `close` never hangs, and prefetch stays within its documented bound.

### 1.8 Dashboard training controller (`apps/autodrive/dashboard_api.py`, `monitoring.py`) and frontend store (`stores/training.ts`)

* State: the current process and run directory, `run.json` per run, a waiter thread per run,
  pause and stop requests.
* Hard: a stop racing the end of the process, a new start racing the waiter of the old run.
* Correct when: at most one process trains, and every run ends in a final status that tells
  how its process ended.

### 1.9 Training, checkpoint and resume (`apps/autodrive/train.py`, `kernelleaf/checkpoint.py`)

* State: epoch, best loss, optimizer state, the files on disk.
* Hard: a crash between two files of the same epoch, resuming from each of them.
* Correct when: the checkpoint holds the model an uninterrupted training has after the epoch
  it names, whatever was killed and resumed.

### 1.10 Autograd, optimizers and modules (`autograd.py`, `optim.py`, `nn/nn_basic.py`, the training loops, `gradcam.py`)

* State: the tape a forward pass leaves; parameters, their gradients, the optimizer's slots
  and step count, running statistics, the training mode.
* Hard: gradients that outlive their batch, gradient objects that two parameters share, a
  parameter the loss does not reach, state that a checkpoint does not carry, an evaluation
  or a Grad-CAM in the middle of a training.
* Correct when: every batch is applied once with its own gradient by the chain rule, and
  metrics are those of the model they name.

### 1.11 Closed-loop driver and datasets (`drive.py`, `collect.py`, `audit.py`, `manifest.py`, `dataset.py`)

* State: the policy and the count of consecutive failures; images, records and a manifest on
  disk.
* Hard: a policy is two files that are replaced one after the other; failures across
  episodes; processes killed between an image, its record and the lines of a manifest.
* Correct when: no car is driven by mixed models or blindly for longer than allowed, and a
  training reads frames with their own actions, no run in both splits and, of audited
  data, no frame.

### 1.12 Not modelled

Message framing, the frontend store, operators and kernels, and command lines: section 9.

## 2. Plan

In the order in which the modules were written; the most important behaviour first. What is
still open is in the last column.

| module | composes | abstract specification | questions of its runs | theorems | open |
|---|---|---|---|---|---|
| `ParameterServer` | - | - | any client behaviour: whole rounds, kept gradients, final failure | all its invariants and action properties | - |
| `SyncTraining` | `ParameterServer`, workers, connections, threads | `SynchronousSGD` | sequential SGD under faults; completion; failure spreads | types, lockstep, no false alarm, the refinement | - |
| `SparseServer` | - | - | sync barrier with mode switches, timeouts, late workers, clashing lengths | all its invariants | - |
| `ShardedTraining`, `SparseExperiment` | `SparseServer` per shard, clients, processes, parent | - | synchronous epochs, partial pushes, re-sent requests, mode switches; does everything end | types, shards in step, bulk synchrony, no wait for the past, only complete results | - |
| `DataLoader` | - | `BatchStream` | order, bound, close, false alarms | types, bounds, refinement of `BatchStream`, no batch lost | - |
| `Launcher`, `DistributedJob` | role processes; monitor, server, workers | `Launcher` for `DistributedJob` | outcome of `run`, orphans, silent deaths, complete jobs | types, nobody left behind, the refinement, complete jobs | - |
| `Trainer`, `TrainingController`, `Dashboard` | each extends the one before | an uninterrupted training | crash, resume, stop, restart; statuses; what a browser sees | types, exact resume, true statuses | - |
| `DataCollection`, `Driver`, `AutoDrive` | all of AutoDrive | - | sound datasets, safe driving | types, sound datasets, safe driving | - |
| `Autograd`, `TrainingStep` | every training loop on a tape | the chain rule; an undisturbed training | exact updates, exact metrics | types, exact updates, exact metrics | the reverse pass itself (recursion) |

## 3. The dense Parameter Server

### 3.1 `ParameterServer.tla`

`handle_message` holds one lock from its first line to its last, so the server is a
sequential state machine and each branch is one action. Every action first makes the
timeout check the code makes (`FailOnTimeout`, `InService`), then the registration check
(`Admitted`), then does all the branch does.

| variable | in the code |
|---|---|
| `step`, `registered`, `pending` | `step`, `_registered`, `_pending` |
| `age[w]` | time since `_last_seen[w]`, in clock units, stopped one unit past the timeout |
| `failed` | `_failed_reason is not None` |
| `model` | the parameters, as the sequence of updates applied to the initial ones; an update is the set of gradients averaged into it |
| `torn` | an optimizer step has raised: the parameters may be half updated |
| `reply` | the last returned message, or the exception |

What is abstracted: the arithmetic of the weighted mean and of the optimizer; the many
reasons `_decode_gradients` has to refuse a payload (one class, `Malformed`); `request_id`,
which is copied into the answer and is matched by construction where a connection has one
request outstanding. A gradient carries the version it was computed from (`base`), which
the server cannot see; the properties of `SyncTraining` are about it.

Run `ps_open_server` lets two configured workers and a stranger send any request in any
order, for two steps, with a timeout of one unit and an optimizer that may raise. It checks
that updates are whole rounds (`UpdatesAreWholeRounds`), that what waits is the open round
(`PendingIsTheOpenRound`), that an accepted gradient is used exactly once or the job fails
(`AcceptedGradientsAreKept`), and that failure is final (`FailureIsFinal`). Bounds: with two
workers a round can be empty, half full and full; requests name steps 0 to `MaxStep` = 2, so
that a gradient can be late, current and early for version 1; `Bases` has two values so that
a replaced gradient differs from the one it replaces.

### 3.2 `SyncTraining.tla` and `SynchronousSGD.tla`

`SyncTraining` extends the server with worker processes, one connection per worker (`up`
and `down` hold at most one message, since a worker sends again only after it received) and
one server thread per connection. A worker may die anywhere (`Crash`, which stands for its
own receive timeout too), a server thread may time out or see a disconnect, with or without
the last request delivered; a thread that returns drops the last reference to its socket, so
that the peer sees the connection closed. `Serve` is the whole of one round of
`serve_connection`: receive, `handle_message`, send.

`SynchronousSGD` is the promise: the model is a sequence of updates, update *i* averages one
gradient of each worker computed from the parameters of version *i - 1*, and nothing happens
after a stop. `SyncTraining` implements it under the mapping `stopped <- failed \/ torn`
(`SequentialTraining`).

| run | instance | what it shows |
|---|---|---|
| `sync_faults` | 2 workers, 2 batches, timeout 1, both may crash, optimizer may raise | `Lockstep`, the workers' protocol never trips the server's checks (`OnlyTimeoutsAreReported`), the refinement, that the loss of a registered worker ends every process (`FailureSpreads`), and that without a failure every worker finishes (`JobCompletes`) |
| `sync_late_shutdown` | 2 workers, 1 batch, timeout 1, no crash | violated: see below |

Two batches are the least with which a gradient of an earlier version can meet a later
round; three workers exceed what TLC does in minutes, and the proofs of section 8 cover any
number of workers for the server.

*Fairness.* Processes and threads that can take a step are scheduled by the operating
system (weak fairness of `WorkerStep` and `ThreadStep`, per worker) and time passes (weak
fairness of `Time`). Nothing is assumed about crashes or about a thread's timeout.

*Deadlock* is not an error in these runs: a job whose processes have all ended stops.

*Finding.* SHUTDOWN is acknowledged without taking the worker out of `_registered`
(`parameter_server.py:369`), so that the age of a worker that has finished goes on growing.
If another worker is slower by more than the timeout, its next request fails the whole job
with "workers timed out while participating in synchronous training", although nobody who
still participates has timed out. `sync_late_shutdown` shows the shortest such history.

## 4. The sparse Parameter Server

### 4.1 `SparseServer.tla`

Every method of a shard runs under its condition variable, so a step is what a thread does
between getting the lock and giving it up: all of `register_worker` or `set_mode`, and a push
up to its return or to `Condition.wait`. A waiting push is in `asleep` until a `notify_all`
moves it to `awake` (it still has to get the lock back); `Wake` and `Expire` then run the
body of the loop again, in the order of the code's tests: mode, joined, ready, deadline.

| variable | in the code (`ParameterServerState`) |
|---|---|
| `mode`, `workers`, `workerMode` | `_mode`, `_workers`, `_worker_modes` |
| `pending` | `_pending`, as the set of updates waiting; the updates of one worker and clock are a slot |
| `appliedClock` | `_applied_clock` |
| `size` | the length of each value of `_values`, 0 for an absent key |
| `asleep`, `awake` | threads in `wait`, threads notified |
| `applied`, `sent`, `outcome` | history: additions of each update to each key, the pushes made, what each returned |

Values are abstracted to counts of additions; of a value only its length is kept, since a
length that does not fit is what makes an application stop half-way (`Prefixes` gives what
may have been added by then). Left out: entries with op `set`, which overwrite and make
"added once" meaningless, and the version counters, which nothing decides on.

Run `shard_open`: one shard, two workers, three pushes with clocks 0 and 1 and any payload
(nothing, both keys, a longer value for one key), any registrations, mode switches and
passing deadlines. Three pushes are the least for a round, a repeated push of the same slot
and a peer; two keys are the least for an application that stops between two keys. Push
names are interchangeable, hence the symmetry. What it shows, and what it does not:

* an update is never added twice (`AppliedAtMostOnce`), with no condition: not even when a
  push times out, stays in the barrier and is added later by its peers. So "error" does not
  mean "not added", and a client must not push again; the client does not.
* what was acknowledged was added (`AcknowledgedIsApplied`), sleepers are woken
  (`NobodySleepsThrough`) *as long as pushes agree on the length of each key*
  (`Uniform`). Otherwise a round is taken out of the barrier, merging or applying it raises,
  the peers are not notified, and a later round or mode switch advances their clock: they
  are told "applied" or "switched" although their update is gone.

### 4.2 `ShardedTraining.tla` and `SparseExperiment.tla`

`ShardedTraining` puts clients and workers in front of the shards. Workers run the loop of
`run_sparse_lr_worker` or `run_lda_worker` (`algorithm`): `RegisterAt` each shard, the
registration barrier (`Gather`), then per epoch or sweep the mode switch if it is due
(`DeclareMode`), pulls for each mini-batch or document (none in LDA's first sweep,
`AssignTopics`) and pushes, after every mini-batch in async mode and after the last in sync
mode; the clock they push with differs between the two (`ClockOf`). Client operations visit
the shards in order (`at`). A request and its handling are one step, since the client waits
for the answer under its lock; a lost answer is `Resend`, which repeats what the shard did
for `register` and `set_mode`. `Crash` is anything that raises in the worker, a socket that
timed out included; its push goes on waiting in the shard. `snapshot` is a history variable:
what the values pulled contained.

`SparseExperiment` is the call the user makes: the parent starts the shard processes one
after the other (`StartShard`, `BecomeReady`, `FailToBind`, `GiveUpStarting`), spawns the
workers, takes their records from the result queue until the deadline (`Take`,
`CollectExpires`), joins them (`Join`, `JoinExpires`), evaluates, and closes the cluster
whatever has happened. A worker puts its result or its exception and exits (`Put`, `Exit`),
one that is killed puts nothing, and one that the parent has left behind finds its shard gone
(`ConnectionFails`).

| run | instance | what it shows |
|---|---|---|
| `sharded_training` | a whole LR or LDA experiment: 2 workers, 2 shards (one worker has no key on one), 3 epochs of 2 mini-batches, sync to async at epoch 2; worker 1 may raise, both may be killed, shard 2 may not start, lost answers, deadlines at any time | `BulkSynchronous`, `ShardsInStep`, `NobodyWaitsForThePast`, `ExperimentSettles` |
| `switch_to_sync` | the workers alone, from async to sync, no failure | violated: see below |

`BulkSynchronous`: what a worker pulls in a synchronous epoch contains the updates of all
earlier epochs of all workers and of no other, on every shard. `ShardsInStep`: a push that
failed half-way leaves the shards at most one push of a worker apart.
`NobodyWaitsForThePast`: nobody waits in the barrier for a clock a peer has left behind.
`ExperimentSettles`: the call ends, every shard is stopped, the workers nobody terminates
exit as well, and results are returned only if every push of every worker is in the values
evaluated.

Two synchronous epochs are the least in which an update of one epoch can be missing from,
or leak into, another; two shards the least that can be out of step; two mini-batches the
least for which asynchronous clocks differ from epochs. Three workers are out of TLC's reach
here. All workers have equally many mini-batches, the mode switched to is the other one, and
a record fits into the pipe of the result queue (one that does not would keep its worker
from exiting once the parent has stopped reading). A thread per request is assumed, as in
the socket transport; the gRPC server has a pool of 32. The module's assumptions on its
constants: a non-empty range of shards, the names of the pushes, clocks as far as the
mini-batches of all epochs count (`ClockRange`), and pushes of scalars, some of them empty
(`ScalarPayloads`: both experiments push numbers, so that lengths never clash here).

*Fairness.* The parent, worker processes and shard threads that can run are run (weak
fairness of `ParentStep`, of each `WorkerStep` and of each `ServerStep`); a passing deadline
is part of `ServerStep` and `ParentStep`, because a waiting thread whose deadline passes does
run. Nothing has to raise, to be lost or to be killed (`Stumble`, `Kill` and `FailToBind`
have no fairness). The experiment really stops: deadlock is not an error.

*Finding.* Between `set_mode("sync")` and the first synchronous push there is no barrier.
The first worker to switch is the only one the shard knows to be synchronous, so it closes
its round alone; the next worker then declares sync, pushes the same clock and waits for a
contribution the first will not make again, while the first waits in its next clock for the
second (or has finished). Both time out. The comment at `sparse_lr.py:197` guards the start
of training against exactly that. From sync to async there is no such problem.

## 5. The DataLoader

`DataLoader.tla` models one asynchronous iterator: the producer thread, the worker threads
and the consumer, the thread of the user. A step is one operation on something shared: a
look at `stop_event`, one `get`, `put`, `acquire` or `release`. That is what the races are
made of: `put` looks at the stop event and puts afterwards (`OfferTask` and `PutTask`,
`OfferResult` and `PutResult`), and the consumer finds the result queue empty and looks at
the threads afterwards (`GetResult` and `Doubt`). `Doubt` reads all threads at once: a
thread that has exited stays so, and a false "alive" only repeats the loop.

| variable | in the code |
|---|---|
| `stopEvent`, `slots`, `tasks`, `results` | `stop_event`, the value of the semaphore `slots`, the two queues |
| `sequence`, `pills` | the producer's loops: the batch to submit, the STOPs put |
| `held[w]` | `task` and `result` of a worker |
| `nextSequence`, `buffer` | `next_sequence`, the keys of `buffer` |
| `verdict` | what the `__next__` or `close` that joins the threads will end with |
| `failing` | chosen at the start: the batches whose fetch raises |
| `yielded`, `status` | history: what the user has got |

`BatchStream.tla` is the promise: batches in order, the error of a batch in its place,
StopIteration after the last; broken off at any time, after which nothing follows.
`DataLoader` implements it (`InOrder`).

The producer's error result (sequence -1) is left out: nothing in its loop raises except
the release of a semaphore that `close` has filled, and then the stop event keeps the result
from being put. Use of an iterator after it raised or was closed is left out too.

Run `loader_stream`: two workers with `prefetch_factor` 1, four batches of which any set may
fail, conversion errors, KeyboardInterrupt in `__next__`, `close` at any point, joins that
run into their two seconds. Four batches are twice the capacity: every slot is used twice
and a worker can finish a batch while the other still has the one before.

* `NothingLost`: until the iterator is closed, each batch that is submitted and not popped
  is in exactly one place.
* `PrefetchBounded`: at most `Capacity` batches are on their way, the reorder buffer is
  smaller than that while the consumer waits, and workers never find the result queue full.
  (A slot is released before conversion, so with the batch under conversion
  `Capacity` + 1 may be submitted and not yet yielded; `docs/dataloader.md` does not count
  it.)
* `CallsReturn`, `ThreadsEnd`: under weak fairness of each thread (the operating system
  schedules them, and fetching a batch ends) every call returns or raises, and after a
  close all threads exit. The user is under no obligation to call.

Threads end in the states reached after a close, so the system stops: deadlock is not an
error.

*Finding.* `loader_false_alarm` shows that "DataLoader workers exited without a result" can
be raised while the result is in the queue: `results.get` times out, then the last worker
puts its result and takes its STOP, and then the consumer finds no thread alive. Since
`NothingLost` holds, the message is never true.

## 6. Launched jobs, AutoDrive, and the training step

### 6.1 `Launcher.tla` and `DistributedJob.tla`

`Launcher` is `Launcher.run` and `_role_entry`: the parent starts one process per role
(`Start`), then takes one report from the status queue (`Poll`) and looks at all exit codes
(`Inspect`), in turn; a failure, a timeout or an exception leads to `Terminate` and `Reap`
(join, then kill), and `Conclude` raises or returns. A role's process runs its target and
reports (`Complete`, `Fail`), exits (`Exit`) or is killed (`Die`). Report and exit code are
two channels, and a process can be seen dead before its report is read. A failure that the
loop has found sets the stop event and terminates the others; any other exception
(`Unwind`: a process that cannot be started, an interrupt) only joins and kills. A second
interrupt, during the `finally` block itself (`launcher.py:111-121`), is not modelled: it
would cut the reaping short, and `NobodyLeftBehind` says nothing of it.

`DistributedJob` gives the roles of `run_distributed_training` and
`run_autodrive_ps_benchmark` their targets: the monitor that waits for every metric record,
the server that accepts every worker and then waits for its threads, the workers, of which
rank 0 of the benchmark saves the checkpoint. The training protocol is one step per batch
here, with what `SyncTraining` shows of it (`Lockstep`) as its guard. `DistributedJob`
implements `Launcher` (proved).

| variable | in the code |
|---|---|
| `proc`, `statuses`, `stop` | the processes with their exit codes, `status_queue`, `stop_event` |
| `phase`, `index` | where `run` is, and in which of its loops over the processes |
| `completed`, `failure`, `outcome` | `completed`, `failure` (or the exception), what `run` returned |
| `at`, `conn`, `batch` | per role or worker: its place in its target, its connection, its batches |
| `metrics`, `written`, `saved` | records in `metric_queue`, lines of the metrics file, batches in the saved checkpoint |

Run `launched_job`: monitor, server and two workers with one batch each, both applications.
The server may raise, the monitor and one worker may be killed without a report, the other
worker is slow to exit, starting may fail, the user may interrupt, time may run out, and
whatever waits may time out. It shows that nobody is left behind and the right role is blamed
(`NobodyLeftBehind`), that a job reported as done is complete (`SummaryIsComplete`), and that
the launcher always ends (`JobEnds`), although a lost worker leaves the server, the other
worker and the monitor waiting for ever. One batch is enough for each wait to occur; the
proofs of section 8 hold for any number of roles and batches. *Fairness*: parent and
processes are scheduled; no failure, interrupt or timeout is promised.

### 6.2 AutoDrive

| module | what it models |
|---|---|
| `Trainer` | `train.py` main: resume, epochs, and file by file what an epoch leaves: checkpoint, sidecar, metrics, `latest.json`, `run.json`; processes that raise or are killed between any two of them |
| `TrainingController` (extends `Trainer`) | the dashboard's controller: start, pause, resume, stop under its lock, and the waiter threads that finalise `run.json` after giving the lock back; a restart of the dashboard; runs from the shell |
| `Dashboard` (extends `TrainingController`) | the status composed of files and snapshot, and the WebSocket that sends it when a signature of some of their fields has changed |
| `DataCollection` | `collect.py`, `audit.py`, `manifest.py` and the two readings of a manifest by `AutoDriveDataset`; each may be killed half-way |
| `Driver` (extends `Trainer`) | a policy put together from two files, and the closed loop with its failures and episodes |
| `AutoDrive` | the three activities of a user, one at a time; driving begins with whatever two files trainings may have left |

In `Trainer` the model in memory is the list of the shufflings it was trained on, so that a
repeated, skipped or differently shuffled epoch is visible. Frames and actions of
`DataCollection` are numbers.

Run `autodrive` checks, in one state space of the three activities:

* `ResumeIsExact`: the checkpoint always holds the model an uninterrupted training has after
  the epoch it names; no metrics record speaks of an epoch whose checkpoint was not saved.
* `StatusIsTrue`: no run is given a final status while it trains, nor another run's; an
  unrestarted dashboard has one training process.
* `RunsAreFinalised`: under fairness of trainers and waiters a run whose process has ended
  does not stay "running", unless the dashboard was restarted or the next start got in
  before its waiter. (That run is never finalised; the code gives no promise about it.)
* `ViewCatchesUp`: a browser is not left with an old picture of a run of the dashboard.
* `DatasetIsSound`: records belong to the frames their actions were sent for, and a dataset
  read from one manifest has no run in two splits. If `audit.py` wrote the manifest it has no
  frame in two splits either: collected frames may look alike (two episodes begin with the
  same one), and it is the refusal of duplicates (`audit.py:106-107`) that keeps them apart;
  without it the run fails. `manifest.py` compares no images, so a legacy manifest promises
  separate blocks only: in the model the legacy images 0 and 2 show one frame and do land on
  both sides, and the clause stated without `IsAudited` is violated within six steps.
  A dataset read while the manifest was rewritten (`mixed`) has no such promise, and the
  code makes none.
* `DrivesSafely`: weights and sidecar agree in the model, and the driver stops at
  `MaxFailures` predictions failed in a row, counted across episodes.

*Bounds*: two runs of two epochs, with three configurations of which two share a model; run
ids are used in order; the dashboard starts nothing beside a run from the shell, but may
start beside an orphan that a restart left; it is restarted before the last run only; a
browser connects during or after the controller's last run, the earlier ones having completed
or never begun; a training raises in an epoch, at the metrics record or before the loop.
Collecting: three samples, two episodes, four actions, two exports; nothing is collected
after the first export, and legacy folders are exported only where nothing was collected;
three legacy images in two blocks, with one frame on both sides. Lines of one run, split and
frame are one line of the model.
Driving: five steps, two failures. `on_train_end` and the final status, and `latest.json`,
`validation.json` and `run.json` of an epoch, are one step each. *Fairness*: trainers that
are not suspended, waiters and the WebSocket's loop are scheduled; users promise nothing.
Sessions, trainings and drives end: deadlock is not an error.

### 6.3 `Autograd.tla` and `TrainingStep.tla`

`Autograd` is the tape and the reverse pass of `autograd.py`, with symbolic derivatives: the
set of paths a derivative came along, and the tensor object that holds it, because operators
that hand on `out_grad` itself let two parameters share one. `TrainingStep` is every training
loop of the repository at the grain of the framework's calls (`reset_grad`, forward,
`backward`, `clip_grad_norm`, `step`, `train` and `eval`, checkpoint, resume, evaluation,
Grad-CAM). A parameter's value is the sequence of gradients applied to it, a slot the
sequence folded into it, the running statistics the batches they have seen.

What training owes to the reverse pass is one named assumption, `ReversePassIsRight`: on
every network of the batches and on Grad-CAM's heads it `Differentiates`, that is, a leaf
receives the chain rule's derivative, or nothing if no path leads to it. TLC evaluates it
with the networks of the run.

Run `training_step`: all loops with their optimizers, every pair of five networks (a layer, a
residual block, two heads on a parameterless trunk, a parameter used twice, a branch that
leaves a parameter out) for the two batches of each of three epochs, two deaths, Grad-CAM
between any two calls. `TrainsExactly`: between batches, values, slots, step count and
statistics are those of an undisturbed training by the chain rule: what is applied to a
parameter is `Undisturbed`, the gradients due from the batches that lead to it, each once and
in their order. `EvaluatesWhatWasTrained`: metrics are those of the model of the epoch they
name, also from a checkpoint. Three epochs are the least for a resume after a resume; two
batches the least in which a gradient can outlive its batch and meet another network. The run's module also compares the reverse pass
with the chain rule on all networks of three operations (`ReversePassIsTheChainRule`, an
assumption TLC evaluates).

*Finding* (`clipping`): `train_epoch` calls `clip_grad_norm`, which only SGD has, on the Adam
that `main` builds: a training with a clip norm, which is what the dashboard starts unless
told otherwise, raises in its first batch. The run is one batch of it.

## 7. Hazards and properties

`PROJECT.json` lists for each hazard of the code the properties that would catch it. Three
have none or a caveat, for the reasons in their notes: a result too large for the result
queue's pipe, the gRPC server's pool of 32 threads, and a round of a shard whose application
raises, which loses the updates of its peers (section 4.1).

## 8. What is proved

`ParameterServer_proofs.tla` proves, for any finite non-empty set of workers, any strangers,
timeout and request bound:

* `TypeCorrect`: `Spec => []TypeOK`.
* `WholeRounds`, `OpenRound`: the two safety invariants. Neither is inductive alone: that an
  applied round holds one gradient of each worker needs that what was pending was the open
  round, and that `pending` is never full needs `torn`. The inductive invariant `RoundInv` is
  their conjunction with the type invariant; one lemma per group of actions (`RoundHandle`,
  `RoundTime`, `RoundStutter`), with the two facts that do the work apart (`StoreAccepted`:
  storing an acceptable gradient keeps the round well formed; `ApplyRound`: a complete round
  makes a whole update).
* `GradientsKept`, `FailureFinal`: the action properties, from the same invariant.

The proofs use the named assumptions of the module: the workers are a finite non-empty set
disjoint from the strangers, and the timeout is a natural number (0 for none).

`SyncTraining_proofs.tla` proves, for any workers, number of steps and timeout, whoever
crashes: `JobTypes` (`[]JobTypeOK`), `WorkersInLockstep` (`[]Lockstep`), `ProtocolRespected`
(`[]OnlyTimeoutsAreReported`) and `TrainingIsSequential`, that the job implements
`SynchronousSGD`. The last needs that an applied round holds gradients computed from the
current parameters only, which the server cannot see; so the invariant `JobInv` puts beside
the server's `RoundInv`, for each worker,

* `PlaceOK`: where it stands against the server's step. The server is ahead of a worker that
  has contributed to the round (`Contributed`) only, and such a worker polls or is dead;
* `RequestOK`: the request in flight is the one its worker has sent in its place, with the
  worker's own version, and no answer is in flight beside it;
* `AnswerOK`: the answer in flight is one its worker can take;

and `BasesOK`: the base of every pending gradient is its step. What the server does in each
branch to a request that is `RequestOK` is in `ServerAnswers`, what that means for the other
workers in `ServeElsewhere` and for the one it answers in `ServeItself`. An update happens
when the last worker contributes: then all are at the server's version
(`RoundIsGlobalGradient`), which is a step of `SynchronousSGD`; all others leave its
variables alone.

`SparseServer_proofs.tla` proves `AddedAtMostOnce`, `ShardSpec => []AppliedAtMostOnce`, for any
shards, workers, clocks, keys and payloads, with or without deadlines and from either mode.
The property is not inductive alone: a new push could carry the name of one that was added,
so the invariant `OnceInv` says also that what has been added was pushed
for that key (`AppliedWasSent`), that the barrier holds pushed updates only and that a name
stands for one push (`SentOK`). The argument does not depend on which update is in which round: every
operation takes some updates out of the barrier and adds entries of these at most
(`AddingStep`, and one lemma per operation that it is one), and adding entries of distinct
updates that were never added keeps the invariant (`AddingStepKeeps`). No assumption on the
constants is used.

The rest of the module is about the other properties of a shard: `ShardTypes`
(`[]ShardTypeOK`), `AcknowledgedKept` (`[]AcknowledgedIsApplied`) and `SleepersWait`
(`[]NobodySleepsThrough`). The invariant `BarrierInv` adds to `OnceInv` and the types
(`TypeInv`), for a shard whose pushes agree on the lengths:

* `Kept`: what has left the barrier has been added to every key it carries, and its clock is
  counted in `appliedClock`; a stored value has the length of some update. The second part is
  why nothing raises (`NothingRaises`), the first why `Joined` is true only of work done;
* `Waits`: what is in the barrier belongs to a worker in sync mode, on a shard in sync mode,
  and was not acknowledged. So the round a push closes contains its own update;
* `Sleeps`: who sleeps has something in the barrier, in a round that some worker has not
  submitted. A push that completes a round notifies everyone, and one that comes for another
  clock, or a worker that comes, makes no round ready (`NotReadyGrows`).

Every operation either takes updates out and counts their clocks (`Takes`, `TakesKeeps`) or
leaves them; `TurnBarrier` is the turn of the loop, one step per outcome. That clocks only
grow needs that the flush finds a largest clock (`FiniteMax`), and that the shard has seen
finitely many pushes. `Uniform` counts lengths while the invariant compares updates;
`MergeableMeans` says that they agree. Clocks are natural numbers, payloads map keys to
natural numbers, and the initial mode is one of the two: the module's named assumptions.

`SparseExperiment_proofs.tla` proves, of a whole experiment, for any shards, workers, epochs,
mini-batches and mode switch, whoever raises, is killed, is given up on or loses an answer:

* `ExperimentTypesHold`: `ExperimentSpec => []ExperimentTypeOK`;
* `StepsShardByShard`: `[]ShardsInStep`;
* `SyncEpochsAreBulk` and `NobodyWaitsInVain`: `[]BulkSynchronous` and
  `[]NobodyWaitsForThePast`, for a job that does not switch from async to sync
  (`NeverToSync`). The finding of section 4.2 is that they do not hold for the others;
* `ReturnsTheWhole`: the safety half of `ExperimentSettles`. When the call returns, the
  values evaluated are those of a complete training.

The argument has three storeys. A step of the experiment leaves the job alone or is a step
of it (`ExperimentIsJob`), where a job (`JobStep`) is `TrainingNext` in an environment in
which any worker may fail at any time; and a step of the job is one of the shards or leaves
them alone (`JobIsShards`), so that `BarrierInv` of the module before holds of every shard.
What these do not say is in

* `JobInv`, the invariant of the clients: where a loop can stand (`ClientInv`); that every
  push in a shard is one its worker has made, that of all pushes but the one in progress the
  answers are known, and of that one the answers of the shards behind (`PushesOK`); that what
  a shard knows the shards before it have acknowledged (`ShardByShard`); and that an applied
  clock is that of a push (`ClocksOfPushes`). A worker's clocks follow the order of its
  loop (`NamesAndClocks`), in both modes and across the switch, from which `ShardsInStep`
  follows (`InStep`);
* `SyncInv`, for synchronous epochs: nobody is past registration before everybody is
  registered (`EverybodyThere`), what shards and workers know of each other's modes
  (`ModesAgree`, `Declared`), that in a synchronous epoch the clock is the epoch
  (`SyncPushes`), and, the core of it, that a worker is past an epoch, or an update of it
  is out of the barrier, only if *everybody's* update of it is (`PassedRounds`,
  `AppliedRounds`). Then a pull between two epochs sees whole epochs (`PullsSee`) and
  keeps seeing them (`SnapshotsOK`);
* `ParentInv`: a record without an error, a collected result and a verdict stand for workers
  that are done, which nothing revokes (`DoneStays`); and when all are done no shard has a
  thread left and all that was pushed is in the values (`DoneIsComplete`, which needs
  `LastPushes`), so that nothing changes after the evaluation (`AllDoneStays`).

The assumptions used are those of section 4.2 and of `SparseServer`.

`DataLoader_proofs.tla` proves, for any finite non-empty set of workers, any prefetch factor
and any number of batches:

* `TypeCorrect`, which includes that `slots` stays within the semaphore's bound, so that no
  `release` of the bounded semaphore raises in the consumer;
* `Bounded`: never more than `Capacity` batches are on their way;
* `Ordered`: the refinement of `BatchStream`;
* `NoneLost`: `Spec => []NothingLost`;
* `PrefetchStaysBounded`: `Spec => []PrefetchBounded`.

The first three follow from `LoaderInv`. The bound is not inductive alone: it needs that every
slot is free, with the producer, or with a batch on its way (`SlotsOK`), for which the
consumer must pop only batches that were submitted (`Submitted`) and only while the iterator
is open (`ConsumerOK`). After a close the slots are refilled, and what remains is that the
producer may put one more batch, for which the slot was reserved. The refinement needs what
the user has got against what the consumer has popped (`StreamOK`). There is one lemma per
thread (`ProducerKeeps`, `WorkerKeeps`, `ConsumerKeeps`).

The last two need where a batch is, `PlaceInv`: it is nowhere or in one place (`PlaceOK`); if
it was popped it is at most in the buffer, and there only after a close; while the iterator is
open every batch that was submitted and not popped is somewhere. Again one lemma per thread
(`ProducerPlaces`, `WorkerPlaces`, `ConsumerPlaces`), with what a put and a take do to the
positions of a batch in a queue. That a worker with a result finds room follows by counting:
the results in the queue are as many different batches of those on their way, without the one
that the worker holds.

`DistributedJob_proofs.tla` proves of the launcher, for any roles in any order, whatever their targets do, whoever
is killed or slow, and whether or not the launcher is disturbed:

* `LauncherTypes`: `LaunchSpec => []LaunchTypeOK`;
* `LauncherLeavesNobody`: `LaunchSpec => []NobodyLeftBehind`.

`NobodyLeftBehind` is about the end of a run that may have begun anywhere. The inductive
invariant `Inv` says besides: processes are started in order, so that those that were never
started are behind those that were (`StartedInOrder`; the launcher's own error when it joins
one of them is then no process lost); those the reaping loop has come past have ended
(`ReapedSoFar`), from an index that the polling loop left at its start
(`IndexWhenPolling`); a report of failure, and whatever is blamed, belongs to a process that
can only end with a failure (`BlameIsDeserved`, which needs the contents of the queue); and
`phase` and `outcome` end together. One lemma per conjunct, one step per action.

The same module proves of a job, for any workers and any number of batches:

* `JobImplementsLauncher`: every step of a job is a step of the launcher or leaves its state
  alone, hence `JobLeavesNobody`;
* `JobTypesHold`: `JobSpec => []JobTypeOK`. That there are never more records than the
  monitor expects follows by counting: those in the queue and in the file are as many as the
  pairs of a worker and a batch it has done (`OneRecordPerBatch`);
* `SuccessIsComplete`: `JobSpec => []SummaryIsComplete`. `JobInv` says what completing is
  worth per role: a worker shuts down only after its last batch and, for rank 0 of the
  benchmark, after saving; the monitor completes with the last record. Together with
  `NobodyLeftBehind` (a success needs exit code 0 of everyone) that is the theorem.

The named assumptions they rest on: the order lists each role once and none is called
"launcher" or "none"; the roles are the monitor, the server and finitely many workers, all
different, with rank 0 among the workers; there is at least one batch.

`AutoDrive_proofs.tla` proves, for any number of runs, epochs, configurations, samples,
episodes, exports, steps and failures: `AutoDriveTypesHold` (`[]AutoDriveTypeOK`),
`ResumesExactly`, `StatusesAreTrue`, `DatasetsAreSound` and `DriverIsSafe`. A behaviour is
about one activity, so the invariant `AutoDriveInv` has three parts that share no variable
that a step changes:

* `TrainingPart`. `ModelsExact`: the model in every process and in the checkpoint is that of
  an undisturbed training of as many epochs as it claims, which makes resuming exact.
  `PlaceInv`, `FilesInv` and `RecordsInv` say, from where `main` is, how far each file of the
  run is behind the epoch at hand (`LastEpoch`); that the metrics are never ahead of the
  checkpoint follows from the order of writing. A step of one run leaves the others
  `Untouched`. `HolderInv` and `WaiterInv` relate the controller's process, its run id and
  every waiter: a run id may be that of a run whose process was never spawned, and it is only
  such a run that a waiter may write about beside its own. There is one lemma per request.
* `CollectingPart`. The room of a session and the images there are make up `--max-samples`;
  the frame an action was sent for is that of the image that waits for its record; lines
  written and lines pending are `Separate` together (runs for every manifest, frames for the
  audited), so that a manifest cut short is too;
  and what a training has read is still in the manifest unless it was begun anew.
* `DrivingPart`. The failures counted are exactly the safe actions at the end of all actions
  sent, across episodes, and the loop closes when they are `MaxFailures`.

The assumptions: at least one run, one epoch, one of every bound; `None` is no run; the runs
from the shell use configurations of the map; the legacy folders hold finitely
many images, of which any may show the same.

`TrainingStep_proofs.tla` proves, for any model, networks, epochs, batches and deaths:
`StepTypesHold`, `TrainsAsUndisturbed` (`[]TrainsExactly`) and `MetricsAreOfTheModel`
(`[]EvaluatesWhatWasTrained`). `TrainsExactly` speaks of the points between two batches; the
invariant `TrainingInv` says what must hold within one. `GradInv`: there are no gradients
before the backward (they are reset, or an accepted push has dropped them), and after it they
are those of the batch at hand by the chain rule, scaled once after clipping; while a picture
is taken this is said of what the picture puts back (`KeptGrad`). `ModeInv`: every forward on
a batch is in training mode, whoever evaluates or takes pictures. `ModelInv` then counts the
batch into the statistics with the forward, into values, slots and step count with the step.
`FileInv`: a checkpoint is exact for the epoch it names, together with the optimizer's state
if the loop can be resumed from it. The facts that do the work stand apart: what a backward on
reset gradients leaves (`AssignCarries`), that clipping scales every gradient once although
parameters share objects (`ClipCarries`), and that applying what is due keeps a parameter
undisturbed (`AppliedIsDue`). `TheLoops` is what the proofs need of the repository's loops,
derived from their list. The assumptions: at least one parameter, epoch and batch; `Nothing`
is none of the records; and `ReversePassIsRight` (section 6.3).

Only model-checked: that the reverse pass is the chain rule, because it is a recursion over
the tape (`ReversePassIsTheChainRule` compares them on all small networks). The liveness
properties (`JobCompletes`, `FailureSpreads`, `JobEnds`, `ExperimentSettles`, `CallsReturn`,
`ThreadsEnd`, `RunsAreFinalised`, `ViewCatchesUp`) stay with TLC, because liveness under
fairness and ENABLED are beyond the prover.

## 9. Not modelled

* Message framing and codec (`protocol.py`, `serialization.py`, `transport.py`): `recv_exact`
  loops until a frame is complete and any error closes the connection, which the models have
  as a lost connection; the codec's field checks are one class of refused payloads.
* The frontend store (`training.ts`): presentation; the server's side is in `Dashboard`.
* Operators, kernels, layers and backends: floating-point arithmetic without state to
  interleave, compared numerically by the repository's own tests.
* Command lines, benchmarks and plots: no state of their own. The training loops of the demos
  are in `TrainingStep`.
* Of modelled parts: the sparse runtime's `set` entries, byte counts, epoch summary, wire
  formats and its `Module` bridge; `LocalCluster.set_mode`, which no experiment calls; the
  validation of a dashboard start request and the endpoints that read one file; the single
  run's WebSocket; `audit.py --manifest`, which checks or splits anew a manifest that is
  there; an interrupt inside the launcher's cleanup. `PROJECT.json` gives the reason for each.
