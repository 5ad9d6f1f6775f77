----------------------------- MODULE DataLoader -----------------------------
(***************************************************************************)
(* One asynchronous iterator of kernelleaf's DataLoader                    *)
(* (kernelleaf/data/data_basic.py, class _AsyncDataLoaderIter and its      *)
(* _AsyncLoaderState): a producer thread that submits the batches of the   *)
(* sampler, worker threads that fetch them, and the consumer, the thread   *)
(* of the user, which puts the results in order again.                     *)
(*                                                                         *)
(* A step is one operation on something shared: a look at the stop event,  *)
(* a get or put of a queue, an acquire or release of the semaphore.  Queue *)
(* and semaphore operations with a timeout are retried in loops; one that  *)
(* times out has found the queue empty or full, the semaphore at zero.     *)
(*                                                                         *)
(* Abstractions.  A batch is its sequence number; whether fetching it      *)
(* raises is settled beforehand (failing).  Conversion to tensors succeeds *)
(* or raises.  The loop of the producer raises nowhere but in a release of *)
(* a full semaphore, after the stop; so its error result (sequence -1) is  *)
(* never sent and the consumer's branch for it is left out.  The user does *)
(* not go on with an iterator that raised or was closed.                   *)
(***************************************************************************)
EXTENDS Integers, FiniteSets, Sequences

CONSTANTS
  Workers,           \* the worker threads
  PrefetchFactor,    \* prefetch_factor
  Batches,           \* number of batches, len(ordering)
  ConvertMayRaise,   \* whether _to_tensors can raise
  MayInterrupt,      \* whether a KeyboardInterrupt can hit the consumer
  JoinMayExpire      \* whether a join can run into its two seconds

ASSUME WorkersAssumption == IsFiniteSet(Workers) /\ Workers # {}
ASSUME FactorAssumption == PrefetchFactor \in Nat \ {0}
ASSUME BatchesAssumption == Batches \in Nat
ASSUME FlagsAssumption ==
  ConvertMayRaise \in BOOLEAN /\ MayInterrupt \in BOOLEAN /\ JoinMayExpire \in BOOLEAN

VARIABLES
  failing,       \* the batches whose fetch raises
  stopEvent,     \* stop_event
  slots,         \* value of the semaphore slots
  tasks,         \* queue of submitted batches, and of STOPs
  results,       \* queue of fetched batches
  producerPc,    \* what the producer does
  sequence,      \* the batch the producer is to submit
  pills,         \* STOPs put
  workerPc,      \* what each worker does
  held,          \* the batch a worker is fetching, or has fetched
  consumerPc,    \* what the consumer does
  nextSequence,  \* next_sequence
  buffer,        \* the batches that came out of order
  verdict,       \* what the call that is closing the iterator will end with
  yielded,       \* history: how many batches the user got
  status         \* history: how the iteration stands for the user

queueVars == <<slots, tasks, results>>
producerVars == <<producerPc, sequence, pills>>
workerVars == <<workerPc, held>>
consumerVars == <<consumerPc, nextSequence, buffer, verdict, yielded, status>>
vars == <<failing, stopEvent, queueVars, producerVars, workerVars, consumerVars>>

STOP == -1     \* the sentinel of the task queue
Nothing == -1  \* a worker holds no batch
None == "none" \* no call is closing the iterator

(* queue_capacity *)
Capacity == Cardinality(Workers) * PrefetchFactor

-----------------------------------------------------------------------------
(* The producer. *)

(* Faulty variant: one STOP too many. *)
ProducerTopOneMore ==
  /\ producerPc = "top"
  /\ producerPc' =
       IF sequence < Batches
       THEN IF stopEvent THEN "exited" ELSE "acquiring"
       ELSE IF pills > Cardinality(Workers) THEN "exited" ELSE "offering"
  /\ UNCHANGED <<failing, stopEvent, queueVars, sequence, pills, workerVars, consumerVars>>

(* Top of the loops: the next batch needs a slot, a STOP does not. *)
ProducerTop ==
  /\ producerPc = "top"
  /\ producerPc' =
       IF sequence < Batches
       THEN IF stopEvent THEN "exited" ELSE "acquiring"
       ELSE IF pills = Cardinality(Workers) THEN "exited" ELSE "offering"
  /\ UNCHANGED <<failing, stopEvent, queueVars, sequence, pills, workerVars, consumerVars>>

(* Faulty variant: batches are submitted without a slot. *)
AcquireFreely ==
  /\ producerPc = "acquiring"
  /\ producerPc' = "offering"
  /\ UNCHANGED <<failing, stopEvent, queueVars, sequence, pills, workerVars, consumerVars>>

Acquire ==
  /\ producerPc = "acquiring"
  /\ IF slots > 0
     THEN slots' = slots - 1 /\ producerPc' = "offering"
     ELSE producerPc' = "top" /\ UNCHANGED slots
  /\ UNCHANGED <<failing, stopEvent, tasks, results, sequence, pills, workerVars, consumerVars>>

(* Faulty variant: put does not look at the stop event. *)
OfferTaskAnyway ==
  /\ producerPc = "offering"
  /\ producerPc' = "putting"
  /\ UNCHANGED <<failing, stopEvent, queueVars, sequence, pills, workerVars, consumerVars>>

(* put looks at the stop event; a batch that is not put gives its slot     *)
(* back, unless close has given back all.                                  *)
OfferTask ==
  /\ producerPc = "offering"
  /\ IF stopEvent
     THEN /\ producerPc' = "exited"
          /\ slots' = IF sequence < Batches /\ slots < Capacity THEN slots + 1 ELSE slots
     ELSE producerPc' = "putting" /\ UNCHANGED slots
  /\ UNCHANGED <<failing, stopEvent, tasks, results, sequence, pills, workerVars, consumerVars>>

PutTask ==
  /\ producerPc = "putting"
  /\ IF Len(tasks) < Capacity
     THEN /\ producerPc' = "top"
          /\ IF sequence < Batches
             THEN /\ tasks' = Append(tasks, sequence)
                  /\ sequence' = sequence + 1
                  /\ UNCHANGED pills
             ELSE /\ tasks' = Append(tasks, STOP)
                  /\ pills' = pills + 1
                  /\ UNCHANGED sequence
     ELSE /\ producerPc' = "offering"
          /\ UNCHANGED <<tasks, sequence, pills>>
  /\ UNCHANGED <<failing, stopEvent, slots, results, workerVars, consumerVars>>

ProducerStep == ProducerTop \/ Acquire \/ OfferTask \/ PutTask

-----------------------------------------------------------------------------
(* The workers. *)

WorkerTop(w) ==
  /\ workerPc[w] = "top"
  /\ workerPc' = [workerPc EXCEPT ![w] = IF stopEvent THEN "exited" ELSE "taking"]
  /\ UNCHANGED <<failing, stopEvent, queueVars, producerVars, held, consumerVars>>

(* A batch is fetched, or its error caught, before anything shared is done. *)
TakeTask(w) ==
  /\ workerPc[w] = "taking"
  /\ IF tasks = <<>>
     THEN /\ workerPc' = [workerPc EXCEPT ![w] = "top"]
          /\ UNCHANGED <<tasks, held>>
     ELSE /\ tasks' = Tail(tasks)
          /\ IF Head(tasks) = STOP
             THEN /\ workerPc' = [workerPc EXCEPT ![w] = "exited"]
                  /\ UNCHANGED held
             ELSE /\ workerPc' = [workerPc EXCEPT ![w] = "offering"]
                  /\ held' = [held EXCEPT ![w] = Head(tasks)]
  /\ UNCHANGED <<failing, stopEvent, slots, results, producerVars, consumerVars>>

(* Faulty variant: a batch that could not be fetched has no result. *)
OfferFetched(w) ==
  /\ workerPc[w] = "offering"
  /\ workerPc' = [workerPc EXCEPT ![w] =
       IF stopEvent THEN "exited" ELSE IF held[w] \in failing THEN "top" ELSE "putting"]
  /\ held' = [held EXCEPT ![w] = IF stopEvent \/ @ \in failing THEN Nothing ELSE @]
  /\ UNCHANGED <<failing, stopEvent, queueVars, producerVars, consumerVars>>

OfferResult(w) ==
  /\ workerPc[w] = "offering"
  /\ workerPc' = [workerPc EXCEPT ![w] = IF stopEvent THEN "exited" ELSE "putting"]
  /\ held' = [held EXCEPT ![w] = IF stopEvent THEN Nothing ELSE @]
  /\ UNCHANGED <<failing, stopEvent, queueVars, producerVars, consumerVars>>

PutResult(w) ==
  /\ workerPc[w] = "putting"
  /\ IF Len(results) < Capacity
     THEN /\ results' = Append(results, held[w])
          /\ held' = [held EXCEPT ![w] = Nothing]
          /\ workerPc' = [workerPc EXCEPT ![w] = "top"]
     ELSE /\ workerPc' = [workerPc EXCEPT ![w] = "offering"]
          /\ UNCHANGED <<results, held>>
  /\ UNCHANGED <<failing, stopEvent, slots, tasks, producerVars, consumerVars>>

WorkerStep(w) == WorkerTop(w) \/ TakeTask(w) \/ OfferResult(w) \/ PutResult(w)

-----------------------------------------------------------------------------
(* The consumer. *)

AllExited == producerPc = "exited" /\ \A w \in Workers : workerPc[w] = "exited"

(* The call is over: it returned a batch or said how the iteration ended.  *)
Deliver(v) ==
  /\ consumerPc' = "outside"
  /\ buffer' = {}
  /\ verdict' = None
  /\ IF v = "batch"
     THEN yielded' = yielded + 1 /\ UNCHANGED status
     ELSE status' = v /\ UNCHANGED yielded

(* close, after which the call goes on with v; free is the semaphore's     *)
(* value before.                                                           *)
Close(v, free) ==
  IF stopEvent
  THEN Deliver(v) /\ slots' = free /\ UNCHANGED stopEvent
  ELSE /\ stopEvent' = TRUE
       /\ slots' = Capacity
       /\ consumerPc' = "joining"
       /\ verdict' = v
       /\ UNCHANGED <<buffer, yielded, status>>

(* The threads are joined, each for two seconds at most. *)
Joined ==
  /\ consumerPc = "joining"
  /\ AllExited \/ JoinMayExpire
  /\ Deliver(verdict)
  /\ UNCHANGED <<failing, stopEvent, queueVars, producerVars, workerVars, nextSequence>>

(* __next__ is called. *)
CallNext ==
  /\ consumerPc = "outside" /\ status = "open"
  /\ IF nextSequence >= Batches
     THEN Close("exhausted", slots)
     ELSE /\ consumerPc' = "seeking"
          /\ UNCHANGED <<stopEvent, slots, buffer, verdict, yielded, status>>
  /\ UNCHANGED <<failing, tasks, results, producerVars, workerVars, nextSequence>>

(* Faulty variant: an error is raised as soon as it arrives. *)
GetResultOrRaise ==
  /\ consumerPc = "seeking"
  /\ nextSequence \notin buffer
  /\ results # <<>>
  /\ results' = Tail(results)
  /\ IF Head(results) \in failing
     THEN Close("error", slots)
     ELSE /\ buffer' = buffer \cup {Head(results)}
          /\ UNCHANGED <<stopEvent, slots, consumerPc, verdict, yielded, status>>
  /\ UNCHANGED <<failing, tasks, producerVars, workerVars, nextSequence>>

(* results.get, which finds the queue empty or not. *)
GetResult ==
  /\ consumerPc = "seeking"
  /\ nextSequence \notin buffer
  /\ IF results = <<>>
     THEN consumerPc' = "doubting" /\ UNCHANGED <<results, buffer>>
     ELSE /\ buffer' = buffer \cup {Head(results)}
          /\ results' = Tail(results)
          /\ UNCHANGED consumerPc
  /\ UNCHANGED <<failing, stopEvent, slots, tasks, producerVars, workerVars,
                 nextSequence, verdict, yielded, status>>

(* The queue was empty: is there anybody left who could fill it? *)
Doubt ==
  /\ consumerPc = "doubting"
  /\ IF AllExited
     THEN Close("lost", slots)
     ELSE /\ consumerPc' = "seeking"
          /\ UNCHANGED <<stopEvent, slots, buffer, verdict, yielded, status>>
  /\ UNCHANGED <<failing, tasks, results, producerVars, workerVars, nextSequence>>

(* Faulty variant: the slot is not released. *)
PopKeepingSlot ==
  /\ consumerPc = "seeking"
  /\ nextSequence \in buffer
  /\ nextSequence' = nextSequence + 1
  /\ IF nextSequence \in failing
     THEN Close("error", slots)
     ELSE /\ consumerPc' = "converting"
          /\ buffer' = buffer \ {nextSequence}
          /\ UNCHANGED <<stopEvent, slots, verdict, yielded, status>>
  /\ UNCHANGED <<failing, tasks, results, producerVars, workerVars>>

(* The next batch is there: its slot is released, its error raised. *)
PopNext ==
  /\ consumerPc = "seeking"
  /\ nextSequence \in buffer
  /\ nextSequence' = nextSequence + 1
  /\ IF nextSequence \in failing
     THEN Close("error", slots + 1)
     ELSE /\ consumerPc' = "converting"
          /\ buffer' = buffer \ {nextSequence}
          /\ slots' = slots + 1
          /\ UNCHANGED <<stopEvent, verdict, yielded, status>>
  /\ UNCHANGED <<failing, tasks, results, producerVars, workerVars>>

(* _to_tensors; the last batch closes the iterator before it is returned.  *)
Convert ==
  /\ consumerPc = "converting"
  /\ \/ ConvertMayRaise /\ Close("unusable", slots)
     \/ nextSequence >= Batches /\ Close("batch", slots)
     \/ /\ nextSequence < Batches
        /\ consumerPc' = "outside"
        /\ yielded' = yielded + 1
        /\ UNCHANGED <<stopEvent, slots, buffer, verdict, status>>
  /\ UNCHANGED <<failing, tasks, results, producerVars, workerVars, nextSequence>>

(* KeyboardInterrupt within __next__. *)
Interrupt ==
  /\ MayInterrupt
  /\ \/ consumerPc \in {"seeking", "doubting", "converting"} /\ Close("interrupted", slots)
     \/ /\ consumerPc = "joining" /\ verdict # "closed"
        /\ Deliver("interrupted")
        /\ UNCHANGED <<stopEvent, slots>>
  /\ UNCHANGED <<failing, tasks, results, producerVars, workerVars, nextSequence>>

(* close, the end of a with block, a lost reference, or the next epoch. *)
CloseByUser ==
  /\ consumerPc = "outside" /\ status = "open"
  /\ Close("closed", slots)
  /\ UNCHANGED <<failing, tasks, results, producerVars, workerVars, nextSequence>>

ConsumerStep == GetResult \/ Doubt \/ PopNext \/ Convert \/ Joined

-----------------------------------------------------------------------------

Init ==
  /\ failing \in SUBSET (0 .. Batches - 1)
  /\ stopEvent = FALSE
  /\ slots = Capacity
  /\ tasks = <<>> /\ results = <<>>
  /\ producerPc = "top" /\ sequence = 0 /\ pills = 0
  /\ workerPc = [w \in Workers |-> "top"]
  /\ held = [w \in Workers |-> Nothing]
  /\ consumerPc = "outside" /\ nextSequence = 0 /\ buffer = {}
  /\ verdict = None /\ yielded = 0 /\ status = "open"

Next ==
  \/ ProducerStep
  \/ \E w \in Workers : WorkerStep(w)
  \/ ConsumerStep \/ CallNext \/ CloseByUser \/ Interrupt

(* Every thread runs on; the user may keep the iterator as long as he likes. *)
Spec ==
  /\ Init
  /\ [][Next]_vars
  /\ WF_vars(ProducerStep)
  /\ \A w \in Workers : WF_vars(WorkerStep(w))
  /\ WF_vars(ConsumerStep)

-----------------------------------------------------------------------------
(* Properties. *)

(* The values the variables range over. *)
TypeOK ==
  /\ failing \subseteq 0 .. Batches - 1
  /\ stopEvent \in BOOLEAN
  /\ slots \in 0 .. Capacity
  /\ tasks \in Seq((0 .. Batches - 1) \cup {STOP})
  /\ results \in Seq(0 .. Batches - 1)
  /\ producerPc \in {"top", "acquiring", "offering", "putting", "exited"}
  /\ sequence \in 0 .. Batches
  /\ pills \in 0 .. Cardinality(Workers)
  /\ workerPc \in [Workers -> {"top", "taking", "offering", "putting", "exited"}]
  /\ held \in [Workers -> (0 .. Batches - 1) \cup {Nothing}]
  /\ consumerPc \in {"outside", "seeking", "doubting", "converting", "joining"}
  /\ nextSequence \in 0 .. Batches
  /\ buffer \subseteq 0 .. Batches - 1
  /\ verdict \in {None, "batch", "exhausted", "error", "unusable", "lost", "interrupted", "closed"}
  /\ yielded \in 0 .. Batches
  /\ status \in {"open", "exhausted", "error", "unusable", "lost", "interrupted", "closed"}

(* Where a batch is: its places in the queues, with workers, in the buffer. *)
Places(b) ==
  ({"tasks"} \X {i \in DOMAIN tasks : tasks[i] = b})
    \cup ({"results"} \X {i \in DOMAIN results : results[i] = b})
    \cup ({"held"} \X {w \in Workers : held[w] = b})
    \cup ({"buffer"} \X (buffer \cap {b}))

(* Until the iterator is closed, every batch submitted and not yet popped  *)
(* is in exactly one place, and no other batch is anywhere: none is lost,  *)
(* none is fetched twice.                                                  *)
NothingLost ==
  ~stopEvent =>
    \A b \in 0 .. Batches - 1 :
      Cardinality(Places(b)) = IF b >= nextSequence /\ b < sequence THEN 1 ELSE 0

(* No more than Capacity batches are on their way to the consumer.         *)
SubmittedBounded == sequence - nextSequence <= Capacity

(* "Out-of-order completion cannot create an unbounded reorder buffer": of *)
(* the batches on their way one is the batch that the consumer waits for,  *)
(* and a worker with a result never finds the result queue full.           *)
PrefetchBounded ==
  /\ SubmittedBounded
  /\ ~stopEvent /\ nextSequence \notin buffer => Cardinality(buffer) < Capacity
  /\ \A w \in Workers : workerPc[w] = "putting" => Len(results) < Capacity

(* An iterator says that its workers have "exited without a result" only   *)
(* when the batch it waits for is not there.                               *)
LostOnlyWhenLost ==
  "lost" \in {verdict, status} => \A i \in DOMAIN results : results[i] # nextSequence

Stream == INSTANCE BatchStream

(* The threads together are a stream of batches in order.                  *)
InOrder == Stream!StreamSpec

(* Every call of __next__, and of close, returns or raises.                *)
CallsReturn == consumerPc # "outside" ~> consumerPc = "outside"

(* Once an iterator is closed, all of its threads come to their end.       *)
ThreadsEnd == stopEvent ~> AllExited
=============================================================================
