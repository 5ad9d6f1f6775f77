-------------------------- MODULE DataLoader_proofs --------------------------
(***************************************************************************)
(* Proofs about the iterator of the DataLoader, for any number of workers, *)
(* batches and prefetched batches: its types, the bounds on what is        *)
(* submitted, buffered and queued, that it is a stream of batches in       *)
(* order, and that it loses no batch and fetches none twice.               *)
(***************************************************************************)
EXTENDS DataLoader, FiniteSetTheorems, TLAPS

USE WorkersAssumption, FactorAssumption, BatchesAssumption, FlagsAssumption

LEMMA CapacityType == Cardinality(Workers) \in Nat \ {0} /\ Capacity \in Nat \ {0}
<1>1. Cardinality(Workers) \in Nat \ {0}
  BY FS_CardinalityType, FS_EmptySet
<1>2. \A m, n \in Nat \ {0} : m * n \in Nat \ {0}
  OBVIOUS
<1>3. QED
  BY <1>1, <1>2 DEF Capacity

(* What putting at the end of a queue and taking its head do.               *)
LEMMA PutIntoQueue ==
  ASSUME NEW S, NEW queue \in Seq(S), NEW item \in S
  PROVE  /\ Append(queue, item) \in Seq(S)
         /\ \A i \in DOMAIN Append(queue, item) :
              Append(queue, item)[i] = item \/ (i \in DOMAIN queue /\ Append(queue, item)[i] = queue[i])
OBVIOUS

LEMMA TakeFromQueue ==
  ASSUME NEW S, NEW queue \in Seq(S), queue # <<>>
  PROVE  /\ Head(queue) \in S /\ 1 \in DOMAIN queue /\ Head(queue) = queue[1]
         /\ Tail(queue) \in Seq(S)
         /\ \A i \in DOMAIN Tail(queue) :
              i + 1 \in DOMAIN queue /\ Tail(queue)[i] = queue[i + 1]
OBVIOUS

(* The numbers among the variables. *)
Numbers ==
  /\ slots \in 0 .. Capacity
  /\ sequence \in 0 .. Batches
  /\ nextSequence \in 0 .. Batches
  /\ pills \in 0 .. Cardinality(Workers)

-----------------------------------------------------------------------------
(* The invariant behind the bound.                                         *)

(* What is on its way has been submitted. *)
Submitted ==
  /\ \A i \in DOMAIN tasks : tasks[i] < sequence
  /\ \A i \in DOMAIN results : results[i] < sequence
  /\ \A w \in Workers : held[w] < sequence
  /\ \A b \in buffer : b < sequence

(* The producer is where it is for a batch, or for a STOP still to be put. *)
ProducerOK ==
  /\ producerPc = "acquiring" => sequence < Batches
  /\ producerPc \in {"offering", "putting"} /\ sequence = Batches =>
       pills < Cardinality(Workers)

(* The slot the producer holds for a batch that it has not submitted yet. *)
Reserved(places) == IF producerPc \in places /\ sequence < Batches THEN 1 ELSE 0

(* Every slot is free, with the producer, or with a batch on its way.      *)
SlotsOK ==
  /\ ~stopEvent => slots + (sequence - nextSequence) + Reserved({"offering", "putting"}) = Capacity
  /\ sequence - nextSequence + Reserved({"putting"}) <= Capacity

(* The consumer works on open iterators only. *)
ConsumerOK ==
  /\ consumerPc \in {"seeking", "doubting", "converting"} => ~stopEvent
  /\ consumerPc = "outside" /\ status = "open" /\ nextSequence < Batches => ~stopEvent
  /\ consumerPc = "joining" => verdict \notin {None, "open"}
  /\ consumerPc = "joining" /\ verdict = "batch" => nextSequence = Batches

(* What the user has got, against what the consumer has popped.            *)
StreamOK ==
  /\ consumerPc # "outside" => status = "open"
  /\ status = "open" /\ consumerPc \in {"outside", "seeking", "doubting"} =>
       yielded = nextSequence
  /\ consumerPc = "converting" \/ (consumerPc = "joining" /\ verdict = "batch") =>
       yielded + 1 = nextSequence /\ yielded \notin failing
  /\ consumerPc = "joining" /\ verdict = "exhausted" => yielded = Batches
  /\ consumerPc = "joining" /\ verdict = "error" => yielded \in failing

(* A worker with a result to put has a batch. *)
WorkersOK ==
  \A w \in Workers : workerPc[w] \in {"offering", "putting"} => held[w] # Nothing

LoaderInv == TypeOK /\ WorkersOK /\ Submitted /\ ProducerOK /\ SlotsOK /\ ConsumerOK /\ StreamOK

LEMMA LoaderInit == Init => LoaderInv
<1> SUFFICES ASSUME Init PROVE LoaderInv
  OBVIOUS
<1> USE CapacityType DEF Init
<1>1. /\ tasks \in Seq((0 .. Batches - 1) \cup {STOP})
      /\ results \in Seq(0 .. Batches - 1)
  OBVIOUS
<1>2. /\ workerPc \in [Workers -> {"top", "taking", "offering", "putting", "exited"}]
      /\ held \in [Workers -> (0 .. Batches - 1) \cup {Nothing}]
  OBVIOUS
<1>3. Numbers /\ yielded \in 0 .. Batches
  BY DEF Numbers
<1>4. TypeOK
  BY <1>1, <1>2, <1>3 DEF TypeOK, Numbers
<1>5. WorkersOK /\ Submitted /\ ProducerOK /\ ConsumerOK /\ StreamOK
  BY DEF WorkersOK, Submitted, ProducerOK, ConsumerOK, StreamOK, Nothing
<1>6. SlotsOK
  BY <1>3 DEF SlotsOK, Reserved, Numbers
<1>7. QED
  BY <1>4, <1>5, <1>6 DEF LoaderInv

LEMMA ProducerKeeps ==
  ASSUME LoaderInv, ProducerStep
  PROVE  LoaderInv'
<1> USE CapacityType DEF LoaderInv, queueVars, workerVars, consumerVars
<1>1. Numbers /\ WorkersOK'
  BY DEF TypeOK, Numbers, ProducerStep, ProducerTop, Acquire, OfferTask, PutTask, WorkersOK
<1>2. CASE ProducerTop
  <2>1. TypeOK' /\ Submitted'
    BY <1>2 DEF ProducerTop, TypeOK, Submitted
  <2>2. ProducerOK' /\ ConsumerOK' /\ StreamOK'
    BY <1>1, <1>2 DEF ProducerTop, Numbers, ProducerOK, ConsumerOK, StreamOK
  <2>3. SlotsOK'
    BY <1>1, <1>2 DEF ProducerTop, Numbers, SlotsOK, Reserved
  <2>4. QED
    BY <1>1, <2>1, <2>2, <2>3
<1>3. CASE Acquire
  <2>1. TypeOK' /\ Submitted'
    BY <1>3 DEF Acquire, TypeOK, Submitted
  <2>2. ProducerOK' /\ ConsumerOK' /\ StreamOK'
    BY <1>1, <1>3 DEF Acquire, Numbers, ProducerOK, ConsumerOK, StreamOK
  <2>3. SlotsOK'
    BY <1>1, <1>3 DEF Acquire, Numbers, SlotsOK, ProducerOK, Reserved
  <2>4. QED
    BY <1>1, <2>1, <2>2, <2>3
<1>4. CASE OfferTask
  <2>1. TypeOK' /\ Submitted'
    BY <1>4 DEF OfferTask, TypeOK, Submitted
  <2>2. ProducerOK' /\ ConsumerOK' /\ StreamOK'
    BY <1>1, <1>4 DEF OfferTask, Numbers, ProducerOK, ConsumerOK, StreamOK
  <2>3. SlotsOK'
    BY <1>1, <1>4 DEF OfferTask, Numbers, SlotsOK, Reserved
  <2>4. QED
    BY <1>1, <2>1, <2>2, <2>3
<1>5. CASE PutTask
  <2>1. CASE Len(tasks) < Capacity
    <3> DEFINE item == IF sequence < Batches THEN sequence ELSE STOP
    <3>1. tasks' = Append(tasks, item)
      BY <1>5, <2>1 DEF PutTask
    <3>2. tasks \in Seq((0 .. Batches - 1) \cup {STOP}) /\ item \in (0 .. Batches - 1) \cup {STOP}
      BY <1>1 DEF TypeOK, Numbers
    <3>3. /\ tasks' \in Seq((0 .. Batches - 1) \cup {STOP})
          /\ \A i \in DOMAIN tasks' : tasks'[i] = item \/ (i \in DOMAIN tasks /\ tasks'[i] = tasks[i])
      BY <3>1, <3>2, PutIntoQueue
    <3>4. /\ sequence' = IF sequence < Batches THEN sequence + 1 ELSE sequence
          /\ pills' = IF sequence < Batches THEN pills ELSE pills + 1
          /\ producerPc' = "top"
          /\ producerPc = "putting"
          /\ UNCHANGED <<failing, stopEvent, slots, results, workerVars, consumerVars>>
      BY <1>5, <2>1 DEF PutTask
    <3>5. Numbers'
      BY <1>1, <3>4 DEF Numbers, ProducerOK
    <3>6. TypeOK'
      BY <3>3, <3>4, <3>5 DEF TypeOK, Numbers
    <3>7. Submitted'
      <4>1. \A i \in DOMAIN tasks' : tasks'[i] < sequence'
        <5>1. TAKE i \in DOMAIN tasks'
        <5>2. CASE tasks'[i] = item
          BY <1>1, <3>4, <5>2 DEF Numbers, STOP
        <5>3. CASE i \in DOMAIN tasks /\ tasks'[i] = tasks[i]
          <6>1. tasks[i] < sequence /\ tasks[i] \in Int
            BY <5>3 DEF Submitted, TypeOK, STOP
          <6>2. QED
            BY <1>1, <3>4, <5>3, <6>1 DEF Numbers
        <5>4. QED
          BY <3>3, <5>2, <5>3
      <4>2. /\ \A i \in DOMAIN results : results[i] \in Int
            /\ \A w \in Workers : held[w] \in Int
            /\ \A b \in buffer : b \in Int
        BY DEF TypeOK, Nothing
      <4>3. QED
        BY <1>1, <3>4, <4>1, <4>2 DEF Submitted, Numbers
    <3>8. ProducerOK' /\ ConsumerOK' /\ StreamOK'
      BY <3>4 DEF ProducerOK, ConsumerOK, StreamOK
    <3>9. SlotsOK'
      BY <1>1, <3>4 DEF SlotsOK, Reserved, Numbers
    <3>10. QED
      BY <1>1, <3>6, <3>7, <3>8, <3>9
  <2>2. CASE ~(Len(tasks) < Capacity)
    <3>1. TypeOK' /\ Submitted'
      BY <1>5, <2>2 DEF PutTask, TypeOK, Submitted
    <3>2. ProducerOK' /\ ConsumerOK' /\ StreamOK'
      BY <1>5, <2>2 DEF PutTask, ProducerOK, ConsumerOK, StreamOK
    <3>3. SlotsOK'
      BY <1>1, <1>5, <2>2 DEF PutTask, SlotsOK, Reserved, Numbers
    <3>4. QED
      BY <1>1, <3>1, <3>2, <3>3
  <2>3. QED
    BY <2>1, <2>2
<1>6. QED
  BY <1>2, <1>3, <1>4, <1>5 DEF ProducerStep

LEMMA WorkerKeeps ==
  ASSUME LoaderInv, NEW w \in Workers, WorkerStep(w)
  PROVE  LoaderInv'
<1> USE CapacityType DEF LoaderInv, queueVars, producerVars, consumerVars
<1>1. ProducerOK' /\ SlotsOK' /\ ConsumerOK' /\ StreamOK'
  BY DEF WorkerStep, WorkerTop, TakeTask, OfferResult, PutResult,
         ProducerOK, SlotsOK, ConsumerOK, StreamOK, Reserved
<1>2. CASE WorkerTop(w)
  BY <1>1, <1>2 DEF WorkerTop, TypeOK, WorkersOK, Submitted
<1>3. CASE TakeTask(w)
  <2>1. CASE tasks = <<>>
    BY <1>1, <1>3, <2>1 DEF TakeTask, TypeOK, WorkersOK, Submitted
  <2>2. CASE tasks # <<>>
    <3>1. tasks \in Seq((0 .. Batches - 1) \cup {STOP})
      BY DEF TypeOK
    <3>2. /\ Head(tasks) \in (0 .. Batches - 1) \cup {STOP} /\ 1 \in DOMAIN tasks
          /\ Head(tasks) = tasks[1]
          /\ Tail(tasks) \in Seq((0 .. Batches - 1) \cup {STOP})
          /\ \A i \in DOMAIN Tail(tasks) : i + 1 \in DOMAIN tasks /\ Tail(tasks)[i] = tasks[i + 1]
      BY <2>2, <3>1, TakeFromQueue
    <3>3. /\ tasks' = Tail(tasks)
          /\ \/ /\ held' = held
                /\ workerPc' = [workerPc EXCEPT ![w] = "exited"]
             \/ /\ Head(tasks) # STOP
                /\ held' = [held EXCEPT ![w] = Head(tasks)]
                /\ workerPc' = [workerPc EXCEPT ![w] = "offering"]
          /\ UNCHANGED <<failing, stopEvent, slots, results, producerVars, consumerVars>>
      BY <1>3, <2>2 DEF TakeTask
    <3>4. held' \in [Workers -> (0 .. Batches - 1) \cup {Nothing}]
      BY <3>2, <3>3 DEF TypeOK, STOP, Nothing
    <3>5. TypeOK'
      BY <3>2, <3>3, <3>4, SMTT(30) DEF TypeOK
    <3>6. WorkersOK'
      BY <3>3 DEF TypeOK, WorkersOK, STOP, Nothing
    <3>7. Submitted'
      <4>1. \A i \in DOMAIN tasks' : tasks'[i] < sequence
        BY <3>2, <3>3 DEF Submitted
      <4>2. \A v \in Workers : held'[v] < sequence
        BY <3>2, <3>3 DEF TypeOK, Submitted
      <4>3. QED
        BY <3>3, <4>1, <4>2 DEF Submitted
    <3>8. QED
      BY <1>1, <3>5, <3>6, <3>7
  <2>3. QED
    BY <2>1, <2>2
<1>4. CASE OfferResult(w)
  <2>1. TypeOK' /\ WorkersOK'
    BY <1>4 DEF OfferResult, TypeOK, WorkersOK, Nothing
  <2>2. Submitted'
    BY <1>4 DEF OfferResult, TypeOK, Submitted, Nothing
  <2>3. QED
    BY <1>1, <2>1, <2>2
<1>5. CASE PutResult(w)
  <2>1. CASE Len(results) < Capacity
    <3>1. results \in Seq(0 .. Batches - 1) /\ held[w] \in 0 .. Batches - 1
      BY <1>5 DEF PutResult, TypeOK, WorkersOK
    <3>2. /\ results' = Append(results, held[w])
          /\ held' = [held EXCEPT ![w] = Nothing]
          /\ workerPc' = [workerPc EXCEPT ![w] = "top"]
          /\ UNCHANGED <<failing, stopEvent, slots, tasks, producerVars, consumerVars>>
      BY <1>5, <2>1 DEF PutResult
    <3>3. /\ results' \in Seq(0 .. Batches - 1)
          /\ \A i \in DOMAIN results' :
               results'[i] = held[w] \/ (i \in DOMAIN results /\ results'[i] = results[i])
      BY <3>1, <3>2, PutIntoQueue
    <3>4. TypeOK'
      BY <3>2, <3>3 DEF TypeOK
    <3>5. WorkersOK'
      BY <3>2 DEF TypeOK, WorkersOK
    <3>6. Submitted'
      <4>1. \A i \in DOMAIN results' : results'[i] < sequence
        BY <3>3 DEF Submitted
      <4>2. \A v \in Workers : held'[v] < sequence
        BY <3>2 DEF TypeOK, Submitted, Nothing
      <4>3. QED
        BY <3>2, <4>1, <4>2 DEF Submitted
    <3>7. QED
      BY <1>1, <3>4, <3>5, <3>6
  <2>2. CASE ~(Len(results) < Capacity)
    <3>1. TypeOK' /\ WorkersOK'
      BY <1>5, <2>2, SMTT(30) DEF PutResult, TypeOK, WorkersOK
    <3>2. Submitted'
      BY <1>5, <2>2 DEF PutResult, Submitted
    <3>3. QED
      BY <1>1, <3>1, <3>2
  <2>3. QED
    BY <2>1, <2>2
<1>6. QED
  BY <1>2, <1>3, <1>4, <1>5 DEF WorkerStep

LEMMA ConsumerKeeps ==
  ASSUME LoaderInv, ConsumerStep \/ CallNext \/ CloseByUser \/ Interrupt
  PROVE  LoaderInv'
<1> USE CapacityType DEF LoaderInv, queueVars, producerVars, workerVars
<1>1. Numbers /\ WorkersOK' /\ ProducerOK'
  BY DEF TypeOK, Numbers, ConsumerStep, GetResult, Doubt, PopNext, Convert, Joined,
         CallNext, CloseByUser, Interrupt, WorkersOK, ProducerOK
<1>2. CASE GetResult
  <2>1. CASE results = <<>>
    BY <1>1, <1>2, <2>1 DEF GetResult, TypeOK, Submitted, SlotsOK, ConsumerOK, StreamOK, Reserved
  <2>2. CASE results # <<>>
    <3>1. /\ Head(results) \in 0 .. Batches - 1 /\ 1 \in DOMAIN results
          /\ Head(results) = results[1]
          /\ Tail(results) \in Seq(0 .. Batches - 1)
          /\ \A i \in DOMAIN Tail(results) :
               i + 1 \in DOMAIN results /\ Tail(results)[i] = results[i + 1]
      BY <2>2, TakeFromQueue DEF TypeOK
    <3>2. /\ results' = Tail(results)
          /\ buffer' = buffer \cup {Head(results)}
          /\ UNCHANGED <<failing, stopEvent, slots, tasks, producerVars, workerVars,
                         consumerPc, nextSequence, verdict, yielded, status>>
      BY <1>2, <2>2 DEF GetResult
    <3>3. TypeOK'
      <4>1. results' \in Seq(0 .. Batches - 1) /\ buffer' \subseteq 0 .. Batches - 1
        BY <3>1, <3>2 DEF TypeOK
      <4>2. QED
        BY <3>2, <4>1 DEF TypeOK
    <3>4. Submitted'
      BY <3>1, <3>2 DEF Submitted
    <3>5. SlotsOK' /\ ConsumerOK' /\ StreamOK'
      BY <1>2, <3>2 DEF GetResult, SlotsOK, ConsumerOK, StreamOK, Reserved
    <3>6. QED
      BY <1>1, <3>3, <3>4, <3>5
  <2>3. QED
    BY <2>1, <2>2
<1>3. CASE PopNext
  <2>1. /\ ~stopEvent /\ nextSequence < sequence
        /\ status = "open" /\ yielded = nextSequence /\ yielded \in 0 .. Batches
    BY <1>3 DEF PopNext, ConsumerOK, StreamOK, Submitted, TypeOK
  <2>2. /\ nextSequence' = nextSequence + 1
        /\ \/ /\ stopEvent' = TRUE /\ slots' = Capacity
              /\ consumerPc' = "joining" /\ verdict' = "error" /\ buffer' = buffer
              /\ nextSequence \in failing
           \/ /\ stopEvent' = stopEvent /\ slots' = slots + 1
              /\ consumerPc' = "converting" /\ verdict' = verdict
              /\ buffer' = buffer \ {nextSequence}
              /\ nextSequence \notin failing
        /\ UNCHANGED <<failing, tasks, results, producerVars, workerVars, yielded, status>>
    BY <1>3, <2>1 DEF PopNext, Close
  <2>3. SlotsOK' /\ Numbers'
    BY <1>1, <2>1, <2>2 DEF SlotsOK, Reserved, Numbers
  <2>4. TypeOK'
    BY <2>2, <2>3 DEF TypeOK, Numbers
  <2>5. Submitted' /\ ConsumerOK'
    BY <2>1, <2>2 DEF Submitted, ConsumerOK, None
  <2>6. StreamOK'
    BY <2>1, <2>2 DEF StreamOK, TypeOK
  <2>7. QED
    BY <1>1, <2>3, <2>4, <2>5, <2>6
<1>4. CASE Doubt \/ Convert \/ Joined \/ CallNext \/ CloseByUser \/ Interrupt
  <2>1. /\ \/ stopEvent' = stopEvent /\ slots' = slots
           \/ stopEvent' = TRUE /\ slots' = Capacity
        /\ buffer' \in {buffer, {}}
        /\ UNCHANGED <<failing, tasks, results, producerVars, workerVars, nextSequence>>
    BY <1>4 DEF Doubt, Convert, Joined, CallNext, CloseByUser, Interrupt, Close, Deliver
  <2>2. /\ consumerPc' \in {"outside", "seeking", "doubting", "converting", "joining"}
        /\ verdict' \in {None, "batch", "exhausted", "error", "unusable",
                         "lost", "interrupted", "closed"}
        /\ status' \in {"open", "exhausted", "error", "unusable",
                        "lost", "interrupted", "closed"}
    BY <1>4 DEF Doubt, Convert, Joined, CallNext, CloseByUser, Interrupt, Close, Deliver,
                TypeOK, ConsumerOK
  <2>3. yielded \in 0 .. Batches /\ nextSequence \in 0 .. Batches
    BY DEF TypeOK
  <2>4. yielded' = yielded \/ yielded' = nextSequence
    BY <1>4, <2>3 DEF Doubt, Convert, Joined, CallNext, CloseByUser, Interrupt, Close,
                      Deliver, StreamOK
  <2>5. SlotsOK' /\ Numbers'
    BY <1>1, <2>1 DEF SlotsOK, Reserved, Numbers
  <2>6. TypeOK'
    BY <2>1, <2>2, <2>3, <2>4, <2>5 DEF TypeOK, Numbers
  <2>7. Submitted'
    BY <2>1 DEF Submitted
  <2>8. ConsumerOK'
    BY <1>4, <2>3 DEF Doubt, Convert, Joined, CallNext, CloseByUser, Interrupt, Close,
                      Deliver, ConsumerOK, StreamOK, None
  <2>9. StreamOK'
    BY <1>4, <2>3 DEF Doubt, Convert, Joined, CallNext, CloseByUser, Interrupt, Close,
                      Deliver, ConsumerOK, StreamOK, None
  <2>10. QED
    BY <1>1, <2>5, <2>6, <2>7, <2>8, <2>9
<1>5. QED
  BY <1>2, <1>3, <1>4 DEF ConsumerStep

THEOREM LoaderInvariant == Spec => []LoaderInv
<1>1. LoaderInv /\ UNCHANGED vars => LoaderInv'
  BY DEF LoaderInv, TypeOK, WorkersOK, Submitted, ProducerOK, SlotsOK, ConsumerOK, StreamOK,
         Reserved, vars, queueVars, producerVars, workerVars, consumerVars
<1>2. LoaderInv /\ [Next]_vars => LoaderInv'
  BY <1>1, ProducerKeeps, WorkerKeeps, ConsumerKeeps DEF Next
<1>3. QED
  BY <1>2, LoaderInit, PTL DEF Spec

(* Type correctness; among others, slots \in 0 .. Capacity: no release of  *)
(* the bounded semaphore is one too many.                                  *)
THEOREM TypeCorrect == Spec => []TypeOK
<1>1. LoaderInv => TypeOK
  BY DEF LoaderInv
<1>2. QED
  BY <1>1, LoaderInvariant, PTL

(* Never more than Capacity batches are on their way.                      *)
THEOREM Bounded == Spec => []SubmittedBounded
<1>1. LoaderInv => SubmittedBounded
  BY CapacityType DEF LoaderInv, TypeOK, SlotsOK, Reserved, SubmittedBounded
<1>2. QED
  BY <1>1, LoaderInvariant, PTL

(* The threads together are a stream of batches in order.                  *)
THEOREM Ordered == Spec => InOrder
<1>1. Init => Stream!StreamInit
  BY DEF Init, Stream!StreamInit
<1>2. LoaderInv /\ [Next]_vars =>
        [Stream!Yield \/ Stream!End]_<<failing, yielded, status>>
  <2> SUFFICES ASSUME LoaderInv, Next
               PROVE  [Stream!Yield \/ Stream!End]_<<failing, yielded, status>>
    BY DEF vars, consumerVars
  <2> USE DEF LoaderInv, consumerVars, Stream!Yield, Stream!End, Stream!Broken
  <2>1. CASE ProducerStep \/ \E w \in Workers : WorkerStep(w)
    BY <2>1 DEF ProducerStep, ProducerTop, Acquire, OfferTask, PutTask,
                WorkerStep, WorkerTop, TakeTask, OfferResult, PutResult
  <2>2. CASE GetResult \/ Doubt \/ PopNext
    BY <2>2 DEF GetResult, Doubt, PopNext, Close, ConsumerOK
  <2>3. CASE Convert
    BY <2>3 DEF Convert, Close, ConsumerOK, StreamOK, TypeOK
  <2>4. CASE Joined
    BY <2>4 DEF Joined, Deliver, ConsumerOK, StreamOK, TypeOK
  <2>5. CASE CallNext
    BY <2>5 DEF CallNext, Close, Deliver, StreamOK, TypeOK
  <2>6. CASE CloseByUser \/ Interrupt
    BY <2>6 DEF CloseByUser, Interrupt, Close, Deliver, ConsumerOK, StreamOK, TypeOK
  <2>7. QED
    BY <2>1, <2>2, <2>3, <2>4, <2>5, <2>6 DEF Next, ConsumerStep
<1>3. QED
  BY <1>1, <1>2, LoaderInvariant, PTL DEF Spec, InOrder, Stream!StreamSpec

-----------------------------------------------------------------------------
(* Where the batches are.                                                  *)

Positions(queue, b) == {i \in DOMAIN queue : queue[i] = b}

Holders(b) == {w \in Workers : held[w] = b}

Single(S) == \E x \in S : S = {x}

NoPlace(b) ==
  /\ Positions(tasks, b) = {} /\ Positions(results, b) = {}
  /\ Holders(b) = {} /\ b \notin buffer

OnePlace(b) ==
  \/ /\ Single(Positions(tasks, b)) /\ Positions(results, b) = {}
     /\ Holders(b) = {} /\ b \notin buffer
  \/ /\ Positions(tasks, b) = {} /\ Single(Positions(results, b))
     /\ Holders(b) = {} /\ b \notin buffer
  \/ /\ Positions(tasks, b) = {} /\ Positions(results, b) = {}
     /\ Single(Holders(b)) /\ b \notin buffer
  \/ /\ Positions(tasks, b) = {} /\ Positions(results, b) = {}
     /\ Holders(b) = {} /\ b \in buffer

(* A batch is nowhere or in one place, popped ones in none, and until the   *)
(* iterator is closed submitted ones somewhere.                            *)
PlaceOK(b) ==
  /\ NoPlace(b) \/ OnePlace(b)
  /\ nextSequence > b =>
       Positions(tasks, b) = {} /\ Positions(results, b) = {} /\ Holders(b) = {}
  /\ ~stopEvent /\ nextSequence > b => b \notin buffer
  /\ ~stopEvent /\ nextSequence <= b /\ b < sequence => ~NoPlace(b)

PlaceInv ==
  /\ \A b \in 0 .. Batches - 1 : PlaceOK(b)
  /\ \A w \in Workers : workerPc[w] \in {"top", "taking", "exited"} => held[w] = Nothing
  /\ consumerPc = "joining" => stopEvent
  /\ nextSequence <= sequence

(* What putting and taking do to the positions of a batch.                 *)
LEMMA PositionsAfterPut ==
  ASSUME NEW S, NEW queue \in Seq(S), NEW item \in S, NEW b
  PROVE  Positions(Append(queue, item), b) =
           IF item = b THEN Positions(queue, b) \cup {Len(queue) + 1} ELSE Positions(queue, b)
BY DEF Positions

LEMMA PositionsAfterTake ==
  ASSUME NEW S, NEW queue \in Seq(S), queue # <<>>, NEW b
  PROVE  /\ Positions(Tail(queue), b) = {i - 1 : i \in Positions(queue, b) \ {1}}
         /\ 1 \in Positions(queue, b) <=> Head(queue) = b
<1>1. /\ DOMAIN queue = 1 .. Len(queue) /\ Len(queue) \in Nat \ {0}
      /\ DOMAIN Tail(queue) = 1 .. Len(queue) - 1
      /\ \A i \in 1 .. Len(queue) - 1 : Tail(queue)[i] = queue[i + 1]
      /\ Head(queue) = queue[1]
  OBVIOUS
<1>2. ASSUME NEW j \in Positions(Tail(queue), b) PROVE j \in {i - 1 : i \in Positions(queue, b) \ {1}}
  <2>1. j + 1 \in Positions(queue, b) \ {1} /\ j = (j + 1) - 1
    BY <1>1 DEF Positions
  <2>2. QED
    BY <2>1
<1>3. ASSUME NEW i \in Positions(queue, b) \ {1} PROVE i - 1 \in Positions(Tail(queue), b)
  BY <1>1 DEF Positions
<1>4. 1 \in Positions(queue, b) <=> Head(queue) = b
  BY <1>1 DEF Positions
<1>5. QED
  BY <1>2, <1>3, <1>4

LEMMA SingleShifts ==
  ASSUME NEW P, Single(P)
  PROVE  Single({i - 1 : i \in P})
<1>1. PICK x \in P : P = {x}
  BY DEF Single
<1>2. {i - 1 : i \in P} = {x - 1}
  BY <1>1
<1>3. QED
  BY <1>2 DEF Single

(* A batch that is in the first position is in no other place.             *)
LEMMA TakenIsNowhereElse ==
  ASSUME NEW S, NEW queue \in Seq(S), queue # <<>>, NEW b, Single(Positions(queue, b)) \/ Positions(queue, b) = {}
  PROVE  /\ Head(queue) = b => Positions(Tail(queue), b) = {} /\ Positions(queue, b) # {}
         /\ Head(queue) # b => /\ Single(Positions(queue, b)) => Single(Positions(Tail(queue), b))
                               /\ Positions(queue, b) = {} => Positions(Tail(queue), b) = {}
<1> DEFINE P == Positions(queue, b)
           Q == Positions(Tail(queue), b)
<1>1. Q = {i - 1 : i \in P \ {1}} /\ (1 \in P <=> Head(queue) = b)
  BY PositionsAfterTake
<1> HIDE DEF P, Q
<1>2. CASE Head(queue) = b
  <2>1. P = {1}
    BY <1>1, <1>2 DEF Single, P
  <2>2. Q = {}
    BY <1>1, <2>1
  <2>3. QED
    BY <1>2, <2>1, <2>2 DEF P, Q
<1>3. CASE Head(queue) # b
  <2>1. P \ {1} = P
    BY <1>1, <1>3
  <2>2. Q = {i - 1 : i \in P}
    BY <1>1, <2>1
  <2>3. QED
    BY <1>3, <2>2, SingleShifts DEF P, Q
<1>4. QED
  BY <1>2, <1>3

LEMMA PlaceInit == Init => PlaceInv
<1> SUFFICES ASSUME Init PROVE PlaceInv
  OBVIOUS
<1>1. ASSUME NEW b \in 0 .. Batches - 1 PROVE PlaceOK(b)
  BY DEF Init, PlaceOK, NoPlace, Positions, Holders, Nothing
<1>2. QED
  BY <1>1 DEF Init, PlaceInv

(* A step that moves no batch, or closes the iterator and may clear the     *)
(* buffer.                                                                 *)
LEMMA PlacesStay ==
  ASSUME LoaderInv, PlaceInv, NEW b \in 0 .. Batches - 1,
         UNCHANGED <<tasks, results, held, nextSequence, sequence>>,
         stopEvent => stopEvent',
         buffer' = buffer \/ (buffer' = {} /\ stopEvent')
  PROVE  PlaceOK(b)'
<1>1. PlaceOK(b)
  BY DEF PlaceInv
<1>2. /\ Positions(tasks, b)' = Positions(tasks, b)
      /\ Positions(results, b)' = Positions(results, b)
      /\ Holders(b)' = Holders(b)
  BY DEF Positions, Holders
<1>3. CASE buffer' = buffer
  BY <1>1, <1>2, <1>3 DEF PlaceOK, NoPlace, OnePlace
<1>4. CASE buffer' = {} /\ stopEvent'
  BY <1>1, <1>2, <1>4 DEF PlaceOK, NoPlace, OnePlace
<1>5. QED
  BY <1>3, <1>4

LEMMA ProducerPlaces ==
  ASSUME LoaderInv, PlaceInv, ProducerStep
  PROVE  PlaceInv'
<1>1. /\ UNCHANGED <<stopEvent, results, held, workerPc, consumerPc, nextSequence, buffer>>
  BY DEF ProducerStep, ProducerTop, Acquire, OfferTask, PutTask, queueVars, workerVars, consumerVars
<1>2. ASSUME NEW b \in 0 .. Batches - 1 PROVE PlaceOK(b)'
  <2>1. CASE UNCHANGED <<tasks, sequence>>
    BY <1>1, <2>1, PlacesStay
  <2>2. CASE PutTask /\ Len(tasks) < Capacity
    <3> DEFINE item == IF sequence < Batches THEN sequence ELSE STOP
    <3>1. /\ tasks' = Append(tasks, item)
          /\ sequence' = IF sequence < Batches THEN sequence + 1 ELSE sequence
      BY <2>2 DEF PutTask
    <3>2. /\ tasks \in Seq((0 .. Batches - 1) \cup {STOP}) /\ item \in (0 .. Batches - 1) \cup {STOP}
          /\ sequence \in 0 .. Batches /\ nextSequence \in 0 .. Batches
      BY DEF LoaderInv, TypeOK
    <3>3. Positions(tasks, b)' =
            IF item = b THEN Positions(tasks, b) \cup {Len(tasks) + 1} ELSE Positions(tasks, b)
      <4>1. Positions(Append(tasks, item), b) =
              IF item = b THEN Positions(tasks, b) \cup {Len(tasks) + 1} ELSE Positions(tasks, b)
        <5> HIDE DEF item
        <5>1. QED
          BY <3>2, PositionsAfterPut
      <4>2. Positions(tasks, b)' = Positions(tasks', b)
        BY DEF Positions
      <4>3. QED
        BY <3>1, <4>1, <4>2
    <3>4. Positions(results, b)' = Positions(results, b) /\ Holders(b)' = Holders(b)
      BY <1>1 DEF Positions, Holders
    <3>5. PlaceOK(b)
      BY DEF PlaceInv
    <3>6. CASE item = b
      <4>1. b = sequence /\ sequence' = sequence + 1
        BY <3>1, <3>2, <3>6 DEF STOP
      <4>2. NoPlace(b) /\ nextSequence <= b
        <5>1. \A i \in DOMAIN tasks : tasks[i] # sequence
          BY <3>2 DEF LoaderInv, Submitted, STOP
        <5>2. \A i \in DOMAIN results : results[i] # sequence
          BY <3>2 DEF LoaderInv, Submitted, TypeOK
        <5>3. \A w \in Workers : held[w] # sequence
          BY <3>2 DEF LoaderInv, Submitted, TypeOK, Nothing
        <5>4. sequence \notin buffer
          BY <3>2 DEF LoaderInv, Submitted
        <5>5. nextSequence <= sequence
          BY DEF PlaceInv
        <5>6. QED
          BY <4>1, <5>1, <5>2, <5>3, <5>4, <5>5 DEF NoPlace, Positions, Holders
      <4>3. Positions(tasks, b)' = {Len(tasks) + 1}
        BY <3>3, <3>6, <4>2 DEF NoPlace
      <4>4. Single(Positions(tasks, b)')
        BY <4>3 DEF Single
      <4>5. OnePlace(b)' /\ ~NoPlace(b)'
        BY <1>1, <3>4, <4>2, <4>3, <4>4 DEF OnePlace, NoPlace
      <4>6. QED
        BY <1>1, <3>2, <4>1, <4>2, <4>5 DEF PlaceOK
    <3>7. CASE item # b
      <4>1. Positions(tasks, b)' = Positions(tasks, b)
        BY <3>3, <3>7
      <4>2. (NoPlace(b)' <=> NoPlace(b)) /\ (OnePlace(b)' <=> OnePlace(b))
        BY <1>1, <3>4, <4>1 DEF NoPlace, OnePlace
      <4>3. b < sequence' => b < sequence
        BY <3>1, <3>2, <3>7
      <4>4. QED
        BY <1>1, <3>4, <3>5, <4>1, <4>2, <4>3 DEF PlaceOK
    <3>8. QED
      BY <3>6, <3>7
  <2>3. QED
    BY <2>1, <2>2 DEF ProducerStep, ProducerTop, Acquire, OfferTask, PutTask, queueVars
<1>3. nextSequence' <= sequence'
  BY <1>1 DEF PlaceInv, LoaderInv, TypeOK, ProducerStep, ProducerTop, Acquire, OfferTask, PutTask
<1>4. QED
  BY <1>1, <1>2, <1>3 DEF PlaceInv

LEMMA WorkerPlaces ==
  ASSUME LoaderInv, PlaceInv, NEW w \in Workers, WorkerStep(w)
  PROVE  PlaceInv'
<1>1. /\ UNCHANGED <<stopEvent, sequence, consumerPc, nextSequence, buffer>>
      /\ held \in [Workers -> (0 .. Batches - 1) \cup {Nothing}]
      /\ workerPc \in [Workers -> {"top", "taking", "offering", "putting", "exited"}]
      /\ tasks \in Seq((0 .. Batches - 1) \cup {STOP})
      /\ results \in Seq(0 .. Batches - 1)
  BY DEF WorkerStep, WorkerTop, TakeTask, OfferResult, PutResult, producerVars, consumerVars,
         LoaderInv, TypeOK
<1>2. \A v \in Workers : workerPc'[v] \in {"top", "taking", "exited"} => held'[v] = Nothing
  BY <1>1 DEF WorkerStep, WorkerTop, TakeTask, OfferResult, PutResult, PlaceInv
<1>3. ASSUME NEW b \in 0 .. Batches - 1 PROVE PlaceOK(b)'
  <2>1. CASE UNCHANGED <<tasks, results, held>>
    BY <1>1, <2>1, PlacesStay
  <2>2. PlaceOK(b) /\ b # Nothing /\ b # STOP
    BY DEF PlaceInv, Nothing, STOP
  <2>3. CASE TakeTask(w) /\ tasks # <<>>
    <3>1. /\ workerPc[w] = "taking" /\ held[w] = Nothing
          /\ tasks' = Tail(tasks) /\ results' = results
          /\ held' = IF Head(tasks) = STOP THEN held ELSE [held EXCEPT ![w] = Head(tasks)]
      BY <2>3 DEF TakeTask, PlaceInv
    <3>2. /\ Positions(results, b)' = Positions(results, b)
          /\ Holders(b)' = IF Head(tasks) = b THEN Holders(b) \cup {w} ELSE Holders(b)
      BY <1>1, <2>2, <3>1 DEF Positions, Holders
    <3>3. Single(Positions(tasks, b)) \/ Positions(tasks, b) = {}
      BY <2>2 DEF PlaceOK, NoPlace, OnePlace
    <3>4. /\ Head(tasks) = b => Positions(tasks, b)' = {} /\ Positions(tasks, b) # {}
          /\ Head(tasks) # b => /\ Single(Positions(tasks, b)) => Single(Positions(tasks, b)')
                                /\ Positions(tasks, b) = {} => Positions(tasks, b)' = {}
      BY <1>1, <2>3, <3>1, <3>3, TakenIsNowhereElse
    <3>5. CASE Head(tasks) = b
      <4>1. /\ Positions(tasks, b)' = {} /\ Positions(results, b)' = {}
            /\ Holders(b)' = {w} /\ b \notin buffer
            /\ ~(nextSequence > b)
        BY <2>2, <3>2, <3>4, <3>5 DEF PlaceOK, NoPlace, OnePlace
      <4>2. Single(Holders(b)')
        BY <4>1 DEF Single
      <4>3. OnePlace(b)' /\ ~NoPlace(b)'
        BY <1>1, <4>1, <4>2 DEF OnePlace, NoPlace
      <4>4. QED
        BY <1>1, <4>1, <4>3 DEF PlaceOK
    <3>6. CASE Head(tasks) # b
      <4>1. /\ NoPlace(b) => NoPlace(b)'
            /\ OnePlace(b) => OnePlace(b)' /\ ~NoPlace(b)'
        BY <1>1, <3>2, <3>4, <3>6 DEF NoPlace, OnePlace, Single
      <4>2. Positions(tasks, b) = {} => Positions(tasks, b)' = {}
        BY <3>4, <3>6
      <4>3. QED
        BY <1>1, <2>2, <3>2, <3>6, <4>1, <4>2 DEF PlaceOK
    <3>7. QED
      BY <3>5, <3>6
  <2>4. CASE OfferResult(w) /\ stopEvent
    <3>1. /\ tasks' = tasks /\ results' = results /\ held' = [held EXCEPT ![w] = Nothing]
      BY <2>4 DEF OfferResult, queueVars
    <3>2. /\ Positions(tasks, b)' = Positions(tasks, b)
          /\ Positions(results, b)' = Positions(results, b)
          /\ Holders(b)' = Holders(b) \ {w}
      BY <1>1, <2>2, <3>1 DEF Positions, Holders
    <3>3. Single(Holders(b)) => Single(Holders(b)') \/ Holders(b)' = {}
      BY <3>2 DEF Single
    <3>4. Holders(b) = {} => Holders(b)' = {}
      BY <3>2
    <3>5. NoPlace(b)' \/ OnePlace(b)'
      BY <1>1, <2>2, <3>2, <3>3, <3>4 DEF PlaceOK, NoPlace, OnePlace
    <3>6. QED
      BY <1>1, <2>2, <2>4, <3>2, <3>4, <3>5 DEF PlaceOK
  <2>5. CASE PutResult(w) /\ Len(results) < Capacity
    <3>1. /\ workerPc[w] = "putting" /\ held[w] \in 0 .. Batches - 1
          /\ results' = Append(results, held[w]) /\ tasks' = tasks
          /\ held' = [held EXCEPT ![w] = Nothing]
      BY <1>1, <2>5 DEF PutResult, LoaderInv, WorkersOK
    <3>2. Positions(results, b)' =
            IF held[w] = b THEN Positions(results, b) \cup {Len(results) + 1}
                           ELSE Positions(results, b)
      <4>1. Positions(Append(results, held[w]), b) =
              IF held[w] = b THEN Positions(results, b) \cup {Len(results) + 1}
                             ELSE Positions(results, b)
        <5> DEFINE item == held[w]
        <5>1. item \in 0 .. Batches - 1
          BY <3>1
        <5> HIDE DEF item
        <5>2. Positions(Append(results, item), b) =
                IF item = b THEN Positions(results, b) \cup {Len(results) + 1}
                            ELSE Positions(results, b)
          BY <1>1, <5>1, PositionsAfterPut, SMTT(30)
        <5>3. QED
          BY <5>2 DEF item
      <4>2. Positions(results, b)' = Positions(results', b)
        BY DEF Positions
      <4>3. QED
        BY <3>1, <4>1, <4>2
    <3>3. /\ Positions(tasks, b)' = Positions(tasks, b)
          /\ Holders(b)' = Holders(b) \ {w}
          /\ held[w] = b <=> w \in Holders(b)
      BY <1>1, <2>2, <3>1 DEF Positions, Holders
    <3>4. CASE held[w] = b
      <4>1. Holders(b) # {}
        BY <3>3, <3>4
      <4>2. /\ Positions(tasks, b) = {} /\ Positions(results, b) = {}
            /\ Single(Holders(b)) /\ b \notin buffer /\ ~(nextSequence > b)
        BY <2>2, <4>1 DEF PlaceOK, NoPlace, OnePlace
      <4>3. /\ Holders(b)' = {} /\ Positions(results, b)' = {Len(results) + 1}
            /\ Positions(tasks, b)' = {}
        BY <3>2, <3>3, <3>4, <4>2 DEF Single
      <4>4. Single(Positions(results, b)')
        BY <4>3 DEF Single
      <4>5. OnePlace(b)' /\ ~NoPlace(b)'
        BY <1>1, <4>2, <4>3, <4>4 DEF OnePlace, NoPlace
      <4>6. QED
        BY <1>1, <4>2, <4>5 DEF PlaceOK
    <3>5. CASE held[w] # b
      <4>1. Positions(results, b)' = Positions(results, b) /\ Holders(b)' = Holders(b)
        BY <3>2, <3>3, <3>5
      <4>2. (NoPlace(b)' <=> NoPlace(b)) /\ (OnePlace(b)' <=> OnePlace(b))
        BY <1>1, <3>3, <4>1 DEF NoPlace, OnePlace
      <4>3. QED
        BY <1>1, <2>2, <3>3, <4>1, <4>2 DEF PlaceOK
    <3>6. QED
      BY <3>4, <3>5
  <2>6. UNCHANGED <<tasks, results, held>> \/ (TakeTask(w) /\ tasks # <<>>)
          \/ (OfferResult(w) /\ stopEvent) \/ (PutResult(w) /\ Len(results) < Capacity)
    BY <1>1 DEF WorkerStep, WorkerTop, TakeTask, OfferResult, PutResult, queueVars
  <2>7. QED
    BY <2>1, <2>3, <2>4, <2>5, <2>6
<1>4. QED
  BY <1>1, <1>2, <1>3 DEF PlaceInv

LEMMA ConsumerPlaces ==
  ASSUME LoaderInv, PlaceInv, ConsumerStep \/ CallNext \/ CloseByUser \/ Interrupt
  PROVE  PlaceInv'
<1>1. /\ UNCHANGED <<tasks, held, workerPc, sequence>>
      /\ nextSequence \in 0 .. Batches /\ sequence \in 0 .. Batches
      /\ results \in Seq(0 .. Batches - 1)
  BY DEF ConsumerStep, GetResult, Doubt, PopNext, Convert, Joined, CallNext, CloseByUser,
         Interrupt, queueVars, producerVars, workerVars, LoaderInv, TypeOK
<1>2. stopEvent => stopEvent'
  BY DEF ConsumerStep, GetResult, Doubt, PopNext, Convert, Joined, CallNext, CloseByUser,
         Interrupt, Close
<1>3. consumerPc' = "joining" => stopEvent'
  BY DEF ConsumerStep, GetResult, Doubt, PopNext, Convert, Joined, CallNext, CloseByUser,
         Interrupt, Close, Deliver, PlaceInv
<1>4. nextSequence' <= sequence'
  <2>1. CASE UNCHANGED nextSequence
    BY <1>1, <2>1 DEF PlaceInv
  <2>2. CASE PopNext
    BY <1>1, <2>2 DEF PopNext, LoaderInv, Submitted
  <2>3. QED
    BY <2>1, <2>2 DEF ConsumerStep, GetResult, Doubt, Convert, Joined, CallNext, CloseByUser,
                      Interrupt
<1>5. ASSUME NEW b \in 0 .. Batches - 1 PROVE PlaceOK(b)'
  <2>1. PlaceOK(b) /\ b \in Int
    BY DEF PlaceInv
  <2>2. /\ Positions(tasks, b)' = Positions(tasks, b)
        /\ Holders(b)' = Holders(b)
    BY <1>1 DEF Positions, Holders
  <2>3. CASE GetResult /\ results # <<>>
    <3>1. /\ results' = Tail(results) /\ buffer' = buffer \cup {Head(results)}
          /\ UNCHANGED <<stopEvent, nextSequence>>
      BY <2>3 DEF GetResult
    <3>2. Single(Positions(results, b)) \/ Positions(results, b) = {}
      BY <2>1 DEF PlaceOK, NoPlace, OnePlace
    <3>3. /\ Head(results) = b => Positions(results, b)' = {} /\ Positions(results, b) # {}
          /\ Head(results) # b => /\ Single(Positions(results, b)) => Single(Positions(results, b)')
                                  /\ Positions(results, b) = {} => Positions(results, b)' = {}
      BY <1>1, <2>3, <3>1, <3>2, TakenIsNowhereElse
    <3>4. CASE Head(results) = b
      <4>1. /\ Positions(tasks, b) = {} /\ Positions(results, b)' = {} /\ Holders(b) = {}
            /\ b \in buffer' /\ ~(nextSequence > b)
        BY <2>1, <3>1, <3>3, <3>4 DEF PlaceOK, NoPlace, OnePlace
      <4>2. OnePlace(b)' /\ ~NoPlace(b)'
        BY <2>2, <4>1 DEF OnePlace, NoPlace
      <4>3. QED
        BY <3>1, <4>1, <4>2 DEF PlaceOK
    <3>5. CASE Head(results) # b
      <4>1. b \in buffer' <=> b \in buffer
        BY <3>1, <3>5
      <4>2. /\ NoPlace(b) => NoPlace(b)'
            /\ OnePlace(b) => OnePlace(b)' /\ ~NoPlace(b)'
        BY <2>2, <3>3, <3>5, <4>1 DEF NoPlace, OnePlace, Single
      <4>3. QED
        BY <1>1, <2>1, <2>2, <3>1, <3>3, <3>5, <4>1, <4>2 DEF PlaceOK
    <3>6. QED
      BY <3>4, <3>5
  <2>4. CASE PopNext
    <3>1. /\ results' = results /\ nextSequence' = nextSequence + 1 /\ nextSequence \in buffer
          /\ \/ stopEvent' /\ buffer' \in {buffer, {}}
             \/ stopEvent' = stopEvent /\ buffer' = buffer \ {nextSequence}
      BY <2>4 DEF PopNext, Close, Deliver
    <3>2. Positions(results, b)' = Positions(results, b)
      BY <3>1 DEF Positions
    <3>3. CASE b = nextSequence
      <4>1. Positions(tasks, b) = {} /\ Positions(results, b) = {} /\ Holders(b) = {}
        BY <2>1, <3>1, <3>3 DEF PlaceOK, NoPlace, OnePlace
      <4>2. NoPlace(b)' \/ OnePlace(b)'
        BY <2>2, <3>2, <4>1 DEF NoPlace, OnePlace
      <4>3. ~stopEvent' => b \notin buffer'
        BY <3>1, <3>3
      <4>4. QED
        BY <1>1, <2>1, <2>2, <3>1, <3>2, <3>3, <4>1, <4>2, <4>3 DEF PlaceOK
    <3>4. CASE b # nextSequence
      <4>1. b \in buffer' => b \in buffer
        BY <3>1
      <4>2. ~stopEvent' => ~stopEvent /\ (b \in buffer' <=> b \in buffer)
        BY <1>2, <3>1, <3>4
      <4>3. NoPlace(b)' \/ OnePlace(b)'
        BY <2>1, <2>2, <3>2, <4>1 DEF PlaceOK, NoPlace, OnePlace
      <4>4. ~stopEvent' => (NoPlace(b)' <=> NoPlace(b))
        BY <2>2, <3>2, <4>2 DEF NoPlace
      <4>5. nextSequence' > b => nextSequence > b
        BY <1>1, <2>1, <3>1, <3>4
      <4>6. nextSequence' <= b => nextSequence <= b
        BY <1>1, <2>1, <3>1
      <4>7. QED
        BY <1>1, <2>1, <2>2, <3>2, <4>2, <4>3, <4>4, <4>5, <4>6 DEF PlaceOK
    <3>5. QED
      BY <3>3, <3>4
  <2>5. CASE /\ UNCHANGED <<results, nextSequence>>
             /\ buffer' = buffer \/ (buffer' = {} /\ stopEvent')
    BY <1>1, <1>2, <2>5, PlacesStay
  <2>6. ASSUME ~GetResult, ~PopNext
        PROVE  /\ UNCHANGED <<results, nextSequence>>
               /\ buffer' = buffer \/ (buffer' = {} /\ stopEvent')
    <3>1. UNCHANGED <<results, nextSequence>>
      BY <2>6 DEF ConsumerStep, Doubt, Convert, Joined, CallNext, CloseByUser, Interrupt, queueVars
    <3>2. buffer' = buffer \/ (buffer' = {} /\ stopEvent')
      BY <2>6 DEF ConsumerStep, Doubt, Convert, Joined, CallNext, CloseByUser, Interrupt,
                  Close, Deliver, PlaceInv
    <3>3. QED
      BY <3>1, <3>2
  <2>7. CASE GetResult /\ results = <<>>
    BY <2>5, <2>7 DEF GetResult
  <2>8. QED
    BY <2>3, <2>4, <2>5, <2>6, <2>7
<1>6. QED
  BY <1>1, <1>3, <1>4, <1>5 DEF PlaceInv

LEMMA PlaceInvariant == Spec => []PlaceInv
<1>1. LoaderInv /\ PlaceInv /\ UNCHANGED vars => PlaceInv'
  <2> SUFFICES ASSUME LoaderInv, PlaceInv, UNCHANGED vars PROVE PlaceInv'
    OBVIOUS
  <2>1. UNCHANGED <<tasks, results, held, workerPc, consumerPc, sequence, nextSequence,
                    stopEvent, buffer>>
    BY DEF vars, queueVars, producerVars, workerVars, consumerVars
  <2>2. ASSUME NEW b \in 0 .. Batches - 1 PROVE PlaceOK(b)'
    BY <2>1, PlacesStay
  <2>3. QED
    BY <2>1, <2>2 DEF PlaceInv
<1>2. LoaderInv /\ PlaceInv /\ [Next]_vars => PlaceInv'
  BY <1>1, ProducerPlaces, WorkerPlaces, ConsumerPlaces DEF Next
<1>3. QED
  BY <1>2, PlaceInit, LoaderInvariant, PTL DEF Spec

(* Until the iterator is closed every batch that was submitted and not yet  *)
(* popped is in exactly one place, and no other batch is anywhere: none is *)
(* lost and none is fetched twice, however the threads interleave.         *)
THEOREM NoneLost == Spec => []NothingLost
<1>1. LoaderInv /\ PlaceInv => NothingLost
  <2> SUFFICES ASSUME LoaderInv, PlaceInv, ~stopEvent, NEW b \in 0 .. Batches - 1
               PROVE  Cardinality(Places(b)) = IF b >= nextSequence /\ b < sequence THEN 1 ELSE 0
    BY DEF NothingLost
  <2>1. PlaceOK(b) /\ b \in Int /\ nextSequence \in Int /\ sequence \in Int
    BY DEF PlaceInv, LoaderInv, TypeOK
  <2>2. Places(b) = ({"tasks"} \X Positions(tasks, b)) \cup ({"results"} \X Positions(results, b))
                      \cup ({"held"} \X Holders(b)) \cup ({"buffer"} \X (buffer \cap {b}))
    BY DEF Places, Positions, Holders
  <2>3. CASE b >= nextSequence /\ b < sequence
    <3>1. OnePlace(b)
      BY <2>1, <2>3 DEF PlaceOK
    <3>2. \E p : Places(b) = {p}
      <4>1. ASSUME NEW kind, NEW S, Single(S) PROVE \E p : {kind} \X S = {p}
        <5>1. PICK x \in S : S = {x}
          BY <4>1 DEF Single
        <5>2. {kind} \X S = {<<kind, x>>}
          BY <5>1
        <5>3. QED
          BY <5>2
      <4>2. b \in buffer => Single(buffer \cap {b})
        BY DEF Single
      <4>3. b \notin buffer => buffer \cap {b} = {}
        OBVIOUS
      <4>4. \A kind : {kind} \X {} = {}
        OBVIOUS
      <4>5. \/ Places(b) = {"tasks"} \X Positions(tasks, b) /\ Single(Positions(tasks, b))
            \/ Places(b) = {"results"} \X Positions(results, b) /\ Single(Positions(results, b))
            \/ Places(b) = {"held"} \X Holders(b) /\ Single(Holders(b))
            \/ Places(b) = {"buffer"} \X (buffer \cap {b}) /\ Single(buffer \cap {b})
        <5>1. CASE b \in buffer
          <6>1. Positions(tasks, b) = {} /\ Positions(results, b) = {} /\ Holders(b) = {}
            BY <3>1, <5>1 DEF OnePlace
          <6>2. QED
            BY <2>2, <4>2, <4>4, <5>1, <6>1
        <5>2. CASE b \notin buffer
          <6> DEFINE t == Positions(tasks, b)
                     r == Positions(results, b)
                     h == Holders(b)
          <6>1. \/ Single(t) /\ r = {} /\ h = {}
                \/ t = {} /\ Single(r) /\ h = {}
                \/ t = {} /\ r = {} /\ Single(h)
            BY <3>1, <5>2 DEF OnePlace
          <6>2. Places(b) = ({"tasks"} \X t) \cup ({"results"} \X r) \cup ({"held"} \X h)
            BY <2>2, <4>3, <4>4, <5>2
          <6> HIDE DEF t, r, h
          <6>3. \/ Places(b) = {"tasks"} \X t /\ Single(t)
                \/ Places(b) = {"results"} \X r /\ Single(r)
                \/ Places(b) = {"held"} \X h /\ Single(h)
            BY <4>4, <6>1, <6>2
          <6>4. QED
            BY <6>3 DEF t, r, h
        <5>3. QED
          BY <5>1, <5>2
      <4>6. ASSUME NEW kind, NEW S, Places(b) = {kind} \X S, Single(S)
            PROVE  \E p : Places(b) = {p}
        BY <4>1, <4>6, ZenonT(30)
      <4>7. CASE Places(b) = {"tasks"} \X Positions(tasks, b) /\ Single(Positions(tasks, b))
        BY <4>6, <4>7
      <4>8. CASE Places(b) = {"results"} \X Positions(results, b) /\ Single(Positions(results, b))
        BY <4>6, <4>8
      <4>9. CASE Places(b) = {"held"} \X Holders(b) /\ Single(Holders(b))
        BY <4>6, <4>9
      <4>10. CASE Places(b) = {"buffer"} \X (buffer \cap {b}) /\ Single(buffer \cap {b})
        BY <4>6, <4>10
      <4>11. QED
        BY <4>5, <4>7, <4>8, <4>9, <4>10
    <3>3. PICK p : Places(b) = {p}
      BY <3>2
    <3>4. Cardinality({p}) = 1
      BY FS_Singleton
    <3>5. QED
      BY <2>3, <3>3, <3>4
  <2>4. CASE ~(b >= nextSequence /\ b < sequence)
    <3>1. NoPlace(b)
      <4>1. CASE b < nextSequence
        BY <2>1, <4>1 DEF PlaceOK, NoPlace
      <4>2. CASE ~(b < sequence)
        BY <4>2 DEF LoaderInv, Submitted, NoPlace, Positions, Holders
      <4>3. QED
        BY <2>1, <2>4, <4>1, <4>2
    <3>2. Places(b) = {}
      BY <2>2, <3>1 DEF NoPlace
    <3>3. QED
      BY <2>4, <3>2, FS_EmptySet
  <2>5. QED
    BY <2>3, <2>4
<1>2. QED
  BY <1>1, LoaderInvariant, PlaceInvariant, PTL

(* "Out-of-order completion cannot create an unbounded reorder buffer": no  *)
(* more than Capacity batches are on their way; the consumer buffers fewer  *)
(* while it waits for one; a worker never finds the result queue full.      *)
THEOREM PrefetchStaysBounded == Spec => []PrefetchBounded
<1>1. LoaderInv /\ PlaceInv => PrefetchBounded
  <2> SUFFICES ASSUME LoaderInv, PlaceInv PROVE PrefetchBounded
    OBVIOUS
  <2> DEFINE submitted == nextSequence .. sequence - 1
             onWay == sequence - nextSequence
  <2>1. /\ nextSequence \in 0 .. Batches /\ sequence \in 0 .. Batches /\ Capacity \in Nat \ {0}
        /\ onWay \in Nat /\ onWay <= Capacity
    BY CapacityType DEF LoaderInv, TypeOK, SlotsOK, Reserved, PlaceInv
  <2>2. IsFiniteSet(submitted) /\ Cardinality(submitted) = onWay
    <3>1. nextSequence \in Int /\ sequence - 1 \in Int
      BY <2>1
    <3>2. /\ IsFiniteSet(submitted)
          /\ Cardinality(submitted) =
               IF nextSequence > sequence - 1 THEN 0 ELSE (sequence - 1) - nextSequence + 1
      BY <3>1, FS_Interval
    <3>3. QED
      BY <2>1, <3>2
  <2>3. ASSUME NEW b \in submitted, NEW S \in SUBSET (submitted \ {b})
        PROVE  IsFiniteSet(S) /\ Cardinality(S) \in Nat /\ Cardinality(S) < Capacity
    <3> DEFINE rest == submitted \ {b}
    <3> HIDE DEF submitted, onWay
    <3>1. IsFiniteSet(rest) /\ Cardinality(rest) = onWay - 1
      BY <2>2, FS_RemoveElement
    <3>2. IsFiniteSet(S) /\ Cardinality(S) <= onWay - 1
      <4>1. S \in SUBSET rest
        OBVIOUS
      <4> HIDE DEF rest
      <4>2. QED
        BY <3>1, <4>1, FS_Subset
    <3>3. Cardinality(S) \in Nat
      BY <3>2, FS_CardinalityType
    <3>4. QED
      BY <2>1, <3>2, <3>3
  <2>4. ASSUME ~stopEvent, nextSequence \notin buffer PROVE Cardinality(buffer) < Capacity
    <3>1. \A b \in buffer : b \in submitted \ {nextSequence}
      <4>1. TAKE b \in buffer
      <4>2. b \in 0 .. Batches - 1 /\ b < sequence
        BY DEF LoaderInv, TypeOK, Submitted
      <4>3. ~(nextSequence > b)
        BY <2>4, <4>2 DEF PlaceInv, PlaceOK
      <4>4. QED
        BY <2>1, <2>4, <4>2, <4>3
    <3>2. CASE nextSequence \in submitted
      BY <2>3, <3>1, <3>2
    <3>3. CASE nextSequence \notin submitted
      <4>1. submitted = {}
        BY <2>1, <3>3
      <4>2. buffer = {}
        BY <3>1, <4>1
      <4>3. QED
        BY <2>1, <4>2, FS_EmptySet
    <3>4. QED
      BY <3>2, <3>3
  <2>5. ASSUME NEW w \in Workers, workerPc[w] = "putting" PROVE Len(results) < Capacity
    <3> DEFINE n == Len(results)
               others == submitted \ {held[w]}
    <3>1. /\ results \in Seq(0 .. Batches - 1) /\ n \in Nat /\ DOMAIN results = 1 .. n
          /\ held[w] \in 0 .. Batches - 1
      BY <2>5 DEF LoaderInv, TypeOK, WorkersOK
    <3>2. Holders(held[w]) # {}
      BY DEF Holders
    <3>3. held[w] \in submitted
      <4>1. ~(nextSequence > held[w])
        BY <3>1, <3>2 DEF PlaceInv, PlaceOK
      <4>2. held[w] < sequence
        BY DEF LoaderInv, Submitted
      <4>3. QED
        BY <2>1, <3>1, <4>1, <4>2
    <3>4. ASSUME NEW i \in 1 .. n
          PROVE  results[i] \in others /\ Positions(results, results[i]) = {i}
      <4>1. results[i] \in 0 .. Batches - 1 /\ i \in Positions(results, results[i])
            /\ results[i] < sequence
        BY <3>1 DEF Positions, LoaderInv, Submitted
      <4>2. PlaceOK(results[i])
        BY <4>1 DEF PlaceInv
      <4>3. Single(Positions(results, results[i])) /\ Holders(results[i]) = {}
            /\ ~(nextSequence > results[i])
        BY <4>1, <4>2 DEF PlaceOK, NoPlace, OnePlace
      <4>4. results[i] # held[w]
        BY <3>2, <4>3
      <4>5. results[i] \in others
        BY <2>1, <4>1, <4>3, <4>4
      <4>6. Positions(results, results[i]) = {i}
        BY <4>1, <4>3 DEF Single
      <4>7. QED
        BY <4>5, <4>6
    <3>5. IsFiniteSet(others) /\ Cardinality(others) \in Nat /\ Cardinality(others) < Capacity
      <4>1. others \in SUBSET (submitted \ {held[w]})
        OBVIOUS
      <4>2. QED
        BY <2>3, <3>3, <4>1
    <3>6. n <= Cardinality(others)
      <4> DEFINE f == [i \in 1 .. n |-> results[i]]
      <4>1. \A i, j \in 1 .. n : results[i] = results[j] => i = j
        BY <3>4
      <4> HIDE DEF others
      <4>2. f \in Injection(1 .. n, others)
        <5>1. f \in [1 .. n -> others]
          BY <3>4
        <5>2. \A i, j \in 1 .. n : f[i] = f[j] => i = j
          BY <4>1
        <5> HIDE DEF f
        <5>3. QED
          BY <5>1, <5>2 DEF Injection, IsInjective
      <4> HIDE DEF f
      <4>3. Cardinality(1 .. n) <= Cardinality(others)
        BY <3>5, <4>2, FS_Injection
      <4>4. Cardinality(1 .. n) = n
        <5> HIDE DEF n
        <5>1. 1 \in Int /\ n \in Int
          BY <3>1
        <5>2. Cardinality(1 .. n) = IF 1 > n THEN 0 ELSE n - 1 + 1
          BY <5>1, FS_Interval
        <5>3. QED
          BY <3>1, <5>2
      <4>5. QED
        BY <4>3, <4>4
    <3>7. QED
      BY <2>1, <3>1, <3>5, <3>6
  <2>6. QED
    BY <2>1, <2>4, <2>5 DEF PrefetchBounded, SubmittedBounded
<1>2. QED
  BY <1>1, LoaderInvariant, PlaceInvariant, PTL
=============================================================================
