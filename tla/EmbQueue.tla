------------------------------- MODULE EmbQueue ------------------------------
(***************************************************************************)
(* The ring buffer of life-support/queues.c: EmbQueuePut/PutWord/PutByte   *)
(* run by one thread (the putter) and EmbQueueTake/TakeWord/TakeByte run   *)
(* by another (the taker), without a lock, at the granularity of their     *)
(* loads and stores of the shared words.  The taker is a handler: it takes *)
(* while EmbQueueFilled is not zero, then waits for the queue's signal.    *)
(*                                                                         *)
(* queues.c has neither barriers nor atomics, so the order in which the    *)
(* two threads see each other's index stores is the machine's.  `memory'   *)
(* is "SC" when every store is visible at once and "TSO" when, as on       *)
(* x86-64, a thread's stores wait in a FIFO store buffer while its later   *)
(* loads proceed.  An element store is not buffered in the model: FIFO     *)
(* order makes it visible before the index store that publishes it, and    *)
(* NoDataRace says nobody reads the slot earlier.                          *)
(***************************************************************************)
EXTENDS Naturals, Sequences

CONSTANTS QueueSize,    \* queue_size: slots of the ring
          Elements,     \* what a slot can hold
          Zero,         \* what CreateQueue's fresh memory holds
          MemoryModels  \* the memory models to run under

ASSUME QueueAssumption ==
    /\ QueueSize \in Nat \ {0}
    /\ Zero \in Elements
    /\ MemoryModels \subseteq {"SC", "TSO"}

VARIABLES
  memory,         \* the machine's memory model, fixed
  put_index,      \* EmbQueue.put_index, as the taker sees it
  take_index,     \* EmbQueue.take_index, as the putter sees it
  element_array,  \* EmbQueue.first_element[]
  putStores,      \* put_index stores waiting in the putter's store buffer
  takeStores,     \* take_index stores waiting in the taker's store buffer
  putPC, original_put, elt,   \* the putter: place in EmbQueuePut, its locals
  takePC, taken,              \* the taker: place in EmbQueueTake, element obtained
  signalled       \* the queue's signal is pending at the taker

queueVars == <<put_index, take_index, element_array, putStores, takeStores>>
putVars   == <<putPC, original_put, elt>>
takeVars  == <<takePC, taken>>
vars == <<memory, queueVars, putVars, takeVars, signalled>>

Slots == 0 .. QueueSize - 1

(* Mutant: the wrap-around comes one index late. *)
IncLate(i) == IF i + 1 > QueueSize THEN 0 ELSE i + 1

(* The index after i, as every routine increments it. *)
Inc(i) == IF i + 1 >= QueueSize THEN 0 ELSE i + 1

(* The slot k places after slot i of the ring, k <= QueueSize. *)
Slot(i, k) == IF i + k >= QueueSize THEN i + k - QueueSize ELSE i + k

EmbQueueSpace(p, t) == IF t > p THEN t - p - 1 ELSE t - p - 1 + QueueSize

EmbQueueFilled(p, t) == IF p >= t THEN p - t ELSE p - t + QueueSize

(* A thread reads its own buffered stores: the putter is putStores ahead   *)
(* of memory, the taker takeStores ahead.                                  *)
OwnPut  == Slot(put_index, putStores)
OwnTake == Slot(take_index, takeStores)

Filled == EmbQueueFilled(put_index, take_index)

Init ==
    /\ memory \in MemoryModels
    /\ put_index = 0 /\ take_index = 0
    /\ element_array = [i \in Slots |-> Zero]
    /\ putStores = 0 /\ takeStores = 0
    /\ putPC = "idle" /\ original_put = 0 /\ elt = Zero
    /\ takePC = "idle" /\ taken = Zero
    /\ signalled = FALSE

-----------------------------------------------------------------------------
(* The putter *)

(* Enter EmbQueuePut with element e: put and original_put are loaded and   *)
(* the copy into the slot at put begins.                                   *)
BeginPut(e) ==
    /\ putPC = "idle"
    /\ putPC' = "writing"
    /\ original_put' = OwnPut
    /\ elt' = e
    /\ UNCHANGED <<memory, queueVars, takeVars, signalled>>

(* Mutant: the index is incremented before the element is stored. *)
WriteElementAfterIncrement ==
    /\ putPC = "writing"
    /\ element_array' = [element_array EXCEPT ![Inc(original_put)] = elt]
    /\ putPC' = "spinning"
    /\ UNCHANGED <<memory, put_index, take_index, putStores, takeStores,
                   original_put, elt, takeVars, signalled>>

(* The element is in its slot. *)
WriteElement ==
    /\ putPC = "writing"
    /\ element_array' = [element_array EXCEPT ![original_put] = elt]
    /\ putPC' = "spinning"
    /\ UNCHANGED <<memory, put_index, take_index, putStores, takeStores,
                   original_put, elt, takeVars, signalled>>

(* Mutant: no wait for a full queue. *)
EndSpinNoWait ==
    /\ putPC = "spinning"
    /\ putPC' = "room"
    /\ UNCHANGED <<memory, queueVars, original_put, elt, takeVars, signalled>>

(* "Wait if queue is full": the load of take_index that ends the loop. *)
EndSpin ==
    /\ putPC = "spinning"
    /\ Inc(original_put) # take_index
    /\ putPC' = "room"
    /\ UNCHANGED <<memory, queueVars, original_put, elt, takeVars, signalled>>

(* Store the incremented index, into memory or into the store buffer. *)
StorePut ==
    /\ putPC = "room"
    /\ \/ /\ memory = "SC"
          /\ put_index' = Inc(original_put)
          /\ UNCHANGED putStores
       \/ /\ memory = "TSO"
          /\ putStores' = putStores + 1
          /\ UNCHANGED put_index
    /\ putPC' = "stored"
    /\ UNCHANGED <<memory, take_index, element_array, takeStores, original_put,
                   elt, takeVars, signalled>>

(* Mutant: the incremented index is compared instead of original_put. *)
TestEmptyIncremented ==
    /\ putPC = "stored"
    /\ putPC' = IF OwnPut = take_index THEN "signal" ELSE "idle"
    /\ UNCHANGED <<memory, queueVars, original_put, elt, takeVars, signalled>>

(* Load take_index to see whether the queue had been empty. *)
TestEmpty ==
    /\ putPC = "stored"
    /\ putPC' = IF original_put = take_index THEN "signal" ELSE "idle"
    /\ UNCHANGED <<memory, queueVars, original_put, elt, takeVars, signalled>>

(* EmbSendSignal: taking wakeupLock drains the putter's store buffer. *)
SendSignal ==
    /\ putPC = "signal"
    /\ putStores = 0
    /\ signalled' = TRUE
    /\ putPC' = "idle"
    /\ UNCHANGED <<memory, queueVars, original_put, elt, takeVars>>

-----------------------------------------------------------------------------
(* The taker *)

(* Load both indices: an empty queue ends the handler (EmbQueueFilled is   *)
(* zero, EmbQueueTake returns FALSE); otherwise the copy out begins.       *)
BeginTake ==
    /\ takePC = "idle"
    /\ takePC' = IF put_index = OwnTake THEN "waiting" ELSE "copying"
    /\ UNCHANGED <<memory, queueVars, putVars, taken, signalled>>

(* Copy the element at the take index. *)
CopyElement ==
    /\ takePC = "copying"
    /\ taken' = element_array[OwnTake]
    /\ takePC' = "copied"
    /\ UNCHANGED <<memory, queueVars, putVars, signalled>>

(* Increment the take index and store it back. *)
StoreTake ==
    /\ takePC = "copied"
    /\ \/ /\ memory = "SC"
          /\ take_index' = Inc(OwnTake)
          /\ UNCHANGED takeStores
       \/ /\ memory = "TSO"
          /\ takeStores' = takeStores + 1
          /\ UNCHANGED take_index
    /\ takePC' = "idle"
    /\ UNCHANGED <<memory, put_index, element_array, putStores, putVars, taken,
                   signalled>>

(* The handler is called again: the lock its thread takes around the wait  *)
(* has drained the store buffer.                                           *)
Wake ==
    /\ takePC = "waiting"
    /\ takeStores = 0
    /\ signalled
    /\ signalled' = FALSE
    /\ takePC' = "idle"
    /\ UNCHANGED <<memory, queueVars, putVars, taken>>

-----------------------------------------------------------------------------
(* The machine *)

(* The oldest buffered index store of a thread reaches memory. *)
DrainPut ==
    /\ putStores > 0
    /\ putStores' = putStores - 1
    /\ put_index' = Inc(put_index)
    /\ UNCHANGED <<memory, take_index, element_array, takeStores, putVars,
                   takeVars, signalled>>

DrainTake ==
    /\ takeStores > 0
    /\ takeStores' = takeStores - 1
    /\ take_index' = Inc(take_index)
    /\ UNCHANGED <<memory, put_index, element_array, putStores, putVars,
                   takeVars, signalled>>

PutStep  == WriteElement \/ EndSpin \/ StorePut \/ TestEmpty \/ SendSignal
TakeStep == BeginTake \/ CopyElement \/ StoreTake \/ Wake

Next ==
    \/ \E e \in Elements : BeginPut(e)
    \/ PutStep
    \/ TakeStep
    \/ DrainPut
    \/ DrainTake

Spec == Init /\ [][Next]_vars

(* Threads that have work run, and store buffers drain; nobody is obliged  *)
(* to put.                                                                 *)
Fairness ==
    /\ WF_vars(PutStep)
    /\ WF_vars(TakeStep)
    /\ WF_vars(DrainPut)
    /\ WF_vars(DrainTake)

FairSpec == Spec /\ Fairness

-----------------------------------------------------------------------------
(* Properties *)

(* Every variable has its type.  TSO buffers fewer stores than slots.      *)
TypeOK ==
    /\ memory \in MemoryModels
    /\ put_index \in Slots /\ take_index \in Slots
    /\ element_array \in [Slots -> Elements]
    /\ putStores \in Slots /\ takeStores \in Slots
    /\ putPC \in {"idle", "writing", "spinning", "room", "stored", "signal"}
    /\ original_put \in Slots /\ elt \in Elements
    /\ takePC \in {"idle", "copying", "copied", "waiting"}
    /\ taken \in Elements
    /\ signalled \in BOOLEAN

(* EmbQueuePut never writes the slot EmbQueueTake is copying out of: the   *)
(* ring keeps the slot at put_index free and stale indices only make each  *)
(* side more cautious.                                                     *)
NoDataRace ==
    ~ (putPC = "writing" /\ takePC = "copying" /\ original_put = OwnTake)

(* The elements put (in the putter's program order) and not yet copied.    *)
Copied == takeStores + IF takePC = "copied" THEN 1 ELSE 0

Contents == [k \in 1 .. Filled + putStores - Copied |->
                element_array[Slot(take_index, Copied + k - 1)]]

(* An element enters when put_index is stored.                             *)
Offering == putPC \in {"writing", "spinning", "room"}

Fifo == INSTANCE FifoQueue
          WITH fifo <- Contents, offering <- Offering, offered <- elt

(* The ring is a FIFO: EmbQueueTake returns the elements given to          *)
(* EmbQueuePut, each once and in order, under either memory model.         *)
ImplementsFifo == Fifo!Spec

(* "If the queue had been empty, send a signal to the taker": a taker that *)
(* waits with no signal pending waits on an empty queue, unless the putter *)
(* is about to signal it.                                                  *)
NoStrandedElement ==
    (takePC = "waiting" /\ takeStores = 0 /\ ~signalled) =>
        \/ Filled = 0 /\ putStores = 0
        \/ putPC = "signal"
        \/ putPC = "stored" /\ original_put = take_index

(* That holds when the putter's index store is visible before it loads     *)
(* take_index, and the taker's before it loads put_index.                  *)
NoStrandedElementSC == memory = "SC" => NoStrandedElement

(* Liveness of the signal protocol: an element in the queue is eventually  *)
(* copied out by the taker, whatever it was doing when the element came.   *)
Delivered == (memory = "SC" /\ Filled > 0) ~> (takePC = "copied")
=============================================================================
