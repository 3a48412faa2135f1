------------------------------- MODULE EmbProofs ------------------------------
(***************************************************************************)
(* Proofs about the two ways in which the host and the guest tell each     *)
(* other something: the ring buffers of EmbQueue.tla, their safety and     *)
(* that they implement FifoQueue.tla, for every queue size, set of         *)
(* elements and memory model; and the signals that EmbSendSignal sends and *)
(* the interval timer, of IntervalTimer.tla, for every set of senders and  *)
(* every bound on the timeouts.                                            *)
(***************************************************************************)
EXTENDS EmbQueue, IntervalTimer, SequenceTheorems, TLAPS

-----------------------------------------------------------------------------
(* Index arithmetic of the ring *)

(* Going around the ring by less than its size ends in the ring. *)
LEMMA SlotRange ==
    ASSUME NEW i \in Slots, NEW k \in 0 .. QueueSize - 1
    PROVE  Slot(i, k) \in Slots
    BY QueueAssumption, SMT DEF QueueAssumption, Slots, Slot

(* Indices stay in the ring, and the number of filled slots below its size. *)
LEMMA RingRange ==
    ASSUME NEW p \in Slots, NEW t \in Slots
    PROVE  /\ Inc(p) \in Slots
           /\ EmbQueueFilled(p, t) \in 0 .. QueueSize - 1
           /\ EmbQueueSpace(p, t) = QueueSize - 1 - EmbQueueFilled(p, t)
    BY QueueAssumption, SMT
       DEF QueueAssumption, Slots, Inc, EmbQueueFilled, EmbQueueSpace

(* Advancing put_index fills one more slot, advancing take_index one less. *)
LEMMA RingAdvance ==
    ASSUME NEW p \in Slots, NEW t \in Slots
    PROVE  /\ EmbQueueFilled(p, t) < QueueSize - 1 =>
                EmbQueueFilled(Inc(p), t) = EmbQueueFilled(p, t) + 1
           /\ EmbQueueFilled(p, t) > 0 =>
                EmbQueueFilled(p, Inc(t)) = EmbQueueFilled(p, t) - 1
           /\ EmbQueueFilled(p, t) = 0 <=> p = t
           /\ Slot(t, EmbQueueFilled(p, t)) = p
           /\ Inc(p) # t <=> EmbQueueFilled(p, t) < QueueSize - 1
    BY QueueAssumption, SMT
       DEF QueueAssumption, Slots, Inc, Slot, EmbQueueFilled

(* Slot composes with Inc: a buffered store and its drain meet.            *)
LEMMA SlotInc ==
    ASSUME NEW i \in Slots, NEW k \in 0 .. QueueSize - 1
    PROVE  /\ Slot(i, 0) = i
           /\ Inc(Slot(i, k)) = Slot(i, k + 1)
           /\ Slot(Inc(i), k) = Slot(i, k + 1)
    BY QueueAssumption, SMT DEF QueueAssumption, Slots, Inc, Slot

(* Different distances from one slot are different slots, and distances add. *)
LEMMA SlotDistance ==
    ASSUME NEW i \in Slots, NEW j \in 0 .. QueueSize - 1,
           NEW k \in 0 .. QueueSize - 1
    PROVE  /\ Slot(i, j) = Slot(i, k) => j = k
           /\ j + k < QueueSize => Slot(Slot(i, j), k) = Slot(i, j + k)
    BY QueueAssumption, SMT DEF QueueAssumption, Slots, Slot

-----------------------------------------------------------------------------
(* The inductive invariant *)

(* Stores wait in a store buffer only under TSO. *)
BufferInv == memory = "SC" => putStores = 0 /\ takeStores = 0

(* The putter's view of the ring never holds more than QueueSize - 1       *)
(* elements, and one less while it is about to store the index: take_index *)
(* only ever moves away from the value the wait loop saw.                  *)
RoomInv ==
    /\ Filled + putStores < QueueSize
    /\ putPC = "room" => Filled + putStores + 1 < QueueSize

(* The taker's view never passes put_index.                                *)
TakeInv ==
    /\ takeStores <= Filled
    /\ takePC \in {"copying", "copied"} => takeStores < Filled

(* original_put is where the putter's view was when the call began.        *)
LocalInv ==
    /\ putPC \in {"writing", "spinning", "room"} => original_put = OwnPut
    /\ putPC \in {"stored", "signal"} => OwnPut = Inc(original_put)

IndInv == TypeOK /\ BufferInv /\ RoomInv /\ TakeInv /\ LocalInv

(* A queue fresh from CreateQueue satisfies it. *)
LEMMA InitIndInv == Init => IndInv
  <1> SUFFICES ASSUME Init PROVE IndInv
    OBVIOUS
  <1>1. 0 \in Slots /\ Zero \in Elements
    BY QueueAssumption, SMT DEF QueueAssumption, Slots
  <1>2. element_array \in [Slots -> Elements] /\ signalled \in BOOLEAN
    BY <1>1, Zenon DEF Init
  <1>3. TypeOK
    BY <1>1, <1>2, SMT DEF Init, TypeOK
  <1> QED
    BY <1>1, <1>3, QueueAssumption, SMT
       DEF QueueAssumption, Init, IndInv, BufferInv, RoomInv, TakeInv,
           LocalInv, Filled, EmbQueueFilled

(* Every load and store of the two threads, and every drain, keeps it.     *)
LEMMA NextIndInv == IndInv /\ [Next]_vars => IndInv'
  <1> SUFFICES ASSUME IndInv, [Next]_vars PROVE IndInv'
    OBVIOUS
  <1> USE QueueAssumption
  <1>0. /\ TypeOK /\ BufferInv /\ RoomInv /\ TakeInv /\ LocalInv
        /\ Filled \in 0 .. QueueSize - 1
        /\ OwnPut \in Slots /\ OwnTake \in Slots
    <2>1. TypeOK /\ BufferInv /\ RoomInv /\ TakeInv /\ LocalInv
      BY DEF IndInv
    <2>2. /\ put_index \in Slots /\ take_index \in Slots
          /\ putStores \in 0 .. QueueSize - 1
          /\ takeStores \in 0 .. QueueSize - 1
      BY <2>1 DEF TypeOK, Slots
    <2> QED
      BY <2>1, <2>2, SlotRange, RingRange DEF Filled, OwnPut, OwnTake
  <1>1. ASSUME NEW e \in Elements, BeginPut(e) PROVE IndInv'
    BY <1>0, <1>1, SMT
       DEF BeginPut, IndInv, TypeOK, BufferInv, RoomInv, TakeInv, LocalInv,
           OwnPut, OwnTake, Filled, queueVars, takeVars
  <1>2. CASE WriteElement
    BY <1>0, <1>2, SMT
       DEF WriteElement, IndInv, TypeOK, BufferInv, RoomInv, TakeInv, LocalInv,
           OwnPut, OwnTake, Filled, takeVars
  <1>3. CASE EndSpin
    <2>1. Inc(original_put) # take_index /\ original_put = OwnPut
      BY <1>0, <1>3 DEF EndSpin, LocalInv
    <2>2. EmbQueueFilled(OwnPut, take_index) = Filled + putStores
      BY <1>0, SMT DEF TypeOK, RoomInv, OwnPut, Slot, Filled, Slots, EmbQueueFilled,
                       QueueAssumption
    <2>3. Filled + putStores + 1 < QueueSize
      BY <1>0, <2>1, <2>2, RingAdvance, SMT DEF TypeOK, Slots, QueueAssumption
    <2> QED
      BY <1>0, <1>3, <2>3, SMT
         DEF EndSpin, IndInv, TypeOK, BufferInv, RoomInv, TakeInv, LocalInv,
             OwnPut, OwnTake, Filled, queueVars, takeVars
  <1>4. CASE StorePut
    <2>1. /\ original_put = OwnPut /\ Filled + putStores + 1 < QueueSize
          /\ putPC' = "stored" /\ original_put' = original_put
      BY <1>0, <1>4 DEF StorePut, LocalInv, RoomInv
    <2>2. CASE memory = "SC"
      <3>1. /\ put_index' = Inc(put_index) /\ putStores' = 0 /\ takeStores' = 0
            /\ take_index' = take_index /\ putStores = 0
        BY <1>0, <1>4, <2>1, <2>2, SlotInc, SMT
           DEF StorePut, BufferInv, OwnPut, TypeOK, Slots, QueueAssumption
      <3>2. Filled' = Filled + 1
        BY <1>0, <2>1, <3>1, RingAdvance, SMT DEF Filled, TypeOK, Slots, QueueAssumption
      <3>3. OwnPut' = Inc(original_put)'
        BY <1>0, <2>1, <3>1, RingRange, SlotInc, SMT
           DEF OwnPut, TypeOK, Slots, QueueAssumption
      <3>4. put_index' \in Slots
        BY <1>0, <3>1, RingRange, SMT DEF TypeOK, Slots, QueueAssumption
      <3> QED
        BY <1>0, <1>4, <2>1, <2>2, <3>1, <3>2, <3>3, <3>4, SMT
           DEF StorePut, IndInv, TypeOK, BufferInv, RoomInv, TakeInv, LocalInv,
               takeVars, Slots, QueueAssumption
    <2>3. CASE memory = "TSO"
      <3>1. /\ put_index' = put_index /\ putStores' = putStores + 1
            /\ take_index' = take_index /\ takeStores' = takeStores
            /\ Filled' = Filled
        BY <1>4, <2>3 DEF StorePut, Filled
      <3>2. OwnPut' = Inc(original_put)'
        BY <1>0, <2>1, <3>1, SlotInc, SMT DEF OwnPut, TypeOK, Slots, QueueAssumption
      <3> QED
        BY <1>0, <1>4, <2>1, <2>3, <3>1, <3>2, SMT
           DEF StorePut, IndInv, TypeOK, BufferInv, RoomInv, TakeInv, LocalInv,
               takeVars, Slots, QueueAssumption
    <2> QED
      BY <1>4, <2>2, <2>3 DEF StorePut
  <1>5. CASE TestEmpty
    BY <1>0, <1>5, SMT
       DEF TestEmpty, IndInv, TypeOK, BufferInv, RoomInv, TakeInv, LocalInv,
           OwnPut, OwnTake, Filled, queueVars, takeVars
  <1>6. CASE SendSignal
    BY <1>0, <1>6, SMT
       DEF SendSignal, IndInv, TypeOK, BufferInv, RoomInv, TakeInv, LocalInv,
           OwnPut, OwnTake, Filled, queueVars, takeVars
  <1>7. CASE BeginTake
    <2>1. EmbQueueFilled(put_index, take_index) = takeStores => put_index = OwnTake
      BY <1>0, RingAdvance DEF TypeOK, OwnTake
    <2>2. takePC' = "copying" => takeStores < Filled
      BY <1>0, <1>7, <2>1, SMT DEF BeginTake, Filled, TakeInv, TypeOK, Slots, QueueAssumption
    <2> QED
      BY <1>0, <1>7, <2>2, SMT
         DEF BeginTake, IndInv, TypeOK, BufferInv, RoomInv, TakeInv, LocalInv,
             OwnPut, OwnTake, Filled, queueVars, putVars
  <1>8. CASE CopyElement
    <2>1. taken' \in Elements
      BY <1>0, <1>8 DEF CopyElement, TypeOK
    <2> QED
      BY <1>0, <1>8, <2>1, SMT
         DEF CopyElement, IndInv, TypeOK, BufferInv, RoomInv, TakeInv, LocalInv,
             OwnPut, OwnTake, Filled, queueVars, putVars
  <1>9. CASE StoreTake
    <2>1. /\ takeStores < Filled /\ takePC' = "idle" /\ put_index' = put_index
          /\ putStores' = putStores
      BY <1>0, <1>9 DEF StoreTake, TakeInv
    <2>2. CASE memory = "SC"
      <3>1. take_index' = Inc(take_index) /\ takeStores' = 0 /\ putStores' = 0
        BY <1>0, <1>9, <2>1, <2>2, SlotInc, SMT
           DEF StoreTake, BufferInv, OwnTake, TypeOK, Slots, QueueAssumption
      <3>2. Filled' = Filled - 1
        BY <1>0, <2>1, <3>1, RingAdvance, SMT DEF Filled, TypeOK, Slots, QueueAssumption
      <3>3. take_index' \in Slots /\ OwnPut' = OwnPut
        BY <1>0, <2>1, <3>1, RingRange, SMT DEF TypeOK, Slots, QueueAssumption, OwnPut
      <3> QED
        BY <1>0, <1>9, <2>1, <2>2, <3>1, <3>2, <3>3, SMT
           DEF StoreTake, IndInv, TypeOK, BufferInv, RoomInv, TakeInv, LocalInv,
               putVars, Slots, QueueAssumption
    <2>3. CASE memory = "TSO"
      BY <1>0, <1>9, <2>1, <2>3, SMT
         DEF StoreTake, IndInv, TypeOK, BufferInv, RoomInv, TakeInv, LocalInv,
             putVars, OwnPut, Filled, Slots, QueueAssumption
    <2> QED
      BY <1>9, <2>2, <2>3 DEF StoreTake
  <1>10. CASE Wake
    <2>1. /\ signalled' \in BOOLEAN /\ takePC' = "idle" /\ taken' = taken
          /\ UNCHANGED <<memory, queueVars, putVars>>
      BY <1>10, Zenon DEF Wake
    <2> QED
      BY <1>0, <2>1, SMT
         DEF IndInv, TypeOK, BufferInv, RoomInv, TakeInv, LocalInv,
             OwnPut, OwnTake, Filled, queueVars, putVars
  <1>11. CASE DrainPut
    <2>1. /\ put_index' = Inc(put_index) /\ take_index' = take_index
          /\ putStores > 0 /\ putStores' = putStores - 1
      BY <1>11 DEF DrainPut
    <2>a. Filled < QueueSize - 1 /\ put_index \in Slots /\ take_index \in Slots
      BY <1>0, <2>1, SMT DEF RoomInv, TypeOK, Slots, QueueAssumption
    <2>2. Filled' = Filled + 1 /\ put_index' \in Slots
      BY <2>1, <2>a, RingAdvance, RingRange DEF Filled
    <2>3. OwnPut' = OwnPut
      BY <1>0, <2>1, SlotInc, SMT DEF OwnPut, TypeOK, Slots, QueueAssumption
    <2> QED
      BY <1>0, <1>11, <2>1, <2>2, <2>3, SMT
         DEF DrainPut, IndInv, TypeOK, BufferInv, RoomInv, TakeInv, LocalInv,
             putVars, takeVars, Slots, QueueAssumption
  <1>12. CASE DrainTake
    <2>1. /\ take_index' = Inc(take_index) /\ put_index' = put_index
          /\ takeStores > 0 /\ takeStores' = takeStores - 1
      BY <1>12 DEF DrainTake
    <2>a. Filled > 0 /\ put_index \in Slots /\ take_index \in Slots
      BY <1>0, <2>1, SMT DEF TakeInv, TypeOK, Slots, QueueAssumption
    <2>2. Filled' = Filled - 1 /\ take_index' \in Slots
      BY <2>1, <2>a, RingAdvance, RingRange DEF Filled
    <2> QED
      BY <1>0, <1>12, <2>1, <2>2, SMT
         DEF DrainTake, IndInv, TypeOK, BufferInv, RoomInv, TakeInv, LocalInv,
             OwnPut, putVars, takeVars, Slots, QueueAssumption
  <1>13. CASE UNCHANGED vars
    BY <1>0, <1>13, SMT
       DEF vars, IndInv, TypeOK, BufferInv, RoomInv, TakeInv, LocalInv,
           OwnPut, OwnTake, Filled, queueVars, putVars, takeVars
  <1> QED
    BY <1>1, <1>2, <1>3, <1>4, <1>5, <1>6, <1>7, <1>8, <1>9, <1>10, <1>11,
       <1>12, <1>13 DEF Next, PutStep, TakeStep

(* IndInv holds in every reachable state. *)
LEMMA AlwaysIndInv == Spec => []IndInv
  <1> QED
    BY InitIndInv, NextIndInv, PTL DEF Spec

-----------------------------------------------------------------------------
(* What the ring guarantees *)

(* The indices, store buffers and locals of queues.c stay in range: neither *)
(* put_index nor take_index ever leaves the ring, whatever its size.        *)
THEOREM TypeCorrect == Spec => []TypeOK
  <1>1. IndInv => TypeOK
    BY DEF IndInv
  <1> QED
    BY <1>1, AlwaysIndInv, PTL

(* EmbQueuePut never writes the slot that EmbQueueTake is copying, under    *)
(* either memory model.                                                     *)
THEOREM RaceFree == Spec => []NoDataRace
  <1>1. IndInv => NoDataRace
    <2> SUFFICES ASSUME IndInv, putPC = "writing", takePC = "copying",
                        original_put = OwnTake
                 PROVE  FALSE
      BY DEF NoDataRace
    <2>1. /\ put_index \in Slots /\ take_index \in Slots
          /\ putStores \in 0 .. QueueSize - 1
          /\ takeStores \in 0 .. QueueSize - 1
          /\ takeStores < Filled /\ Filled + putStores < QueueSize
          /\ original_put = OwnPut
      BY DEF IndInv, TypeOK, TakeInv, RoomInv, LocalInv, Slots
    <2>2. Filled \in 0 .. QueueSize - 1 /\ put_index = Slot(take_index, Filled)
      BY <2>1, RingRange, RingAdvance DEF Filled
    <2>3. OwnPut = Slot(take_index, Filled + putStores)
      BY <2>1, <2>2, SlotDistance DEF OwnPut
    <2>4. Filled + putStores \in 0 .. QueueSize - 1
      BY <2>1, <2>2, QueueAssumption, SMT DEF QueueAssumption
    <2>a. Slot(take_index, Filled + putStores) = Slot(take_index, takeStores)
      BY <2>1, <2>3 DEF OwnTake
    <2>5. Filled + putStores = takeStores
      BY <2>1, <2>4, <2>a, SlotDistance
    <2> QED
      BY <2>1, <2>2, <2>5, SMT
  <1> QED
    BY <1>1, AlwaysIndInv, PTL

(* The signal protocol on a sequentially consistent machine: a taker that  *)
(* sleeps without a pending signal sleeps on an empty queue, or the putter *)
(* has yet to run the test that sends the signal.                          *)
THEOREM SignalReliableSC == Spec => []NoStrandedElementSC
  <1>1. Init => NoStrandedElementSC
    BY DEF Init, NoStrandedElementSC, NoStrandedElement
  <1>2. IndInv /\ NoStrandedElementSC /\ [Next]_vars => NoStrandedElementSC'
    <2> SUFFICES ASSUME IndInv, NoStrandedElementSC, [Next]_vars,
                        memory' = "SC", takePC' = "waiting", ~signalled'
                 PROVE  \/ Filled' = 0 /\ putStores' = 0
                        \/ putPC' = "signal"
                        \/ putPC' = "stored" /\ original_put' = take_index'
      BY DEF NoStrandedElementSC, NoStrandedElement
    <2>1. memory = "SC" /\ putStores = 0 /\ takeStores = 0
      <3>1. memory' = memory
        BY DEF Next, vars, PutStep, TakeStep, BeginPut, WriteElement, EndSpin,
               StorePut, TestEmpty, SendSignal, BeginTake, CopyElement,
               StoreTake, Wake, DrainPut, DrainTake
      <3> QED
        BY <3>1 DEF IndInv, BufferInv
    <2>2. /\ put_index \in Slots /\ take_index \in Slots
          /\ OwnPut = put_index /\ OwnTake = take_index
          /\ Filled = 0 <=> put_index = take_index
      BY <2>1, SlotInc, RingAdvance, QueueAssumption, SMT
         DEF IndInv, TypeOK, OwnPut, OwnTake, Filled, QueueAssumption
    <2>3. takePC = "waiting" /\ ~signalled =>
            \/ Filled = 0
            \/ putPC = "signal"
            \/ putPC = "stored" /\ original_put = take_index
      BY <2>1 DEF NoStrandedElementSC, NoStrandedElement
    <2>4. CASE BeginTake
      BY <2>1, <2>2, <2>4 DEF BeginTake, queueVars, Filled
    <2>5. CASE StorePut
      BY <2>1, <2>2, <2>3, <2>5 DEF StorePut, takeVars, IndInv, LocalInv
    <2>6. CASE \/ \E e \in Elements : BeginPut(e)
               \/ WriteElement \/ EndSpin \/ TestEmpty
      BY <2>1, <2>2, <2>3, <2>6
         DEF BeginPut, WriteElement, EndSpin, TestEmpty, takeVars, queueVars, Filled
    <2>7. CASE UNCHANGED vars
      BY <2>1, <2>3, <2>7 DEF vars, queueVars, putVars, takeVars, Filled
    <2>8. CASE SendSignal \/ CopyElement \/ StoreTake \/ Wake
      BY <2>8 DEF SendSignal, CopyElement, StoreTake, Wake
    <2>9. CASE DrainPut \/ DrainTake
      BY <2>1, <2>9, SMT DEF DrainPut, DrainTake
    <2> QED
      BY <2>4, <2>5, <2>6, <2>7, <2>8, <2>9 DEF Next, PutStep, TakeStep
  <1> QED
    BY <1>1, <1>2, AlwaysIndInv, PTL DEF Spec

-----------------------------------------------------------------------------
(* The ring buffer implements the FIFO queue *)

(* Once EmbQueuePut has copied the element, its slot holds it until the    *)
(* index store makes it part of the queue.                                 *)
ElementInv ==
    putPC \in {"spinning", "room"} => element_array[original_put] = elt

RefInv == IndInv /\ ElementInv

(* Every step keeps the slot: only WriteElement stores an element.         *)
LEMMA AlwaysRefInv == Spec => []RefInv
<1>1. Init => ElementInv
  BY DEF Init, ElementInv
<1>2. IndInv /\ ElementInv /\ [Next]_vars => ElementInv'
  <2> SUFFICES ASSUME IndInv, ElementInv, [Next]_vars PROVE ElementInv'
    OBVIOUS
  <2>1. CASE WriteElement
    BY <2>1 DEF WriteElement, ElementInv, IndInv, TypeOK
  <2>2. CASE EndSpin
    BY <2>2 DEF EndSpin, ElementInv, queueVars
  <2>3. CASE \/ \E e \in Elements : BeginPut(e)
             \/ StorePut \/ TestEmpty \/ SendSignal
    BY <2>3 DEF BeginPut, StorePut, TestEmpty, SendSignal, ElementInv
  <2>4. CASE TakeStep \/ DrainPut \/ DrainTake \/ UNCHANGED vars
    BY <2>4 DEF TakeStep, BeginTake, CopyElement, StoreTake, Wake, DrainPut,
                DrainTake, vars, queueVars, putVars, ElementInv
  <2> QED BY <2>1, <2>2, <2>3, <2>4 DEF Next, PutStep
<1> QED BY <1>1, <1>2, AlwaysIndInv, PTL DEF Spec, RefInv

-----------------------------------------------------------------------------
(* The abstract queue *)

(* The number of elements in the abstract queue. *)
Length == Filled + putStores - Copied

(* The element at place k of the abstract queue, from 1. *)
Element(k) == element_array[Slot(take_index, Copied + k - 1)]

(* Numbers and slots in reach of the invariant. *)
LEMMA Ranges ==
    ASSUME IndInv
    PROVE  /\ put_index \in Slots /\ take_index \in Slots
           /\ putStores \in 0 .. QueueSize - 1 /\ takeStores \in 0 .. QueueSize - 1
           /\ Filled \in 0 .. QueueSize - 1
           /\ Copied \in 0 .. Filled
           /\ Length \in 0 .. QueueSize - 1
           /\ QueueSize \in Nat \ {0}
<1>1. /\ put_index \in Slots /\ take_index \in Slots
      /\ putStores \in 0 .. QueueSize - 1 /\ takeStores \in 0 .. QueueSize - 1
      /\ takeStores <= Filled /\ Filled + putStores < QueueSize
      /\ takePC = "copied" => takeStores < Filled
  BY DEF IndInv, TypeOK, RoomInv, TakeInv, Slots
<1>2. Filled \in 0 .. QueueSize - 1
  BY <1>1, RingRange DEF Filled
<1> QED
  BY <1>1, <1>2, QueueAssumption, SMT DEF QueueAssumption, Copied, Length

(* The abstract queue is a sequence of elements, the k-th one in the slot  *)
(* k - 1 places after the first that is not copied.                        *)
LEMMA ContentsIsSeq ==
    ASSUME IndInv
    PROVE  /\ Contents = [k \in 1 .. Length |-> Element(k)]
           /\ Contents \in Seq(Elements)
           /\ Len(Contents) = Length
           /\ \A k \in 1 .. Length : Contents[k] = Element(k)
<1>1. Contents = [k \in 1 .. Length |-> Element(k)]
  BY DEF Contents, Length, Element
<1>2. ASSUME NEW k \in 1 .. Length PROVE Element(k) \in Elements
  <2>1. Copied + k - 1 \in 0 .. QueueSize - 1
    BY Ranges, SMT DEF Length, IndInv, RoomInv
  <2>2. Slot(take_index, Copied + k - 1) \in Slots
    BY <2>1, Ranges, SlotRange
  <2> QED BY <2>2 DEF Element, IndInv, TypeOK
<1>3. Length \in Nat
  BY Ranges, SMT
<1> QED BY <1>1, <1>2, <1>3, SMT

(* When neither its length nor its elements change, the queue does not.    *)
LEMMA ContentsSame ==
    ASSUME IndInv, IndInv', Length' = Length,
           \A k \in 1 .. Length : Element(k)' = Element(k)
    PROVE  Contents' = Contents
<1>1. Contents = [k \in 1 .. Length |-> Element(k)]
  BY ContentsIsSeq
<1>2. Contents' = [k \in 1 .. Length' |-> Element(k)']
  BY DEF Contents, Length, Element
<1> QED BY <1>1, <1>2

-----------------------------------------------------------------------------
(* The steps that change the queue *)

(* The store of put_index lets the offered element in, at the end.         *)
LEMMA StorePutEnqueues ==
    ASSUME RefInv, IndInv', StorePut
    PROVE  Fifo!Enqueue
<1>1. /\ putPC = "room" /\ putPC' = "stored"
      /\ UNCHANGED <<take_index, element_array, takeStores, elt, takePC, taken>>
  BY DEF StorePut, takeVars
<1>2. /\ original_put = OwnPut /\ Filled + putStores + 1 < QueueSize
      /\ element_array[original_put] = elt
      /\ memory = "SC" => putStores = 0
  BY <1>1 DEF RefInv, IndInv, LocalInv, RoomInv, ElementInv, BufferInv
<1>3. IndInv
  BY DEF RefInv
<1>4. \/ Filled' = Filled + 1 /\ putStores' = putStores
      \/ Filled' = Filled /\ putStores' = putStores + 1
  <2>1. CASE memory = "SC" /\ put_index' = Inc(original_put) /\ putStores' = putStores
    <3>1. original_put = put_index
      BY <1>2, <1>3, <2>1, Ranges, SlotInc DEF OwnPut
    <3>2. Filled < QueueSize - 1
      BY <1>2, <1>3, Ranges, SMT
    <3> QED BY <1>1, <1>3, <2>1, <3>1, <3>2, Ranges, RingAdvance DEF Filled
  <2>2. CASE putStores' = putStores + 1 /\ put_index' = put_index
    BY <1>1, <1>3, <2>2, Ranges, SMT DEF Filled
  <2> QED BY <2>1, <2>2 DEF StorePut
<1>5. Copied' = Copied
  BY <1>1 DEF Copied
<1>6. Length' = Length + 1 /\ Length < QueueSize - 1
  <2>1. Copied \in Nat /\ Filled \in Nat /\ putStores \in Nat /\ QueueSize \in Nat
    BY <1>3, Ranges, SMT
  <2>2. Length < QueueSize - 1
    BY <1>2, <2>1, SMT DEF Length
  <2>3. CASE Filled' = Filled + 1 /\ putStores' = putStores
    BY <1>5, <2>1, <2>2, <2>3, SMT DEF Length
  <2>4. CASE Filled' = Filled /\ putStores' = putStores + 1
    BY <1>5, <2>1, <2>2, <2>4, SMT DEF Length
  <2> QED BY <1>4, <2>3, <2>4
<1>7. \A k : Element(k)' = Element(k)
  BY <1>1, <1>5 DEF Element, Slot
<1>8. Element(Length + 1) = elt
  <2>1. Copied + (Length + 1) - 1 = Filled + putStores
    BY <1>3, Ranges, SMT DEF Length
  <2>2. put_index = Slot(take_index, Filled)
    BY <1>3, Ranges, RingAdvance DEF Filled
  <2>3. OwnPut = Slot(take_index, Filled + putStores)
    BY <1>2, <1>3, <2>2, Ranges, SlotDistance DEF OwnPut
  <2> QED BY <1>2, <2>1, <2>3 DEF Element
<1>9. Contents' = Append(Contents, elt)
  <2>1. Contents' = [k \in 1 .. Length + 1 |-> Element(k)]
    BY <1>6, <1>7 DEF Contents, Length, Element
  <2>2. \A k \in 1 .. Length : Contents[k] = Element(k)
    BY <1>3, ContentsIsSeq
  <2>3. Contents \in Seq(Elements) /\ Len(Contents) = Length /\ Length \in Nat
    BY <1>3, ContentsIsSeq, Ranges, SMT
  <2>4. elt \in Elements
    BY <1>3 DEF IndInv, TypeOK
  <2>5. /\ Append(Contents, elt) \in Seq(Elements)
        /\ Len(Append(Contents, elt)) = Length + 1
        /\ \A k \in 1 .. Length : Append(Contents, elt)[k] = Element(k)
        /\ Append(Contents, elt)[Length + 1] = Element(Length + 1)
    BY <1>8, <2>2, <2>3, <2>4, AppendProperties
  <2>6. \A k \in 1 .. Length + 1 : Append(Contents, elt)[k] = Element(k)
    BY <2>3, <2>5, SMT
  <2>7. Append(Contents, elt) \in [1 .. Length + 1 -> Elements]
    BY <2>5, LenProperties
  <2> QED BY <2>1, <2>5, <2>6, <2>7
<1> QED
  BY <1>1, <1>3, <1>6, <1>9, ContentsIsSeq DEF Fifo!Enqueue, Offering

(* Copying an element out takes the oldest one.                            *)
LEMMA CopyElementDequeues ==
    ASSUME IndInv, IndInv', CopyElement
    PROVE  Fifo!Dequeue
<1>1. /\ takePC = "copying" /\ takePC' = "copied"
      /\ taken' = element_array[OwnTake]
      /\ UNCHANGED <<put_index, take_index, element_array, putStores, takeStores,
                     putPC, elt>>
  BY DEF CopyElement, queueVars, putVars
<1>2. Copied = takeStores /\ Copied' = Copied + 1 /\ takeStores < Filled
  BY <1>1, Ranges, SMT DEF Copied, IndInv, TakeInv
<1>3. Length' = Length - 1 /\ Length > 0
  BY <1>1, <1>2, Ranges, SMT DEF Length, Filled
<1>4. \A k \in Nat : Element(k)' = Element(k + 1)
  <2> TAKE k \in Nat
  <2>1. Copied' + k - 1 = Copied + (k + 1) - 1
    BY <1>2, Ranges, SMT
  <2> QED BY <1>1, <2>1 DEF Element, Slot
<1>5. taken' = Element(1)
  <2>1. takeStores = Copied + 1 - 1
    BY <1>2, Ranges, SMT
  <2> QED BY <1>1, <2>1 DEF Element, OwnTake
<1>6. /\ Contents \in Seq(Elements) /\ Len(Contents) = Length /\ Length \in Nat
      /\ \A k \in 1 .. Length : Contents[k] = Element(k)
  BY ContentsIsSeq, Ranges, SMT
<1>7. Contents # <<>> /\ Head(Contents) = Element(1)
  BY <1>3, <1>6, SMT
<1>8. Contents' = Tail(Contents)
  <2>1. Contents' = [k \in 1 .. Length - 1 |-> Element(k)']
    BY <1>3 DEF Contents, Length, Element
  <2>2. /\ Tail(Contents) \in Seq(Elements) /\ Len(Tail(Contents)) = Length - 1
        /\ \A k \in 1 .. Length - 1 : Tail(Contents)[k] = Contents[k + 1]
    BY <1>6, <1>7, HeadTailProperties
  <2>3. \A k \in 1 .. Length - 1 : Contents[k + 1] = Element(k)'
    BY <1>3, <1>4, <1>6, SMT
  <2>4. Tail(Contents) \in [1 .. Length - 1 -> Elements]
    BY <2>2, LenProperties
  <2> QED BY <2>1, <2>2, <2>3, <2>4
<1> QED
  BY <1>1, <1>5, <1>7, <1>8 DEF Fifo!Dequeue, Offering

-----------------------------------------------------------------------------
(* The steps that leave the queue as it is *)

(* The element is copied into a slot that is not in the queue.             *)
LEMMA WriteElementStutters ==
    ASSUME IndInv, IndInv', WriteElement
    PROVE  UNCHANGED Fifo!vars
<1>1. /\ putPC = "writing" /\ putPC' = "spinning"
      /\ element_array' = [element_array EXCEPT ![original_put] = elt]
      /\ UNCHANGED <<put_index, take_index, putStores, takeStores, elt, takePC, taken>>
  BY DEF WriteElement, takeVars
<1>2. Copied' = Copied /\ Length' = Length
  BY <1>1 DEF Copied, Length, Filled
<1>3. original_put = Slot(take_index, Filled + putStores)
  <2>1. put_index = Slot(take_index, Filled)
    BY Ranges, RingAdvance DEF Filled
  <2>2. original_put = OwnPut /\ Filled + putStores < QueueSize
    BY <1>1 DEF IndInv, LocalInv, RoomInv
  <2> QED BY <2>1, <2>2, Ranges, SlotDistance DEF OwnPut
<1>4. ASSUME NEW k \in 1 .. Length PROVE Element(k)' = Element(k)
  <2>1. /\ Copied + k - 1 \in 0 .. QueueSize - 1
        /\ Filled + putStores \in 0 .. QueueSize - 1
        /\ Copied + k - 1 # Filled + putStores
    BY Ranges, SMT DEF Length, IndInv, RoomInv
  <2>2. Slot(take_index, Copied + k - 1) # original_put
    BY <1>3, <2>1, Ranges, SlotDistance
  <2>3. element_array'[Slot(take_index, Copied + k - 1)]
          = element_array[Slot(take_index, Copied + k - 1)]
    BY <1>1, <2>2, <2>1, Ranges, SlotRange DEF IndInv, TypeOK
  <2> QED BY <1>1, <1>2, <2>3 DEF Element, Slot
<1>5. Contents' = Contents
  BY <1>2, <1>4, ContentsSame
<1> QED BY <1>1, <1>5 DEF Fifo!vars, Offering

(* The store of take_index frees a slot whose element is already copied.   *)
LEMMA StoreTakeStutters ==
    ASSUME IndInv, IndInv', StoreTake
    PROVE  UNCHANGED Fifo!vars
<1>1. /\ takePC = "copied" /\ takePC' = "idle" /\ takeStores < Filled
      /\ UNCHANGED <<put_index, element_array, putStores, putPC, elt, taken>>
  BY DEF StoreTake, putVars, IndInv, TakeInv
<1>2. CASE memory = "SC" /\ take_index' = Inc(OwnTake) /\ takeStores' = takeStores
  <2>1. takeStores = 0 /\ OwnTake = take_index
    BY <1>2, Ranges, SlotInc DEF IndInv, BufferInv, OwnTake
  <2>2. Filled' = Filled - 1
    BY <1>1, <1>2, <2>1, Ranges, RingAdvance DEF Filled
  <2>3. Copied = 1 /\ Copied' = 0
    BY <1>1, <1>2, <2>1, SMT DEF Copied
  <2>4. Length' = Length
    BY <1>1, <2>2, <2>3, Ranges, SMT DEF Length
  <2>5. ASSUME NEW k \in 1 .. Length PROVE Element(k)' = Element(k)
    <3>1. k - 1 \in 0 .. QueueSize - 1 /\ (k - 1) + 1 = 1 + k - 1 /\ 0 + k - 1 = k - 1
      BY Ranges, SMT
    <3>2. Slot(Inc(take_index), k - 1) = Slot(take_index, (k - 1) + 1)
      BY <3>1, Ranges, SlotInc
    <3>3. Slot(Inc(take_index), 0 + k - 1) = Slot(take_index, 1 + k - 1)
      BY <3>1, <3>2
    <3> QED BY <1>1, <1>2, <2>1, <2>3, <3>3 DEF Element, Slot
  <2>6. Contents' = Contents
    BY <2>4, <2>5, ContentsSame
  <2> QED BY <1>1, <2>6 DEF Fifo!vars, Offering
<1>3. CASE takeStores' = takeStores + 1 /\ take_index' = take_index
  <2>1. Copied' = Copied
    BY <1>1, <1>3, Ranges, SMT DEF Copied
  <2>2. Length' = Length /\ \A k : Element(k)' = Element(k)
    BY <1>1, <1>3, <2>1 DEF Length, Filled, Element, Slot
  <2>3. Contents' = Contents
    BY <2>2, ContentsSame
  <2> QED BY <1>1, <2>3 DEF Fifo!vars, Offering
<1> QED BY <1>2, <1>3 DEF StoreTake

(* A buffered index store reaches memory: only where the queue's ends are  *)
(* kept changes.                                                           *)
LEMMA DrainStutters ==
    ASSUME IndInv, IndInv', DrainPut \/ DrainTake
    PROVE  UNCHANGED Fifo!vars
<1>1. UNCHANGED <<element_array, putPC, elt, takePC, taken>>
  BY DEF DrainPut, DrainTake, putVars, takeVars
<1>2. CASE DrainPut
  <2>1. /\ putStores > 0 /\ putStores' = putStores - 1
        /\ put_index' = Inc(put_index) /\ UNCHANGED <<take_index, takeStores>>
    BY <1>2 DEF DrainPut
  <2>2. Filled < QueueSize - 1
    BY <2>1, Ranges, SMT DEF IndInv, RoomInv
  <2>3. Filled' = Filled + 1
    BY <2>1, <2>2, Ranges, RingAdvance DEF Filled
  <2>4. Copied' = Copied
    BY <1>1, <2>1 DEF Copied
  <2>5. Length' = Length
    BY <2>1, <2>3, <2>4, Ranges, SMT DEF Length
  <2>6. \A k : Element(k)' = Element(k)
    BY <1>1, <2>1, <2>4 DEF Element, Slot
  <2>7. Contents' = Contents
    BY <2>5, <2>6, ContentsSame
  <2> QED BY <1>1, <2>7 DEF Fifo!vars, Offering
<1>3. CASE DrainTake
  <2>1. /\ takeStores > 0 /\ takeStores' = takeStores - 1
        /\ take_index' = Inc(take_index) /\ UNCHANGED <<put_index, putStores>>
    BY <1>3 DEF DrainTake
  <2>2. Filled > 0
    BY <2>1, Ranges, SMT DEF IndInv, TakeInv
  <2>3. Filled' = Filled - 1
    BY <2>1, <2>2, Ranges, RingAdvance DEF Filled
  <2>4. Copied > 0 /\ Copied' = Copied - 1
    BY <1>1, <2>1, Ranges, SMT DEF Copied
  <2>5. Length' = Length
    BY <2>1, <2>3, <2>4, Ranges, SMT DEF Length
  <2>6. ASSUME NEW k \in 1 .. Length PROVE Element(k)' = Element(k)
    <3>1. /\ Copied - 1 + k - 1 \in 0 .. QueueSize - 1
          /\ (Copied - 1 + k - 1) + 1 = Copied + k - 1
      BY <2>4, Ranges, SMT DEF Length, IndInv, RoomInv
    <3>2. Slot(Inc(take_index), Copied - 1 + k - 1) = Slot(take_index, Copied + k - 1)
      BY <3>1, Ranges, SlotInc
    <3> QED BY <1>1, <2>1, <2>4, <3>2 DEF Element, Slot
  <2>7. Contents' = Contents
    BY <2>5, <2>6, ContentsSame
  <2> QED BY <1>1, <2>7 DEF Fifo!vars, Offering
<1> QED BY <1>2, <1>3

(* The other steps touch neither the indices nor the elements.             *)
LEMMA OthersStutter ==
    ASSUME IndInv, IndInv',
           \/ EndSpin \/ TestEmpty \/ SendSignal \/ BeginTake \/ Wake
           \/ UNCHANGED vars
    PROVE  UNCHANGED Fifo!vars
<1>1. UNCHANGED <<put_index, take_index, element_array, putStores, takeStores, elt, taken>>
  BY DEF EndSpin, TestEmpty, SendSignal, BeginTake, Wake, vars, queueVars, putVars,
         takeVars
<1>2. Offering' = Offering /\ (takePC' = "copied" <=> takePC = "copied")
  BY DEF EndSpin, TestEmpty, SendSignal, BeginTake, Wake, vars, putVars, takeVars,
         Offering
<1>3. Copied' = Copied
  BY <1>1, <1>2 DEF Copied
<1>4. Length' = Length /\ \A k : Element(k)' = Element(k)
  BY <1>1, <1>3 DEF Length, Filled, Element, Slot
<1>5. Contents' = Contents
  BY <1>4, ContentsSame
<1> QED BY <1>1, <1>2, <1>5 DEF Fifo!vars

(* A new call of EmbQueuePut offers its element. *)
LEMMA BeginPutOffers ==
    ASSUME IndInv, IndInv', NEW e \in Elements, BeginPut(e)
    PROVE  Fifo!Offer(e)
<1>1. /\ putPC = "idle" /\ putPC' = "writing" /\ elt' = e
      /\ UNCHANGED <<put_index, take_index, element_array, putStores, takeStores,
                     takePC, taken>>
  BY DEF BeginPut, queueVars, takeVars
<1>2. Copied' = Copied
  BY <1>1 DEF Copied
<1>3. Length' = Length /\ \A k : Element(k)' = Element(k)
  BY <1>1, <1>2 DEF Length, Filled, Element, Slot
<1>4. Contents' = Contents
  BY <1>3, ContentsSame
<1> QED BY <1>1, <1>4 DEF Fifo!Offer, Offering

-----------------------------------------------------------------------------
(* EmbQueuePut and EmbQueueTake, run by two threads without a lock or a    *)
(* barrier, implement a FIFO: each element put is taken once, intact and   *)
(* in order, under either memory model.                                    *)
THEOREM RingImplementsFifo == Spec => ImplementsFifo
<1>1. Init => Fifo!Init
  <2> SUFFICES ASSUME Init PROVE Fifo!Init
    OBVIOUS
  <2>1. IndInv
    BY InitIndInv
  <2>2. Length = 0
    BY QueueAssumption, SMT
       DEF QueueAssumption, Init, Length, Filled, EmbQueueFilled, Copied
  <2>3. Contents = <<>>
    BY <2>1, <2>2, ContentsIsSeq, SMT
  <2>4. elt \in Elements /\ taken \in Elements /\ ~Offering
    BY QueueAssumption DEF QueueAssumption, Init, Offering
  <2> QED BY <2>3, <2>4 DEF Fifo!Init
<1>2. RefInv /\ RefInv' /\ [Next]_vars => [Fifo!Next]_(Fifo!vars)
  <2> SUFFICES ASSUME RefInv, RefInv', [Next]_vars
               PROVE  Fifo!Next \/ UNCHANGED Fifo!vars
    OBVIOUS
  <2> USE DEF RefInv
  <2>1. ASSUME NEW e \in Elements, BeginPut(e) PROVE Fifo!Next
    BY <2>1, BeginPutOffers DEF Fifo!Next
  <2>2. CASE StorePut
    BY <2>2, StorePutEnqueues DEF Fifo!Next
  <2>3. CASE CopyElement
    BY <2>3, CopyElementDequeues DEF Fifo!Next
  <2>4. CASE WriteElement
    BY <2>4, WriteElementStutters
  <2>5. CASE StoreTake
    BY <2>5, StoreTakeStutters
  <2>6. CASE DrainPut \/ DrainTake
    BY <2>6, DrainStutters
  <2>7. CASE \/ EndSpin \/ TestEmpty \/ SendSignal \/ BeginTake \/ Wake
             \/ UNCHANGED vars
    BY <2>7, OthersStutter
  <2> QED
    BY <2>1, <2>2, <2>3, <2>4, <2>5, <2>6, <2>7 DEF Next, PutStep, TakeStep
<1> QED
  BY <1>1, <1>2, AlwaysRefInv, PTL DEF Spec, ImplementsFifo, Fifo!Spec

-----------------------------------------------------------------------------
(* Signals to the guest and the interval timer *)

(* The names of a step's unchanged variables, for BY ... DEF. *)
USE DEF timer, wakeup, past

-----------------------------------------------------------------------------
(* Type correctness *)

(* The timer thread only copies timeouts that were programmed.             *)
LEMMA TimerStepTypeOK ==
    ASSUME TimerTypeOK, TimerStep
    PROVE  TimerTypeOK'
<1> USE TimerAssumption DEF TimerAssumption, TimerTypeOK, Signal
<1>1. CASE TimerStart
  BY <1>1 DEF TimerStart
<1>2. CASE TimerRelock
  BY <1>2 DEF TimerRelock, TimerWait
<1>3. CASE TimerExpire
  BY <1>3 DEF TimerExpire
<1>4. CASE TimerSend \/ TimerBit
  BY <1>4 DEF TimerSend, TimerBit, SendLoad, SendBit
<1>5. CASE TimerWake
  BY <1>5 DEF TimerWake, SendWake
<1>6. CASE TimerClear
  BY <1>6 DEF TimerClear
<1> QED BY <1>1, <1>2, <1>3, <1>4, <1>5, <1>6 DEF TimerStep

(* The other threads' steps preserve the types as well.                    *)
LEMMA OthersTypeOK ==
    ASSUME TimerTypeOK,
           \/ \E s \in Senders : SenderSend(s) \/ SenderBit(s) \/ SenderWake(s)
           \/ SetIntervalTimer \/ WaitCheck \/ WaitBlock \/ WaitTimeout
           \/ BreakStep
    PROVE  TimerTypeOK'
<1> USE TimerAssumption DEF TimerAssumption, TimerTypeOK, Signal
<1>1. ASSUME NEW s \in Senders, SenderSend(s) \/ SenderBit(s) PROVE TimerTypeOK'
  BY <1>1 DEF SenderSend, SenderBit, SendLoad, SendBit
<1>2. ASSUME NEW s \in Senders, SenderWake(s) PROVE TimerTypeOK'
  BY <1>2 DEF SenderWake, SendWake
<1>3. CASE SetIntervalTimer
  <2>1. programmed' \in 0 .. MaxTimeouts /\ clockTime' \in -1 .. MaxTimeouts
    BY <1>3 DEF SetIntervalTimer
  <2>2. early' \in 0 .. programmed' /\ overwritten' \subseteq 1 .. programmed'
    BY <1>3 DEF SetIntervalTimer
  <2> QED BY <1>3, <2>1, <2>2 DEF SetIntervalTimer
<1>4. CASE WaitCheck
  BY <1>4 DEF WaitCheck
<1>5. CASE WaitBlock \/ WaitTimeout
  BY <1>5 DEF WaitBlock, WaitTimeout
<1>6. CASE BreakStep
  BY <1>6 DEF BreakStep, TakeBreak, ClearSuspend, GuestBreak
<1> QED BY <1>1, <1>2, <1>3, <1>4, <1>5, <1>6

(* Every variable keeps its type. *)
THEOREM TimerTypeCorrect == TimerSpec => []TimerTypeOK
<1>1. TimerInit => TimerTypeOK
  <2> SUFFICES ASSUME TimerInit PROVE TimerTypeOK
    OBVIOUS
  <2>1. clockTime \in -1 .. MaxTimeouts /\ 0 \in 0 .. MaxTimeouts
    BY TimerAssumption DEF TimerAssumption, TimerInit
  <2>2. early \in 0 .. programmed
    BY DEF TimerInit
  <2>3. overwritten = {} /\ sent = {} /\ suspend \in BOOLEAN
    BY DEF TimerInit
  <2> QED BY <2>1, <2>2, <2>3 DEF TimerInit, TimerTypeOK
<1>2. TimerTypeOK /\ [TimerNext]_timerVars => TimerTypeOK'
  <2> SUFFICES ASSUME TimerTypeOK, [TimerNext]_timerVars PROVE TimerTypeOK'
    OBVIOUS
  <2>1. CASE UNCHANGED timerVars
    BY <2>1 DEF TimerTypeOK, timerVars
  <2>2. CASE TimerNext
    BY <2>2, TimerStepTypeOK, OthersTypeOK DEF TimerNext
  <2> QED BY <2>1, <2>2
<1> QED BY <1>1, <1>2, PTL DEF TimerSpec

-----------------------------------------------------------------------------
(* No pending signal is swallowed *)

(* A thread that has set a signal's bit interrupts the emulator next, so   *)
(* that a step of the timer thread leaves the signal noticed.              *)
LEMMA TimerNoticed ==
    ASSUME TimerTypeOK, PendingIsNoticed, TimerStep
    PROVE  PendingIsNoticed'
<1> USE DEF TimerTypeOK, PendingIsNoticed
<1>1. CASE TimerStart \/ TimerExpire \/ TimerClear
  BY <1>1 DEF TimerStart, TimerExpire, TimerClear
<1>2. CASE TimerRelock
  BY <1>2 DEF TimerRelock, TimerWait
<1>3. CASE TimerSend \/ TimerBit
  BY <1>3 DEF TimerSend, TimerBit, SendLoad, SendBit
<1>4. CASE TimerWake
  BY <1>4 DEF TimerWake, SendWake
<1> QED BY <1>1, <1>2, <1>3, <1>4 DEF TimerStep

(* So does a step of another sender. *)
LEMMA SenderNoticed ==
    ASSUME TimerTypeOK, PendingIsNoticed, NEW s \in Senders,
           SenderSend(s) \/ SenderBit(s) \/ SenderWake(s)
    PROVE  PendingIsNoticed'
<1> USE DEF TimerTypeOK, PendingIsNoticed
<1>1. CASE SenderSend(s) \/ SenderBit(s)
  BY <1>1 DEF SenderSend, SenderBit, SendLoad, SendBit
<1>2. CASE SenderWake(s)
  BY <1>2 DEF SenderWake, SendWake
<1> QED BY <1>1, <1>2

(* The emulator clears `suspend' only on its way to the sequence break     *)
(* handler, and leaves that only with no signal pending.                   *)
LEMMA EmulatorNoticed ==
    ASSUME TimerTypeOK, PendingIsNoticed,
           \/ SetIntervalTimer \/ WaitCheck \/ WaitBlock \/ WaitTimeout
           \/ BreakStep
    PROVE  PendingIsNoticed'
<1> USE DEF TimerTypeOK, PendingIsNoticed
<1>1. CASE SetIntervalTimer
  BY <1>1 DEF SetIntervalTimer
<1>2. CASE WaitCheck
  BY <1>2 DEF WaitCheck
<1>3. CASE WaitBlock \/ WaitTimeout
  BY <1>3 DEF WaitBlock, WaitTimeout
<1>4. CASE BreakStep
  BY <1>4 DEF BreakStep, TakeBreak, ClearSuspend, GuestBreak
<1> QED BY <1>1, <1>2, <1>3, <1>4

(* EmbSendSignal and ProcessSuspend: a pending signal always has an        *)
(* interrupt ahead of it, whatever threads send signals.                   *)
THEOREM SignalNoticed == TimerSpec => []PendingIsNoticed
<1>1. TimerInit => PendingIsNoticed
  BY DEF TimerInit, PendingIsNoticed
<1>2. TimerTypeOK /\ PendingIsNoticed /\ [TimerNext]_timerVars => PendingIsNoticed'
  <2> SUFFICES ASSUME TimerTypeOK, PendingIsNoticed, [TimerNext]_timerVars
               PROVE  PendingIsNoticed'
    OBVIOUS
  <2>1. CASE UNCHANGED timerVars
    BY <2>1 DEF PendingIsNoticed, timerVars
  <2>2. CASE TimerNext
    BY <2>2, TimerNoticed, SenderNoticed, EmulatorNoticed DEF TimerNext
  <2> QED BY <2>1, <2>2
<1> QED BY <1>1, <1>2, TimerTypeCorrect, PTL DEF TimerSpec
=============================================================================
