---------------------------- MODULE SignalsProofs ----------------------------
(***************************************************************************)
(* Proofs about the handler threads and masks of Signals.tla, for every    *)
(* number of signals and every set of channels, and the lemmas about the   *)
(* queues of Ring.tla that the proofs of both channels rest on.            *)
(***************************************************************************)
EXTENDS Signals, Ring, TLAPS

(* The names of a step's unchanged variables, for BY ... DEF. *)
USE DEF masks, table, emulator, polling, handlers, history

-----------------------------------------------------------------------------
(* Type correctness *)

(* The initial state has its types. *)
LEMMA InitTypeOK == Init => TypeOK
  BY SignalsAssumption DEF SignalsAssumption, Init, TypeOK, Signal

(* A step of the emulator thread for a channel preserves the types: it     *)
(* stores in the table only under a signal of the table.                   *)
LEMMA ChannelTypeOK ==
    ASSUME TypeOK, NEW c \in Channel,
           GuestRaise(c) \/ InstallFunction(c) \/ RemoveFunction(c)
    PROVE  TypeOK'
<1> USE SignalsAssumption DEF SignalsAssumption, TypeOK
<1>1. CASE GuestRaise(c)
  <2>1. queueSignal[c] \in Signal
    BY <1>1 DEF GuestRaise
  <2> QED BY <1>1, <2>1 DEF GuestRaise
<1>2. CASE InstallFunction(c)
  <2>1. PICK s \in FreeSignals :
          /\ live_guest_to_host_signals' = live_guest_to_host_signals \cup {s}
          /\ handlerFunction' = [handlerFunction EXCEPT ![s] = "real"]
          /\ late' = [late EXCEPT ![s] = 0]
          /\ eSignal' = s
    BY <1>2 DEF InstallFunction
  <2>2. s \in Signal
    BY DEF FreeSignals
  <2> QED BY <1>2, <2>1, <2>2 DEF InstallFunction
<1>3. CASE RemoveFunction(c)
  <2>1. queueSignal[c] \in Signal
    BY <1>3 DEF RemoveFunction, RemoveStoring
  <2> QED BY <1>3, <2>1 DEF RemoveFunction, RemoveStoring
<1> QED BY <1>1, <1>2, <1>3

(* So do the steps that finish what one of those began. *)
LEMMA EmulatorTypeOK ==
    ASSUME TypeOK, EmulatorStep
    PROVE  TypeOK'
<1> USE SignalsAssumption DEF SignalsAssumption, TypeOK
<1>1. CASE SendInterruptToLifeSupport
  BY <1>1 DEF SendInterruptToLifeSupport, Broadcast, Waiting
<1>2. CASE InstallArgument
  BY <1>2 DEF InstallArgument
<1>3. CASE RemoveArgument
  BY <1>3 DEF RemoveArgument
<1>4. CASE StoreQueueSignal
  BY <1>4 DEF StoreQueueSignal
<1>5. CASE GuestStore
  BY <1>5 DEF GuestStore
<1> QED BY <1>1, <1>2, <1>3, <1>4, <1>5 DEF EmulatorStep

(* A step of the polling thread preserves the types. *)
LEMMA PollTypeOK ==
    ASSUME TypeOK, PollStep
    PROVE  TypeOK'
<1> USE SignalsAssumption DEF SignalsAssumption, TypeOK
<1>1. CASE PollTick
  BY <1>1 DEF PollTick, TickRaising, SleepNanoseconds
<1>2. CASE PollStore
  BY <1>2 DEF PollStore, Broadcast, Waiting
<1> QED BY <1>1, <1>2 DEF PollStep

(* A step of a handler thread preserves the types: a deferred signal is    *)
(* owed a call only while its handler is installed.                        *)
LEMMA HandlerTypeOK ==
    ASSUME TypeOK, NEW s \in Signal, HandlerStep(s)
    PROVE  TypeOK'
<1> USE SignalsAssumption DEF SignalsAssumption, TypeOK
<1>1. CASE HandlerCheck(s)
  BY <1>1 DEF HandlerCheck
<1>2. CASE HandlerBlock(s)
  BY <1>2 DEF HandlerBlock
<1>3. CASE HandlerClear(s)
  BY <1>3 DEF HandlerClear
<1>4. CASE HandlerLoadFunction(s)
  BY <1>4 DEF HandlerLoadFunction
<1>5. CASE HandlerLoadArgument(s)
  BY <1>5 DEF HandlerLoadArgument
<1>6. CASE HandlerReturn(s)
  BY <1>6 DEF HandlerReturn
<1>7. CASE HandlerDefer(s)
  BY <1>7 DEF HandlerDefer
<1>8. CASE SignalLater(s)
  BY <1>8 DEF SignalLater
<1> QED
  BY <1>1, <1>2, <1>3, <1>4, <1>5, <1>6, <1>7, <1>8 DEF HandlerStep

(* Every step preserves the types. *)
LEMMA NextTypeOK == TypeOK /\ [Next]_vars => TypeOK'
<1> SUFFICES ASSUME TypeOK, [Next]_vars PROVE TypeOK'
  OBVIOUS
<1>1. CASE UNCHANGED vars
  BY <1>1 DEF TypeOK, vars
<1>2. ASSUME NEW c \in Channel,
             GuestRaise(c) \/ InstallFunction(c) \/ RemoveFunction(c)
      PROVE  TypeOK'
  BY <1>2, ChannelTypeOK
<1>3. CASE EmulatorStep
  BY <1>3, EmulatorTypeOK
<1>4. CASE PollStep
  BY <1>4, PollTypeOK
<1>5. ASSUME NEW s \in Signal, HandlerStep(s) PROVE TypeOK'
  BY <1>5, HandlerTypeOK
<1> QED BY <1>1, <1>2, <1>3, <1>4, <1>5 DEF Next

(* Type correctness, for every size of the table and set of channels.      *)
THEOREM SignalsTypeCorrect == Spec => []TypeOK
  BY InitTypeOK, NextTypeOK, PTL DEF Spec

-----------------------------------------------------------------------------
(* No more than one late call *)

(* A signal without a live handler has no real function to load, and one   *)
(* loaded while it was live has not been called late yet.                  *)
LateInv ==
    \A s \in Signal :
        /\ s \in live_guest_to_host_signals => late[s] = 0
        /\ s \notin live_guest_to_host_signals => handlerFunction[s] # "real"
        /\ hPC[s] = "argument" /\ hFunction[s] = "real" => late[s] = 0
        /\ late[s] <= 1

(* The initial state satisfies it. *)
LEMMA InitLateInv == Init => LateInv
  BY DEF Init, LateInv

(* A step of the emulator thread preserves it: a signal stops being live   *)
(* in the step that replaces its function.                                 *)
LEMMA EmulatorLateInv ==
    ASSUME TypeOK, LateInv,
           \/ EmulatorStep
           \/ \E c \in Channel :
                 GuestRaise(c) \/ InstallFunction(c) \/ RemoveFunction(c)
    PROVE  LateInv'
<1> USE DEF TypeOK, LateInv
<1>1. ASSUME NEW c \in Channel, GuestRaise(c) PROVE LateInv'
  BY <1>1 DEF GuestRaise
<1>2. ASSUME NEW c \in Channel, InstallFunction(c) PROVE LateInv'
  BY <1>2 DEF InstallFunction, FreeSignals
<1>3. ASSUME NEW c \in Channel, RemoveFunction(c) PROVE LateInv'
  BY <1>3 DEF RemoveFunction, RemoveStoring
<1>4. CASE SendInterruptToLifeSupport
  BY <1>4 DEF SendInterruptToLifeSupport, Broadcast, Waiting
<1>5. CASE InstallArgument
  BY <1>5 DEF InstallArgument
<1>6. CASE RemoveArgument
  BY <1>6 DEF RemoveArgument
<1>7. CASE StoreQueueSignal
  BY <1>7 DEF StoreQueueSignal
<1>8. CASE GuestStore
  BY <1>8 DEF GuestStore
<1> QED BY <1>1, <1>2, <1>3, <1>4, <1>5, <1>6, <1>7, <1>8 DEF EmulatorStep

(* So does a step of the polling thread, ... *)
LEMMA PollLateInv ==
    ASSUME TypeOK, LateInv, PollStep
    PROVE  LateInv'
<1> USE DEF TypeOK, LateInv
<1>1. CASE PollTick
  BY <1>1 DEF PollTick, TickRaising
<1>2. CASE PollStore
  BY <1>2 DEF PollStore, Broadcast, Waiting
<1> QED BY <1>1, <1>2 DEF PollStep

(* ... and of a handler thread, whose late call leaves "argument".         *)
LEMMA HandlerLateInv ==
    ASSUME TypeOK, LateInv, NEW s \in Signal, HandlerStep(s)
    PROVE  LateInv'
<1> USE DEF TypeOK, LateInv
<1>1. CASE HandlerCheck(s)
  BY <1>1 DEF HandlerCheck
<1>2. CASE HandlerBlock(s)
  BY <1>2 DEF HandlerBlock
<1>3. CASE HandlerClear(s)
  BY <1>3 DEF HandlerClear
<1>4. CASE HandlerLoadFunction(s)
  BY <1>4 DEF HandlerLoadFunction
<1>5. CASE HandlerLoadArgument(s)
  BY <1>5 DEF HandlerLoadArgument
<1>6. CASE HandlerReturn(s)
  BY <1>6 DEF HandlerReturn
<1>7. CASE HandlerDefer(s)
  BY <1>7 DEF HandlerDefer
<1>8. CASE SignalLater(s)
  BY <1>8 DEF SignalLater
<1> QED
  BY <1>1, <1>2, <1>3, <1>4, <1>5, <1>6, <1>7, <1>8 DEF HandlerStep

(* RemoveSignalHandler: no more than one call of the removed handler       *)
(* follows, whatever the threads do.                                       *)
THEOREM OneLateCall == Spec => []AtMostOneLateCall
<1>1. TypeOK /\ LateInv /\ [Next]_vars => LateInv'
  <2> SUFFICES ASSUME TypeOK, LateInv, [Next]_vars PROVE LateInv'
    OBVIOUS
  <2>1. CASE UNCHANGED vars
    BY <2>1 DEF LateInv, vars
  <2>2. CASE Next
    BY <2>2, EmulatorLateInv, PollLateInv, HandlerLateInv DEF Next
  <2> QED BY <2>1, <2>2
<1>2. LateInv => AtMostOneLateCall
  BY DEF LateInv, AtMostOneLateCall
<1> QED BY <1>1, <1>2, InitLateInv, SignalsTypeCorrect, PTL DEF Spec

-----------------------------------------------------------------------------
(* No deferred signal is lost *)

(* Who holds signalLock, and what it is doing. *)
LockInv ==
    /\ \A s \in Signal : signalLock = s <=> hPC[s] \in {"clear", "block"}
    /\ signalLock = Polling <=> pPC = "store"
    /\ signalLock = Emulator <=> ePC \in {"installed", "removed"}

(* Every tick polls the deferred signals: no time is ever accumulated.     *)
TimeInv == pollTime = 0 /\ sleepTime = 0

(* The thread of s is past the test of its bit and will call its handler.  *)
Calling(s) == hPC[s] \in {"function", "argument"}

(* The thread of s will test the bit before it waits.                      *)
Testing(s) == hPC[s] \notin {"block", "wait"}

(* The mask a thread has computed and will store keeps every owed signal   *)
(* that is not deferred any more and that the guest has not dropped.       *)
MaskInv ==
    /\ pPC = "store" =>
          reawaken = {} /\ \A s \in owed \ dropped : s \in pMask \/ Calling(s)
    /\ \A t \in Signal : hPC[t] = "clear" =>
          \A s \in (owed \ dropped) \ {t} :
              \/ s \in reawaken
              \/ s \in hMask[t] /\ Testing(s)
              \/ Calling(s)

DeferInv == TypeOK /\ LockInv /\ TimeInv /\ MaskInv /\ DeferredNotLost

(* The threads that can hold signalLock are different, and NULL is none.   *)
LEMMA LockHolders ==
    /\ Emulator \notin Signal /\ Polling \notin Signal /\ NULL \notin Signal
    /\ Emulator # Polling /\ Emulator # NULL /\ Polling # NULL
  BY SignalsAssumption DEF SignalsAssumption, Signal

(* The initial state satisfies it: nobody holds the lock. *)
LEMMA InitDeferInv == Init => DeferInv
  BY InitTypeOK, SignalsAssumption
     DEF SignalsAssumption, Init, Signal, DeferInv, LockInv, TimeInv, MaskInv,
         DeferredNotLost

(* A step of the emulator thread preserves it: the host's mask updates     *)
(* there only add signals, what the guest's store takes away is recorded   *)
(* as dropped, and a signal leaves `reawaken' only with its handler.       *)
LEMMA EmulatorDeferInv ==
    ASSUME DeferInv, TypeOK',
           \/ EmulatorStep
           \/ \E c \in Channel :
                 GuestRaise(c) \/ InstallFunction(c) \/ RemoveFunction(c)
    PROVE  DeferInv'
<1> USE LockHolders
    DEF DeferInv, TypeOK, LockInv, TimeInv, MaskInv, DeferredNotLost, Calling,
        Testing
<1>1. ASSUME NEW c \in Channel, GuestRaise(c) PROVE DeferInv'
  BY <1>1 DEF GuestRaise
<1>2. ASSUME NEW c \in Channel, InstallFunction(c) PROVE DeferInv'
  BY <1>2 DEF InstallFunction
<1>3. ASSUME NEW c \in Channel, RemoveFunction(c) PROVE DeferInv'
  BY <1>3 DEF RemoveFunction, RemoveStoring
<1>4. CASE SendInterruptToLifeSupport
  BY <1>4 DEF SendInterruptToLifeSupport, Broadcast, Waiting
<1>5. CASE InstallArgument
  BY <1>5 DEF InstallArgument
<1>6. CASE RemoveArgument
  BY <1>6 DEF RemoveArgument
<1>7. CASE StoreQueueSignal
  BY <1>7 DEF StoreQueueSignal
<1>8. CASE GuestStore
  BY <1>8 DEF GuestStore
<1> QED BY <1>1, <1>2, <1>3, <1>4, <1>5, <1>6, <1>7, <1>8 DEF EmulatorStep

(* So does a step of the polling thread: the tick moves the deferred       *)
(* signals into its mask, and its store is followed by the broadcast.      *)
LEMMA PollDeferInv ==
    ASSUME DeferInv, TypeOK', PollStep
    PROVE  DeferInv'
<1> USE LockHolders
    DEF DeferInv, TypeOK, LockInv, TimeInv, MaskInv, DeferredNotLost, Calling,
        Testing
<1>1. CASE PollTick
  <2>1. /\ pPC = "sleep" /\ signalLock = NULL
        /\ pollTime' = 0 /\ sleepTime' = 0 /\ reawaken' = {}
        /\ \/ /\ pMask' = guest_to_host_signals \cup reawaken
              /\ signalLock' = Polling /\ pPC' = "store"
           \/ /\ reawaken = {}
              /\ UNCHANGED <<pMask, signalLock, pPC>>
        /\ UNCHANGED <<guest_to_host_signals, ePC, hPC, hMask, owed, dropped>>
    BY <1>1 DEF PollTick, TickRaising, SleepNanoseconds, OneQuarterSecond
  <2>2. \A s \in owed \ dropped :
          s \in reawaken \/ s \in guest_to_host_signals \/ Calling(s)
    BY <2>1
  <2>3. \A s \in Signal : hPC[s] # "clear" /\ hPC[s] # "block"
    BY <2>1
  <2>4. LockInv' /\ TimeInv'
    BY <2>1, <2>3
  <2>5. MaskInv'
    BY <2>1, <2>2, <2>3
  <2>6. DeferredNotLost'
    BY <2>1
  <2> QED BY <2>4, <2>5, <2>6
<1>2. CASE PollStore
  <2>1. /\ pPC = "store" /\ guest_to_host_signals' = pMask
        /\ signalLock' = NULL /\ pPC' = "sleep"
        /\ UNCHANGED <<reawaken, ePC, pollTime, sleepTime, hMask, owed, dropped>>
    BY <1>2 DEF PollStore
  <2>2. hPC' = [s \in Signal |-> IF hPC[s] = "wait" THEN "lock" ELSE hPC[s]]
    BY <1>2 DEF PollStore, Broadcast, Waiting
  <2>3. \A s \in Signal : hPC[s] # "clear" /\ hPC[s] # "block"
    BY <2>1
  <2>4. \A s \in Signal :
          /\ hPC'[s] \notin {"clear", "block", "wait"}
          /\ Calling(s) => hPC'[s] = hPC[s]
    BY <2>2, <2>3
  <2>5. signalLock = Polling /\ ePC \notin {"installed", "removed"}
    BY <2>1
  <2>6. \A s \in owed \ dropped : s \in pMask \/ Calling(s)
    BY <2>1
  <2>7. LockInv' /\ TimeInv'
    BY <2>1, <2>4, <2>5
  <2>8. MaskInv'
    BY <2>1, <2>4
  <2>9. DeferredNotLost'
    BY <2>1, <2>4, <2>6
  <2> QED BY <2>7, <2>8, <2>9
<1> QED BY <1>1, <1>2 DEF PollStep

(* So does a step of a handler thread: it waits only after a test under    *)
(* the lock, and the mask it stores drops no signal but its own.           *)
LEMMA HandlerDeferInv ==
    ASSUME DeferInv, TypeOK', NEW s \in Signal, HandlerStep(s)
    PROVE  DeferInv'
<1> USE LockHolders
    DEF DeferInv, TypeOK, LockInv, TimeInv, MaskInv, DeferredNotLost, Calling,
        Testing
<1>1. CASE HandlerCheck(s)
  <2>1. /\ hPC[s] = "lock" /\ signalLock = NULL /\ signalLock' = s
        /\ hMask' = [hMask EXCEPT ![s] = guest_to_host_signals \ {s}]
        /\ hPC' = [hPC EXCEPT ![s] =
                    IF s \in guest_to_host_signals THEN "clear" ELSE "block"]
        /\ UNCHANGED <<guest_to_host_signals, reawaken, ePC, pollTime, sleepTime,
                       pPC, pMask, owed, dropped>>
    BY <1>1 DEF HandlerCheck
  <2>2. pPC # "store" /\ \A t \in Signal : hPC[t] # "clear" /\ hPC[t] # "block"
    BY <2>1
  <2>3. LockInv' /\ TimeInv'
    BY <2>1, <2>2
  <2>4. MaskInv'
    BY <2>1, <2>2
  <2>5. DeferredNotLost'
    BY <2>1, <2>2
  <2> QED BY <2>3, <2>4, <2>5
<1>2. CASE HandlerBlock(s)
  <2>1. /\ hPC[s] = "block" /\ signalLock' = NULL
        /\ hMask' = [hMask EXCEPT ![s] = {}]
        /\ hPC' = [hPC EXCEPT ![s] = "wait"]
        /\ UNCHANGED <<guest_to_host_signals, reawaken, ePC, pollTime, sleepTime,
                       pPC, pMask, owed, dropped>>
    BY <1>2 DEF HandlerBlock
  <2>2. signalLock = s /\ pPC # "store"
    BY <2>1
  <2>3. \A t \in Signal \ {s} : hPC'[t] = hPC[t] /\ hPC[t] # "clear" /\ hPC[t] # "block"
    BY <2>1, <2>2
  <2>4. LockInv' /\ TimeInv'
    BY <2>1, <2>2, <2>3
  <2>5. MaskInv'
    BY <2>1, <2>2, <2>3
  <2>6. DeferredNotLost'
    BY <2>1, <2>2, <2>3
  <2> QED BY <2>4, <2>5, <2>6
<1>3. CASE HandlerClear(s)
  <2>1. /\ hPC[s] = "clear" /\ signalLock' = NULL
        /\ guest_to_host_signals' = hMask[s]
        /\ hMask' = [hMask EXCEPT ![s] = {}]
        /\ hPC' = [hPC EXCEPT ![s] = "function"]
        /\ UNCHANGED <<reawaken, ePC, pollTime, sleepTime, pPC, pMask, owed, dropped>>
    BY <1>3 DEF HandlerClear
  <2>2. signalLock = s /\ pPC # "store"
    BY <2>1
  <2>3. \A t \in Signal \ {s} : hPC'[t] = hPC[t] /\ hPC[t] # "clear" /\ hPC[t] # "block"
    BY <2>1, <2>2
  <2>4. LockInv' /\ TimeInv'
    BY <2>1, <2>2, <2>3
  <2>5. MaskInv'
    BY <2>1, <2>2, <2>3
  <2>6. DeferredNotLost'
    BY <2>1, <2>2, <2>3
  <2> QED BY <2>4, <2>5, <2>6
<1>4. CASE HandlerLoadFunction(s)
  BY <1>4 DEF HandlerLoadFunction
<1>5. CASE HandlerLoadArgument(s)
  BY <1>5 DEF HandlerLoadArgument
<1>6. CASE HandlerReturn(s)
  BY <1>6 DEF HandlerReturn
<1>7. CASE HandlerDefer(s)
  BY <1>7 DEF HandlerDefer
<1>8. CASE SignalLater(s)
  BY <1>8 DEF SignalLater
<1> QED
  BY <1>1, <1>2, <1>3, <1>4, <1>5, <1>6, <1>7, <1>8 DEF HandlerStep

(* A handler that called SignalLater is on its way to being called again,  *)
(* for every size of the table and set of channels.                        *)
THEOREM DeferredKept == Spec => []DeferredNotLost
<1>1. DeferInv /\ [Next]_vars => DeferInv'
  <2> SUFFICES ASSUME DeferInv, [Next]_vars PROVE DeferInv'
    OBVIOUS
  <2>1. TypeOK'
    BY NextTypeOK DEF DeferInv
  <2>2. CASE UNCHANGED vars
    BY <2>1, <2>2 DEF DeferInv, LockInv, TimeInv, MaskInv, DeferredNotLost,
                     Calling, Testing, vars
  <2>3. CASE Next
    BY <2>1, <2>3, EmulatorDeferInv, PollDeferInv, HandlerDeferInv DEF Next
  <2> QED BY <2>2, <2>3
<1>2. DeferInv => DeferredNotLost
  BY DEF DeferInv
<1> QED BY <1>1, <1>2, InitDeferInv, PTL DEF Spec

-----------------------------------------------------------------------------
(* Queues *)

(* How many elements a queue holds, and its indexes. *)
LEMMA RingCounts ==
  ASSUME NEW E, NEW space \in Nat \ {0}, NEW q \in RingOf(space, E)
  PROVE  /\ EmbQueueFilled(q) \in 0 .. space
         /\ EmbQueueSpace(q) = space - EmbQueueFilled(q)
         /\ EmbQueueFilled(q) = 0 <=> q.put_index = q.take_index
         /\ EmbQueueFilled(q) = space <=> After(q, q.put_index) = q.take_index
         /\ \A i \in 0 .. space : After(q, i) \in 0 .. space
  BY DEF RingOf, EmbQueueFilled, EmbQueueSpace, After

(* The slot of the element i of a queue. *)
Slot(q, i) == LET at == q.take_index + i - 1
              IN  IF at < q.queue_size THEN at ELSE at - q.queue_size

LEMMA RingElements ==
  ASSUME NEW E, NEW space \in Nat \ {0}, NEW q \in RingOf(space, E)
  PROVE  /\ Elements(q) \in Seq(E)
         /\ Len(Elements(q)) = EmbQueueFilled(q)
         /\ Elements(q) = <<>> <=> EmbQueueFilled(q) = 0
         /\ \A i \in 1 .. EmbQueueFilled(q) :
               Slot(q, i) \in 0 .. space /\ Elements(q)[i] = q.element[Slot(q, i)]
<1>1. EmbQueueFilled(q) \in 0 .. space
  BY RingCounts
<1>2. \A i \in 1 .. EmbQueueFilled(q) : Slot(q, i) \in 0 .. space
  BY <1>1 DEF RingOf, Slot
<1>3. Elements(q) = [i \in 1 .. EmbQueueFilled(q) |-> q.element[Slot(q, i)]]
  BY DEF Elements, Slot
<1>4. \A i \in 1 .. EmbQueueFilled(q) : q.element[Slot(q, i)] \in E
  BY <1>2 DEF RingOf
<1> HIDE DEF Slot
<1> QED BY <1>1, <1>2, <1>3, <1>4

(* Two queues hold the same when they have the same slots in use. *)
LEMMA RingSame ==
  ASSUME NEW E, NEW space \in Nat \ {0}, NEW q \in RingOf(space, E), NEW r \in RingOf(space, E),
         NEW s \in Seq(E), EmbQueueFilled(r) = Len(s),
         \A i \in 1 .. Len(s) : r.element[Slot(r, i)] = s[i]
  PROVE  Elements(r) = s
<1>1. /\ Elements(r) \in Seq(E) /\ Len(Elements(r)) = Len(s)
      /\ \A i \in 1 .. Len(s) : Elements(r)[i] = s[i]
  BY RingElements
<1> QED BY <1>1

LEMMA RingNew ==
  ASSUME NEW E, NEW space \in Nat \ {0}, NEW zero \in E
  PROVE  /\ NewQueue(space, zero) \in RingOf(space, E)
         /\ Elements(NewQueue(space, zero)) = <<>>
<1>1. NewQueue(space, zero) \in RingOf(space, E) /\ EmbQueueFilled(NewQueue(space, zero)) = 0
  BY DEF NewQueue, RingOf, EmbQueueFilled
<1> QED BY <1>1, RingElements

(* Filling a slot leaves the contents alone. *)
LEMMA RingFilling ==
  ASSUME NEW E, NEW space \in Nat \ {0}, NEW q \in RingOf(space, E), NEW e \in E
  PROVE  /\ Filling(q, e) \in RingOf(space, E)
         /\ Elements(Filling(q, e)) = Elements(q)
         /\ Filling(q, e).put_index = q.put_index
         /\ Filling(q, e).take_index = q.take_index
         /\ Filling(q, e).element[q.put_index] = e
<1> DEFINE r == Filling(q, e)
<1>1. /\ r \in RingOf(space, E) /\ r.put_index = q.put_index /\ r.take_index = q.take_index
      /\ r.queue_size = q.queue_size /\ r.element[q.put_index] = e
      /\ \A i \in 0 .. space : i # q.put_index => r.element[i] = q.element[i]
  BY DEF RingOf, Filling
<1> HIDE DEF r
<1>2. EmbQueueFilled(r) = EmbQueueFilled(q)
  BY <1>1 DEF EmbQueueFilled
<1>3. \A i \in 1 .. EmbQueueFilled(q) : Slot(r, i) = Slot(q, i) /\ Slot(q, i) # q.put_index
  BY <1>1 DEF EmbQueueFilled, Slot, RingOf
<1>4. \A i \in 1 .. EmbQueueFilled(q) : r.element[Slot(r, i)] = Elements(q)[i]
  BY <1>1, <1>3, RingElements
<1>5. Elements(r) = Elements(q)
  BY <1>1, <1>2, <1>4, RingElements, RingSame
<1> QED BY <1>1, <1>5 DEF r

(* The store of the put index appends the element in the slot, ... *)
LEMMA RingStorePut ==
  ASSUME NEW E, NEW space \in Nat \ {0}, NEW q \in RingOf(space, E),
         EmbQueueFilled(q) # space
  PROVE  /\ StorePutIndex(q, After(q, q.put_index)) \in RingOf(space, E)
         /\ Elements(StorePutIndex(q, After(q, q.put_index)))
               = Append(Elements(q), q.element[q.put_index])
<1> DEFINE r == StorePutIndex(q, After(q, q.put_index))
           e == q.element[q.put_index]
<1>1. /\ r \in RingOf(space, E) /\ r.put_index = After(q, q.put_index)
      /\ r.take_index = q.take_index /\ r.queue_size = q.queue_size /\ r.element = q.element
      /\ e \in E
  BY RingCounts DEF RingOf, StorePutIndex
<1> HIDE DEF r, e
<1>2. EmbQueueFilled(q) \in 0 .. space /\ After(q, q.put_index) # q.take_index
  BY RingCounts
<1>3. EmbQueueFilled(r) = EmbQueueFilled(q) + 1
  BY <1>1, <1>2 DEF EmbQueueFilled, After, RingOf
<1>4. \A i \in 1 .. EmbQueueFilled(r) : Slot(r, i) = Slot(q, i)
  BY <1>1 DEF Slot
<1>5. Slot(q, EmbQueueFilled(q) + 1) = q.put_index
  BY <1>2 DEF Slot, EmbQueueFilled, RingOf
<1>6. /\ Append(Elements(q), e) \in Seq(E) /\ Len(Append(Elements(q), e)) = EmbQueueFilled(r)
      /\ Append(Elements(q), e)[EmbQueueFilled(q) + 1] = e
      /\ \A i \in 1 .. EmbQueueFilled(q) : Append(Elements(q), e)[i] = q.element[Slot(q, i)]
  BY <1>1, <1>2, <1>3, RingElements
<1>7. \A i \in 1 .. EmbQueueFilled(r) : i \in 1 .. EmbQueueFilled(q) \/ i = EmbQueueFilled(q) + 1
  BY <1>2, <1>3
<1>8. \A i \in 1 .. EmbQueueFilled(r) : r.element[Slot(r, i)] = Append(Elements(q), e)[i]
  BY <1>1, <1>4, <1>5, <1>6, <1>7 DEF e
<1>9. Elements(r) = Append(Elements(q), e)
  BY <1>1, <1>6, <1>8, RingSame
<1> QED BY <1>1, <1>9 DEF r, e

(* ... the store of the take index removes the first, ... *)
LEMMA RingStoreTake ==
  ASSUME NEW E, NEW space \in Nat \ {0}, NEW q \in RingOf(space, E),
         EmbQueueFilled(q) # 0
  PROVE  /\ StoreTakeIndex(q, After(q, q.take_index)) \in RingOf(space, E)
         /\ Elements(StoreTakeIndex(q, After(q, q.take_index))) = Tail(Elements(q))
         /\ First(q) = Head(Elements(q)) /\ Elements(q) # <<>>
<1> DEFINE r == StoreTakeIndex(q, After(q, q.take_index))
<1>1. /\ r \in RingOf(space, E) /\ r.take_index = After(q, q.take_index)
      /\ r.put_index = q.put_index /\ r.queue_size = q.queue_size /\ r.element = q.element
  <2>1. q.take_index \in 0 .. space
    BY DEF RingOf
  <2> QED BY <2>1, RingCounts DEF RingOf, StoreTakeIndex
<1> HIDE DEF r
<1>2. EmbQueueFilled(q) \in 1 .. space /\ q.put_index # q.take_index
  BY RingCounts
<1>3. EmbQueueFilled(r) = EmbQueueFilled(q) - 1
  BY <1>1, <1>2 DEF EmbQueueFilled, After, RingOf
<1>4. \A i \in 1 .. EmbQueueFilled(r) : Slot(r, i) = Slot(q, i + 1) /\ i + 1 \in 1 .. EmbQueueFilled(q)
  BY <1>1, <1>2, <1>3 DEF Slot, RingOf, After
<1>5. /\ Elements(q) \in Seq(E) /\ Len(Elements(q)) = EmbQueueFilled(q) /\ Elements(q) # <<>>
      /\ \A i \in 1 .. EmbQueueFilled(q) : Elements(q)[i] = q.element[Slot(q, i)]
  BY <1>2, RingElements
<1> DEFINE s == Elements(q)
<1> HIDE DEF s
<1>6. /\ Tail(s) \in Seq(E) /\ Len(Tail(s)) = EmbQueueFilled(r)
      /\ \A i \in 1 .. EmbQueueFilled(r) : Tail(s)[i] = s[i + 1]
      /\ Head(s) = s[1]
  BY <1>2, <1>3, <1>5 DEF s
<1>7. \A i \in 1 .. EmbQueueFilled(r) : r.element[Slot(r, i)] = Tail(s)[i]
  BY <1>1, <1>4, <1>5, <1>6 DEF s
<1>8. Elements(r) = Tail(s)
  BY <1>1, <1>6, <1>7, RingSame
<1>9. Slot(q, 1) = q.take_index /\ 1 \in 1 .. EmbQueueFilled(q)
  BY <1>2 DEF Slot, RingOf
<1> QED BY <1>1, <1>5, <1>6, <1>8, <1>9 DEF r, s, First

(* ... and the two stores of a reset leave nothing. *)
LEMMA RingReset ==
  ASSUME NEW E, NEW space \in Nat \ {0}, NEW q \in RingOf(space, E)
  PROVE  /\ StorePutIndex(q, 0) \in RingOf(space, E) /\ StorePutIndex(q, 0).put_index = 0
         /\ StoreTakeIndex(q, 0) \in RingOf(space, E)
         /\ StoreTakeIndex(q, 0).put_index = q.put_index
         /\ q.put_index = 0 => Elements(StoreTakeIndex(q, 0)) = <<>>
<1>1. /\ StorePutIndex(q, 0) \in RingOf(space, E) /\ StorePutIndex(q, 0).put_index = 0
      /\ StoreTakeIndex(q, 0) \in RingOf(space, E)
      /\ StoreTakeIndex(q, 0).put_index = q.put_index
      /\ StoreTakeIndex(q, 0).take_index = 0
  BY DEF RingOf, StorePutIndex, StoreTakeIndex
<1>2. q.put_index = 0 => EmbQueueFilled(StoreTakeIndex(q, 0)) = 0
  BY <1>1, RingCounts
<1> QED BY <1>1, <1>2, RingElements

(* Whatever index a thread has loaded, its stores keep the queue's type.   *)
LEMMA RingStores ==
  ASSUME NEW E, NEW space \in Nat \ {0}, NEW q \in RingOf(space, E), NEW i \in 0 .. space
  PROVE  /\ StorePutIndex(q, After(q, i)) \in RingOf(space, E)
         /\ StoreTakeIndex(q, After(q, i)) \in RingOf(space, E)
         /\ StorePutIndex(q, 0) \in RingOf(space, E)
         /\ StoreTakeIndex(q, 0) \in RingOf(space, E)
         /\ First(q) \in E /\ q.element[i] \in E
         /\ q.put_index \in 0 .. space /\ q.take_index \in 0 .. space
<1>1. After(q, i) \in 0 .. space
  BY RingCounts
<1> QED BY <1>1 DEF RingOf, StorePutIndex, StoreTakeIndex, First

(* The guest's put and take, which nothing comes between. *)
LEMMA RingPut ==
  ASSUME NEW E, NEW space \in Nat \ {0}, NEW q \in RingOf(space, E), NEW e \in E,
         EmbQueueSpace(q) > 0
  PROVE  /\ Put(q, e) \in RingOf(space, E) /\ Put(q, e).take_index = q.take_index
         /\ Elements(Put(q, e)) = Append(Elements(q), e)
<1> DEFINE f == Filling(q, e)
<1>1. Put(q, e) = StorePutIndex(f, After(f, f.put_index)) /\ Put(q, e).take_index = q.take_index
  BY DEF Put, StorePutIndex, After, Filling, RingOf
<1>2. /\ f \in RingOf(space, E) /\ Elements(f) = Elements(q) /\ f.element[f.put_index] = e
  BY RingFilling
<1>3. EmbQueueFilled(q) # space
  BY RingCounts
<1> HIDE DEF f
<1>4. EmbQueueFilled(f) # space
  BY <1>2, <1>3, RingElements
<1> QED BY <1>1, <1>2, <1>4, RingStorePut

LEMMA RingTake ==
  ASSUME NEW E, NEW space \in Nat \ {0}, NEW q \in RingOf(space, E), EmbQueueFilled(q) > 0
  PROVE  /\ Take(q) \in RingOf(space, E) /\ Take(q).put_index = q.put_index
         /\ Take(q).element = q.element
         /\ Elements(Take(q)) = Tail(Elements(q))
         /\ First(q) = Head(Elements(q)) /\ Elements(q) # <<>>
<1>1. /\ Take(q) = StoreTakeIndex(q, After(q, q.take_index))
      /\ Take(q).put_index = q.put_index /\ Take(q).element = q.element
  BY DEF Take, StoreTakeIndex, RingOf
<1>2. EmbQueueFilled(q) # 0
  OBVIOUS
<1> QED BY <1>1, <1>2, RingStoreTake
=============================================================================
