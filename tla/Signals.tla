------------------------------- MODULE Signals -------------------------------
(***************************************************************************)
(* Guest-to-host signals: the masks, signalLock and the handler threads of *)
(* life-support/signals.c, and the part of IvoryLifePolling in polling.c   *)
(* that wakes handlers again.  Threads: the emulator (the guest raising    *)
(* signals, and the coprocessor calls that install and remove handlers),   *)
(* the polling thread, and one handler thread per signal.                  *)
(*                                                                         *)
(* Taking signalLock is one step with the first access under it.  What is  *)
(* done while holding it is split where a thread without the lock can get  *)
(* in between: the guest updates its mask without it (a mask update of the *)
(* host is a load and a store), SendInterruptToLifeSupport broadcasts      *)
(* without it, and a handler thread loads its function and argument        *)
(* without it.                                                             *)
(***************************************************************************)
EXTENDS Integers, FiniteSets

CONSTANTS NSignals, \* size of the signal table (32 in embed.h)
          Channel,  \* handler arguments: channels with an incoming queue
          Emulator, Polling, \* the two threads that are not handler threads
          NULL      \* the NULL argument, and "nobody" for signalLock

ASSUME SignalsAssumption ==
    /\ NSignals \in Nat \ {0}
    /\ NULL \notin Channel
    /\ {Emulator, Polling, NULL} \cap (0 .. NSignals - 1) = {}
    /\ Emulator # Polling /\ Emulator # NULL /\ Polling # NULL

Signal == 0 .. NSignals - 1

VARIABLES
  guest_to_host_signals, live_guest_to_host_signals, reawaken,  \* sets of signals
  signalLock,          \* its holder: Emulator, Polling, a signal's thread or NULL
  handlerFunction,     \* [Signal -> {"none", "real", "null"}]
  handlerArgument,     \* [Signal -> Channel \cup {NULL}]
  queueSignal,         \* [Channel -> signal number or -1]: the queue's signal field
  pollTime, sleepTime, \* the polling thread's accumulated time and its last sleep
  ePC, eChannel, eSignal, \* the emulator thread, its channel and signal number
  eMask,               \* the mask the guest has computed
  pPC, pMask,          \* the polling thread and the mask it has computed
  hPC, hMask,          \* the handler threads: place and computed mask
  hFunction, hArgument,\* what each is about to call or is calling
  hLater,              \* the signal number a deferring handler gives SignalLater
  owed,                \* history: signals SignalLater was called for since their last call
  dropped,             \* history: those whose bit the guest's own store has cleared
  late                 \* history: calls of a removed handler since its removal, capped at 2

masks     == <<guest_to_host_signals, live_guest_to_host_signals, reawaken>>
table     == <<handlerFunction, handlerArgument, queueSignal>>
emulator  == <<ePC, eChannel, eSignal, eMask>>
polling   == <<pollTime, sleepTime, pPC, pMask>>
handlers  == <<hPC, hMask, hFunction, hArgument, hLater>>
history   == <<owed, dropped, late>>
vars == <<masks, signalLock, table, emulator, polling, handlers, history>>

(* Polling times in quarters of a second; OneQuarterSecond is 1.           *)
OneQuarterSecond == 1

(* Threads blocked in pthread_cond_wait on signalSignal. *)
Waiting == {s \in Signal : hPC[s] = "wait"}

(* pthread_cond_broadcast: every waiter goes on to relock signalLock.      *)
Broadcast == hPC' = [s \in Signal |-> IF s \in Waiting THEN "lock" ELSE hPC[s]]

Init ==
    /\ guest_to_host_signals = {} /\ live_guest_to_host_signals = {}
    /\ reawaken = {}
    /\ signalLock = NULL
    /\ handlerFunction = [s \in Signal |-> "none"]
    /\ handlerArgument = [s \in Signal |-> NULL]
    /\ queueSignal = [c \in Channel |-> -1]
    /\ pollTime = 0 /\ sleepTime = 0
    /\ ePC = "run" /\ eChannel = NULL /\ eSignal = -1 /\ eMask = {}
    /\ pPC = "sleep" /\ pMask = {}
    /\ hPC = [s \in Signal |-> "none"]
    /\ hMask = [s \in Signal |-> {}]
    /\ hFunction = [s \in Signal |-> "none"]
    /\ hArgument = [s \in Signal |-> NULL]
    /\ hLater = [s \in Signal |-> -1]
    /\ owed = {} /\ dropped = {} /\ late = [s \in Signal |-> 0]

-----------------------------------------------------------------------------
(* The emulator thread *)

(* The guest put an element into channel c's empty queue: it sets the      *)
(* queue's bit, without the lock (its code is external): a load ...        *)
GuestRaise(c) ==
    /\ ePC = "run"
    /\ queueSignal[c] # -1
    /\ eMask' = guest_to_host_signals \cup {queueSignal[c]}
    /\ ePC' = "raising"
    /\ UNCHANGED <<masks, signalLock, table, eChannel, eSignal, polling, handlers,
                   history>>

(* ... and a store, which drops the bits the host has set in between ...   *)
GuestStore ==
    /\ ePC = "raising"
    /\ guest_to_host_signals' = eMask
    /\ dropped' = dropped \cup ((owed \ reawaken) \cap (guest_to_host_signals \ eMask))
    /\ ePC' = "interrupt" /\ eMask' = {}
    /\ UNCHANGED <<live_guest_to_host_signals, reawaken, signalLock, table,
                   eChannel, eSignal, polling, handlers, owed, late>>

(* ... and writes the HostInterrupt register: SendInterruptToLifeSupport.  *)
SendInterruptToLifeSupport ==
    /\ ePC = "interrupt"
    /\ Broadcast
    /\ ePC' = "run"
    /\ UNCHANGED <<masks, signalLock, table, eChannel, eSignal, eMask,
                   polling, hMask,
                   hFunction, hArgument, hLater, history>>

(* Mutant: the search counts from 1. *)
FreeSignalsFromOne == (1 .. NSignals) \ live_guest_to_host_signals

(* The signals InstallSignalHandler's search can take. *)
FreeSignals == Signal \ live_guest_to_host_signals

(* InstallSignalHandler for channel c (AttachDiskChannel).  The first      *)
(* signal that is not live is taken; a full table ends the program (vpunt) *)
(* and is out of the model.                                                *)
InstallFunction(c) ==
    /\ ePC = "run" /\ queueSignal[c] = -1
    /\ signalLock = NULL
    /\ \E s \in FreeSignals :
          /\ \A i \in FreeSignals : s <= i
          /\ live_guest_to_host_signals' = live_guest_to_host_signals \cup {s}
          /\ handlerFunction' = [handlerFunction EXCEPT ![s] = "real"]
          /\ late' = [late EXCEPT ![s] = 0]
          /\ eSignal' = s
    /\ signalLock' = Emulator
    /\ ePC' = "installed" /\ eChannel' = c
    /\ UNCHANGED <<guest_to_host_signals, reawaken, handlerArgument, queueSignal,
                   eMask, polling, handlers, owed, dropped>>

(* The argument is stored, the thread created on first use, and the lock   *)
(* released.                                                               *)
InstallArgument ==
    /\ ePC = "installed"
    /\ handlerArgument' = [handlerArgument EXCEPT ![eSignal] = eChannel]
    /\ hPC' = [hPC EXCEPT ![eSignal] = IF @ = "none" THEN "lock" ELSE @]
    /\ signalLock' = NULL
    /\ ePC' = "return"
    /\ UNCHANGED <<masks, handlerFunction, queueSignal, eChannel, eSignal, eMask,
                   polling, hMask, hFunction, hArgument, hLater, history>>

(* RemoveSignalHandler for channel c (DetachDiskChannel): the masks are    *)
(* cleared, "a last interrupt" is left pending (by the emulator thread     *)
(* itself, which is the one that runs the guest) and the function becomes  *)
(* fn ...                                                                  *)
RemoveStoring(c, fn) ==
    /\ ePC = "run" /\ queueSignal[c] # -1
    /\ signalLock = NULL
    /\ LET s == queueSignal[c]
       IN  /\ live_guest_to_host_signals' = live_guest_to_host_signals \ {s}
           /\ reawaken' = reawaken \ {s}
           /\ guest_to_host_signals' = guest_to_host_signals \cup {s}
           /\ handlerFunction' = [handlerFunction EXCEPT ![s] = fn]
           /\ owed' = owed \ {s} /\ dropped' = dropped \ {s}
           /\ eSignal' = s
    /\ signalLock' = Emulator
    /\ ePC' = "removed" /\ eChannel' = c
    /\ UNCHANGED <<handlerArgument, queueSignal, eMask, polling, handlers, late>>

(* Mutant: the removed handler keeps its function. *)
RemoveFunctionKept(c) == RemoveStoring(c, "real")

(* ... NullSignalHandler, ... *)
RemoveFunction(c) == RemoveStoring(c, "null")

(* ... then the argument is cleared and the lock released.                 *)
RemoveArgument ==
    /\ ePC = "removed"
    /\ handlerArgument' = [handlerArgument EXCEPT ![eSignal] = NULL]
    /\ signalLock' = NULL
    /\ eSignal' = -1
    /\ ePC' = "return"
    /\ UNCHANGED <<masks, handlerFunction, queueSignal, eChannel, eMask, polling,
                   handlers, history>>

(* The caller stores the signal number, or -1, in the channel's queue.     *)
StoreQueueSignal ==
    /\ ePC = "return"
    /\ queueSignal' = [queueSignal EXCEPT ![eChannel] = eSignal]
    /\ ePC' = "run" /\ eChannel' = NULL /\ eSignal' = -1
    /\ UNCHANGED <<masks, signalLock, handlerFunction, handlerArgument, eMask,
                   polling, handlers, history>>

EmulatorStep ==
    \/ GuestStore \/ SendInterruptToLifeSupport
    \/ InstallArgument \/ RemoveArgument \/ StoreQueueSignal

-----------------------------------------------------------------------------
(* The polling thread: one pass of IvoryLifePolling's loop.  PollMessage-  *)
(* Channels and ProcessResetRequest are other modules.                     *)

(* What pollTime is told of the coming sleep: pollingSleep is overwritten  *)
(* with one second and zero nanoseconds, and only tv_nsec is accumulated.  *)
SleepNanoseconds == 0

(* The branch of the tick.  The signals to raise are all live ones once    *)
(* the time has come, otherwise the deferred ones; raising them starts     *)
(* with a load of the mask.                                                *)
TickRaising(deferred) ==
    /\ pPC = "sleep"
    /\ signalLock = NULL
    /\ LET elapsed == pollTime + sleepTime
           due     == elapsed > OneQuarterSecond
           raised  == IF due THEN live_guest_to_host_signals ELSE deferred
       IN  /\ pollTime' = IF due THEN 0 ELSE elapsed
           /\ reawaken' = IF due THEN reawaken ELSE {}
           /\ IF due \/ deferred # {}
              THEN /\ pMask' = guest_to_host_signals \cup raised
                   /\ signalLock' = Polling
                   /\ pPC' = "store"
              ELSE UNCHANGED <<pMask, signalLock, pPC>>
    /\ sleepTime' = SleepNanoseconds
    /\ UNCHANGED <<guest_to_host_signals, live_guest_to_host_signals, table,
                   emulator, handlers, history>>

(* Mutant: the deferred signals are cleared but not raised. *)
PollTickForgetful == TickRaising({})

PollTick == TickRaising(reawaken)

(* ... ends with a store; every waiting handler is woken and the lock      *)
(* released.                                                               *)
PollStore ==
    /\ pPC = "store"
    /\ guest_to_host_signals' = pMask
    /\ Broadcast
    /\ signalLock' = NULL
    /\ pPC' = "sleep" /\ pMask' = {}
    /\ UNCHANGED <<live_guest_to_host_signals, reawaken, table, emulator, pollTime,
                   sleepTime, hMask, hFunction, hArgument, hLater, history>>

PollStep == PollTick \/ PollStore

-----------------------------------------------------------------------------
(* SignalHandlerTopLevel, the thread of signal s *)

(* Acquire signalLock (at the start, after a call, or out of cond_wait),   *)
(* load the mask and test the signal's bit.                                *)
HandlerCheck(s) ==
    /\ hPC[s] = "lock"
    /\ signalLock = NULL
    /\ signalLock' = s
    /\ hMask' = [hMask EXCEPT ![s] = guest_to_host_signals \ {s}]
    /\ hPC' = [hPC EXCEPT ![s] =
                 IF s \in guest_to_host_signals THEN "clear" ELSE "block"]
    /\ UNCHANGED <<masks, table, emulator, polling, hFunction, hArgument, hLater,
                   history>>

(* Enter pthread_cond_wait, which releases the lock. *)
HandlerBlock(s) ==
    /\ hPC[s] = "block"
    /\ signalLock' = NULL
    /\ hPC' = [hPC EXCEPT ![s] = "wait"]
    /\ hMask' = [hMask EXCEPT ![s] = {}]
    /\ UNCHANGED <<masks, table, emulator, polling, hFunction, hArgument, hLater,
                   history>>

(* Store the mask with the bit cleared and release the lock. *)
HandlerClear(s) ==
    /\ hPC[s] = "clear"
    /\ guest_to_host_signals' = hMask[s]
    /\ signalLock' = NULL
    /\ hPC' = [hPC EXCEPT ![s] = "function"]
    /\ hMask' = [hMask EXCEPT ![s] = {}]
    /\ UNCHANGED <<live_guest_to_host_signals, reawaken, table, emulator, polling,
                   hFunction, hArgument, hLater, history>>

(* Evaluate the call without the lock: the function, then the argument.    *)
HandlerLoadFunction(s) ==
    /\ hPC[s] = "function"
    /\ hFunction' = [hFunction EXCEPT ![s] = handlerFunction[s]]
    /\ hPC' = [hPC EXCEPT ![s] = "argument"]
    /\ UNCHANGED <<masks, signalLock, table, emulator, polling, hMask, hArgument,
                   hLater, history>>

HandlerLoadArgument(s) ==
    /\ hPC[s] = "argument"
    /\ hArgument' = [hArgument EXCEPT ![s] = handlerArgument[s]]
    /\ hPC' = [hPC EXCEPT ![s] = "call"]
    /\ owed' = owed \ {s} /\ dropped' = dropped \ {s}
    /\ late' = [late EXCEPT ![s] =
                  IF hFunction[s] = "real" /\ s \notin live_guest_to_host_signals
                     /\ @ < 2
                  THEN @ + 1 ELSE @]
    /\ UNCHANGED <<masks, signalLock, table, emulator, polling, hMask, hFunction,
                   hLater>>

(* The function returns: NullSignalHandler at once, a real one when its    *)
(* queue is empty.                                                         *)
HandlerReturn(s) ==
    /\ hPC[s] = "call"
    /\ hPC' = [hPC EXCEPT ![s] = "lock"]
    /\ hFunction' = [hFunction EXCEPT ![s] = "none"]
    /\ hArgument' = [hArgument EXCEPT ![s] = NULL]
    /\ UNCHANGED <<masks, signalLock, table, emulator, polling, hMask, hLater,
                   history>>

(* The function cannot go on now and calls SignalLater with the number in  *)
(* its queue.                                                              *)
HandlerDefer(s) ==
    /\ hPC[s] = "call"
    /\ hFunction[s] = "real" /\ hArgument[s] # NULL
    /\ hLater' = [hLater EXCEPT ![s] = queueSignal[hArgument[s]]]
    /\ hPC' = [hPC EXCEPT ![s] = "later"]
    /\ UNCHANGED <<masks, signalLock, table, emulator, polling, hMask, hFunction,
                   hArgument, history>>

(* SignalLater, under signalLock; the number is -1 when the queue was      *)
(* detached meanwhile.  "1 << -1" is undefined; the shift instructions of  *)
(* the machines VLM is built for take their count modulo 32, which gives   *)
(* bit 31, of no handler as long as not all 32 are installed.  What it can *)
(* do, make the next tick broadcast once more, is left out.                *)
SignalLater(s) ==
    /\ hPC[s] = "later"
    /\ signalLock = NULL
    /\ LET deferred == {hLater[s]} \ {-1}
       IN  /\ reawaken' = reawaken \cup deferred
           /\ owed' = owed \cup (deferred \cap live_guest_to_host_signals)
           /\ dropped' = dropped \ deferred
    /\ hPC' = [hPC EXCEPT ![s] = "lock"]
    /\ hLater' = [hLater EXCEPT ![s] = -1]
    /\ hFunction' = [hFunction EXCEPT ![s] = "none"]
    /\ hArgument' = [hArgument EXCEPT ![s] = NULL]
    /\ UNCHANGED <<guest_to_host_signals, live_guest_to_host_signals, signalLock,
                   table, emulator, polling, hMask, late>>

HandlerStep(s) ==
    \/ HandlerCheck(s) \/ HandlerBlock(s) \/ HandlerClear(s)
    \/ HandlerLoadFunction(s) \/ HandlerLoadArgument(s)
    \/ HandlerReturn(s) \/ HandlerDefer(s) \/ SignalLater(s)

-----------------------------------------------------------------------------
Next ==
    \/ \E c \in Channel : GuestRaise(c) \/ InstallFunction(c) \/ RemoveFunction(c)
    \/ EmulatorStep
    \/ PollStep
    \/ \E s \in Signal : HandlerStep(s)

Spec == Init /\ [][Next]_vars

(* Every thread is scheduled, and a thread that keeps finding signalLock   *)
(* free some of the time eventually gets it.                               *)
Fairness ==
    /\ WF_vars(EmulatorStep)
    /\ SF_vars(PollStep)
    /\ \A s \in Signal : SF_vars(HandlerStep(s))

FairSpec == Spec /\ Fairness
-----------------------------------------------------------------------------
(* Properties *)

(* Every variable has its type. *)
TypeOK ==
    /\ guest_to_host_signals \subseteq Signal
    /\ live_guest_to_host_signals \subseteq Signal
    /\ reawaken \subseteq Signal
    /\ signalLock \in Signal \cup {Emulator, Polling, NULL}
    /\ handlerFunction \in [Signal -> {"none", "real", "null"}]
    /\ handlerArgument \in [Signal -> Channel \cup {NULL}]
    /\ queueSignal \in [Channel -> Signal \cup {-1}]
    /\ pollTime \in Nat /\ sleepTime \in Nat
    /\ ePC \in {"run", "raising", "interrupt", "installed", "removed", "return"}
    /\ eChannel \in Channel \cup {NULL} /\ eSignal \in Signal \cup {-1}
    /\ eMask \subseteq Signal
    /\ pPC \in {"sleep", "store"} /\ pMask \subseteq Signal
    /\ hPC \in [Signal -> {"none", "lock", "block", "wait", "clear",
                           "function", "argument", "call", "later"}]
    /\ hMask \in [Signal -> SUBSET Signal]
    /\ hFunction \in [Signal -> {"none", "real", "null"}]
    /\ hArgument \in [Signal -> Channel \cup {NULL}]
    /\ hLater \in [Signal -> Signal \cup {-1}]
    /\ owed \subseteq live_guest_to_host_signals /\ dropped \subseteq owed
    /\ late \in [Signal -> 0 .. 2]

(* A handler that called SignalLater is on its way to being called again:  *)
(* no mask update of the host drops its bit between reawaken and the       *)
(* handler thread, and its thread does not sleep through the tick's        *)
(* broadcast.  Only a store of the guest's, computed before the tick       *)
(* raised the bit, can drop it.                                            *)
DeferredNotLost ==
    \A s \in owed \ dropped :
        \/ s \in reawaken
        \/ pPC = "store" /\ s \in pMask
        \/ s \in guest_to_host_signals /\ hPC[s] \notin {"block", "wait"}
        \/ hPC[s] \in {"function", "argument"}

(* "The polling thread checks for said handlers each clock tick": a handler *)
(* that deferred itself is called again, unless it is removed first or the *)
(* guest's own store drops its bit.                                        *)
DeferredIsRetried == \A s \in Signal : (s \in owed) ~> (s \notin owed \/ s \in dropped)

(* RemoveSignalHandler: after it no more than the one call whose function  *)
(* the thread had already loaded reaches the removed handler.              *)
AtMostOneLateCall == \A s \in Signal : late[s] <= 1

(* "The main thrust of polling is to periodically wakeup all signal        *)
(* handlers in case a hardware interrupt from the VLM was lost": the       *)
(* thread of a live handler does not wait for ever while its signal is     *)
(* pending.                                                                *)
LostInterruptRecovered ==
    \A s \in Signal :
        (/\ s \in live_guest_to_host_signals \cap guest_to_host_signals
         /\ hPC[s] = "wait") ~> (hPC[s] # "wait" \/ s \notin live_guest_to_host_signals)
=============================================================================
