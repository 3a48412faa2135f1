---------------------------- MODULE NetworkChannel ----------------------------
(***************************************************************************)
(* One network channel (life-support/network-linux.c) on top of the signal *)
(* machinery of Signals: NetworkChannelTransmitter running in the handler  *)
(* thread of the transmit queue, the thread of NetworkChannelReceiver, the *)
(* guest, and the polling thread, which resets the channel when Lisp       *)
(* starts again.                                                           *)
(*                                                                         *)
(* Packet buffers belong to the guest and circulate: free, transmit queue, *)
(* transmitter, return queue, free; and free, supply queue, receiver,      *)
(* receive queue, free.  The four EmbQueues are Rings: the takes and puts  *)
(* of the host's threads load an index in one step and store it in a later *)
(* one, and a reset stores its two zeroes in two, since nothing keeps a    *)
(* reset out of a take or a put.  A channel whose reset overlapped one is  *)
(* not followed any further (`torn'); DiskChannel goes on from there.      *)
(* What the packets hold and the meters that only count are left out.      *)
(***************************************************************************)
EXTENDS Signals, Ring

CONSTANTS Net,                  \* the channel
          TxBuffers, RxBuffers, \* the guest's packet buffers, of each kind
          TransmitSpace, ReceiveSpace, \* room in a queue of each direction
          MaxResets             \* bound on Lisp's restarts

ASSUME NetworkAssumption ==
    /\ NSignals = 1 /\ Channel = {Net}
    /\ {TransmitSpace, ReceiveSpace} \subseteq Nat \ {0}
    /\ MaxResets \in Nat

VARIABLES
  guestToHostQ, guestToHostReturnQ, \* Rings of buffers to transmit and transmitted
  hostToGuestSupplyQ, hostToGuestQ, \* and of empty and filled receive buffers
  incarnation,       \* of Lisp: a restart forgets the buffers of the one before
  txFree, rxFree,    \* buffers the guest has at hand
  tPC, tBuffer, tIndex, \* NetworkChannelTransmitter: its place, the buffer it holds,
                     \* the index its take or put has loaded
  rPC, rBuffer, rIndex, \* NetworkChannelReceiver likewise
  reset_request, resetPC, \* a Lisp reset is asked for; place in ResetNetworkChannel
  torn               \* history: a reset overlapped a take or a put of the same queue

signals  == <<masks, signalLock, table, emulator, polling, handlers, history>>
queues   == <<guestToHostQ, guestToHostReturnQ, hostToGuestSupplyQ, hostToGuestQ>>
guest    == <<incarnation, txFree, rxFree>>
transmit == <<tPC, tBuffer, tIndex>>
receive  == <<rPC, rBuffer, rIndex>>
reset    == <<reset_request, resetPC>>
netVars  == <<signals, queues, guest, transmit, receive, reset, torn>>

Handler == 0  \* the signal of the only channel

(* A buffer in circulation carries the incarnation that put it there; None *)
(* is 0, the pointer to no buffer.                                         *)
Buffer(buffers) == [buf : buffers, inc : 0 .. MaxResets]
Tagged(b) == [buf |-> b, inc |-> incarnation]
None == [buf |-> NULL, inc |-> -1]

(* InitializeNetChannel has created the queues and installed the           *)
(* transmitter; its thread and the receiver's are about to run.            *)
NetInit ==
    /\ guest_to_host_signals = {} /\ live_guest_to_host_signals = {Handler}
    /\ reawaken = {}
    /\ signalLock = NULL
    /\ handlerFunction = [s \in Signal |-> "real"]
    /\ handlerArgument = [s \in Signal |-> Net]
    /\ queueSignal = [c \in Channel |-> Handler]
    /\ pollTime = 0 /\ sleepTime = 0
    /\ ePC = "run" /\ eChannel = NULL /\ eSignal = -1 /\ eMask = {}
    /\ pPC = "sleep" /\ pMask = {}
    /\ hPC = [s \in Signal |-> "lock"]
    /\ hMask = [s \in Signal |-> {}]
    /\ hFunction = [s \in Signal |-> "none"]
    /\ hArgument = [s \in Signal |-> NULL]
    /\ hLater = [s \in Signal |-> -1]
    /\ owed = {} /\ dropped = {} /\ late = [s \in Signal |-> 0]
    /\ guestToHostQ = NewQueue(TransmitSpace, None)
    /\ guestToHostReturnQ = NewQueue(TransmitSpace, None)
    /\ hostToGuestSupplyQ = NewQueue(ReceiveSpace, None)
    /\ hostToGuestQ = NewQueue(ReceiveSpace, None)
    /\ incarnation = 0 /\ txFree = TxBuffers /\ rxFree = RxBuffers
    /\ tPC = "loop" /\ tBuffer = None /\ tIndex = 0
    /\ rPC = "poll" /\ rBuffer = None /\ rIndex = 0
    /\ reset_request = FALSE /\ resetPC = "none" /\ torn = FALSE

-----------------------------------------------------------------------------
(* The guest (its code is external): it waits for a reset it has asked for *)
(* and knows its buffers by incarnation.                                   *)

AtGuest == ePC = "run" /\ ~reset_request

(* Send a packet; if the queue had been empty, signal it. *)
GuestTransmit ==
    /\ AtGuest
    /\ EmbQueueSpace(guestToHostQ) > 0
    /\ \E b \in txFree :
          /\ guestToHostQ' = Put(guestToHostQ, Tagged(b))
          /\ txFree' = txFree \ {b}
    /\ IF EmbQueueFilled(guestToHostQ) = 0 THEN GuestRaise(Net) ELSE UNCHANGED signals
    /\ UNCHANGED <<guestToHostReturnQ, hostToGuestSupplyQ, hostToGuestQ, incarnation,
                   rxFree, transmit, receive, reset>>

(* What the guest has at hand after it took b from a queue: one of an      *)
(* earlier incarnation, or none, is dropped.                               *)
Kept(b) == IF b.inc = incarnation THEN {b.buf} ELSE {}

(* Take back a transmitted buffer. *)
GuestTakeReturned ==
    /\ AtGuest
    /\ EmbQueueFilled(guestToHostReturnQ) > 0
    /\ txFree' = txFree \cup Kept(First(guestToHostReturnQ))
    /\ guestToHostReturnQ' = Take(guestToHostReturnQ)
    /\ UNCHANGED <<signals, guestToHostQ, hostToGuestSupplyQ, hostToGuestQ, incarnation,
                   rxFree, transmit, receive, reset>>

(* Supply an empty receive buffer. *)
GuestSupply ==
    /\ AtGuest
    /\ EmbQueueSpace(hostToGuestSupplyQ) > 0
    /\ \E b \in rxFree :
          /\ hostToGuestSupplyQ' = Put(hostToGuestSupplyQ, Tagged(b))
          /\ rxFree' = rxFree \ {b}
    /\ UNCHANGED <<signals, guestToHostQ, guestToHostReturnQ, hostToGuestQ, incarnation,
                   txFree, transmit, receive, reset>>

(* Take a received packet. *)
GuestTakePacket ==
    /\ AtGuest
    /\ EmbQueueFilled(hostToGuestQ) > 0
    /\ rxFree' = rxFree \cup Kept(First(hostToGuestQ))
    /\ hostToGuestQ' = Take(hostToGuestQ)
    /\ UNCHANGED <<signals, guestToHostQ, guestToHostReturnQ, hostToGuestSupplyQ,
                   incarnation, txFree, transmit, receive, reset>>

(* Lisp starts again, with all its buffers, and asks for a reset.          *)
RequestReset ==
    /\ AtGuest
    /\ incarnation < MaxResets
    /\ incarnation' = incarnation + 1
    /\ txFree' = TxBuffers /\ rxFree' = RxBuffers
    /\ reset_request' = TRUE
    /\ UNCHANGED <<signals, queues, transmit, receive, resetPC>>

(* The steps of Signals that the channel's own state takes no part in.     *)
EmulatorSignals ==
    /\ GuestStore \/ SendInterruptToLifeSupport
    /\ UNCHANGED <<queues, guest, transmit, receive, reset>>

HandlerSignals ==
    /\ \/ HandlerCheck(Handler) \/ HandlerBlock(Handler) \/ HandlerClear(Handler)
       \/ HandlerLoadFunction(Handler) \/ HandlerLoadArgument(Handler)
       \/ SignalLater(Handler)
    /\ UNCHANGED <<queues, guest, transmit, receive, reset>>

-----------------------------------------------------------------------------
(* NetworkChannelTransmitter *)

InTransmitter == hPC[Handler] = "call"

(* Nothing to transmit: return. *)
TransmitReturn ==
    /\ InTransmitter /\ tPC = "loop"
    /\ EmbQueueFilled(guestToHostQ) = 0
    /\ HandlerReturn(Handler)
    /\ UNCHANGED <<queues, guest, transmit, receive, reset>>

(* Mutant: the transmitter gives up without asking to be called again. *)
TransmitGivesUp ==
    /\ InTransmitter /\ tPC = "loop"
    /\ EmbQueueFilled(guestToHostQ) # 0 /\ EmbQueueSpace(guestToHostReturnQ) = 0
    /\ HandlerReturn(Handler)
    /\ UNCHANGED <<queues, guest, transmit, receive, reset>>

(* The buffer could not be returned: try again later.                      *)
TransmitDefer ==
    /\ InTransmitter /\ tPC = "loop"
    /\ EmbQueueFilled(guestToHostQ) # 0 /\ EmbQueueSpace(guestToHostReturnQ) = 0
    /\ HandlerDefer(Handler)
    /\ UNCHANGED <<queues, guest, transmit, receive, reset>>

(* Mutant: the room for the buffer's return is not looked at. *)
TransmitTestQueueOnly ==
    /\ InTransmitter /\ tPC = "loop"
    /\ EmbQueueFilled(guestToHostQ) # 0
    /\ tPC' = "take"
    /\ UNCHANGED <<signals, queues, guest, tBuffer, tIndex, receive, reset>>

TransmitTest ==
    /\ InTransmitter /\ tPC = "loop"
    /\ EmbQueueFilled(guestToHostQ) # 0 /\ EmbQueueSpace(guestToHostReturnQ) # 0
    /\ tPC' = "take"
    /\ UNCHANGED <<signals, queues, guest, tBuffer, tIndex, receive, reset>>

(* EmbQueueTakeWord: answer 0 when the indexes are equal, since a reset     *)
(* has emptied the queue; otherwise load the take index and copy the       *)
(* element, ...                                                            *)
TransmitCopy ==
    /\ InTransmitter /\ tPC = "take"
    /\ IF EmbQueueFilled(guestToHostQ) = 0
       THEN tPC' = "loop" /\ UNCHANGED <<tBuffer, tIndex>>
       ELSE /\ tPC' = "taken"
            /\ tIndex' = guestToHostQ.take_index
            /\ tBuffer' = First(guestToHostQ)
    /\ UNCHANGED <<signals, queues, guest, receive, reset>>

(* Mutant: the increment of the take index is lost. *)
TransmitTakeKeeps ==
    /\ InTransmitter /\ tPC = "taken"
    /\ tIndex' = 0
    /\ tPC' = IF tBuffer = None THEN "loop" ELSE "send"
    /\ UNCHANGED <<signals, queues, guest, tBuffer, receive, reset>>

(* ... and store the incremented take index.  A NULL pointer is neither    *)
(* sent nor returned.                                                      *)
TransmitTake ==
    /\ InTransmitter /\ tPC = "taken"
    /\ guestToHostQ' = StoreTakeIndex(guestToHostQ, After(guestToHostQ, tIndex))
    /\ tIndex' = 0
    /\ tPC' = IF tBuffer = None THEN "loop" ELSE "send"
    /\ UNCHANGED <<signals, guestToHostReturnQ, hostToGuestSupplyQ, hostToGuestQ, guest,
                   tBuffer, receive, reset>>

(* sendto, whose failure is only counted; then EmbQueuePutWord on the      *)
(* return queue: load the put index and fill the slot, ...                 *)
TransmitFill ==
    /\ InTransmitter /\ tPC = "send"
    /\ guestToHostReturnQ' = Filling(guestToHostReturnQ, tBuffer)
    /\ tIndex' = guestToHostReturnQ.put_index
    /\ tPC' = "full"
    /\ UNCHANGED <<signals, guestToHostQ, hostToGuestSupplyQ, hostToGuestQ, guest,
                   tBuffer, receive, reset>>

(* ... and, when the queue is not full, store the incremented put index.  *)
TransmitPut ==
    /\ InTransmitter /\ tPC = "full" /\ After(guestToHostReturnQ, tIndex) # guestToHostReturnQ.take_index
    /\ guestToHostReturnQ' =
          StorePutIndex(guestToHostReturnQ, After(guestToHostReturnQ, tIndex))
    /\ tPC' = "loop" /\ tBuffer' = None /\ tIndex' = 0
    /\ UNCHANGED <<signals, guestToHostQ, hostToGuestSupplyQ, hostToGuestQ, guest,
                   receive, reset>>

NetworkChannelTransmitter ==
    \/ TransmitReturn \/ TransmitDefer \/ TransmitTest
    \/ TransmitCopy \/ TransmitTake
    \/ TransmitFill \/ TransmitPut

-----------------------------------------------------------------------------
(* NetworkChannelReceiver *)

(* Mutant: the receive queue is not looked at. *)
ReceiveTestSupplyOnly ==
    /\ rPC = "poll"
    /\ EmbQueueSpace(hostToGuestSupplyQ) # 0
    /\ rPC' = "take"
    /\ UNCHANGED <<signals, queues, guest, transmit, rBuffer, rIndex, reset>>

(* recvfrom returns a packet; its failure and a packet of no bytes are     *)
(* only counted.  The packet is lost when there is no SPACE in the supply  *)
(* queue or none in the receive queue.                                     *)
ReceivePacket ==
    /\ rPC = "poll"
    /\ EmbQueueSpace(hostToGuestSupplyQ) # 0 /\ EmbQueueSpace(hostToGuestQ) # 0
    /\ rPC' = "take"
    /\ UNCHANGED <<signals, queues, guest, transmit, rBuffer, rIndex, reset>>

(* EmbQueueTakeWord: with no buffer supplied pause for a millisecond and   *)
(* retry; otherwise load the take index and copy the element, ...          *)
ReceiveCopy ==
    /\ rPC = "take"
    /\ EmbQueueFilled(hostToGuestSupplyQ) # 0
    /\ rPC' = "taken"
    /\ rIndex' = hostToGuestSupplyQ.take_index
    /\ rBuffer' = First(hostToGuestSupplyQ)
    /\ UNCHANGED <<signals, queues, guest, transmit, reset>>

(* ... and store the incremented take index; 0 is no buffer either.        *)
ReceiveTake ==
    /\ rPC = "taken"
    /\ hostToGuestSupplyQ' =
          StoreTakeIndex(hostToGuestSupplyQ, After(hostToGuestSupplyQ, rIndex))
    /\ rIndex' = 0
    /\ rPC' = IF rBuffer = None THEN "take" ELSE "put"
    /\ UNCHANGED <<signals, guestToHostQ, guestToHostReturnQ, hostToGuestQ, guest,
                   transmit, rBuffer, reset>>

(* EmbQueuePutWord on the receive queue: load the put index and fill the   *)
(* slot, ...                                                               *)
ReceiveFill ==
    /\ rPC = "put"
    /\ hostToGuestQ' = Filling(hostToGuestQ, rBuffer)
    /\ rIndex' = hostToGuestQ.put_index
    /\ rPC' = "full"
    /\ UNCHANGED <<signals, guestToHostQ, guestToHostReturnQ, hostToGuestSupplyQ, guest,
                   transmit, rBuffer, reset>>

(* ... and, when the queue is not full, store the incremented put index.  *)
ReceivePut ==
    /\ rPC = "full" /\ After(hostToGuestQ, rIndex) # hostToGuestQ.take_index
    /\ hostToGuestQ' = StorePutIndex(hostToGuestQ, After(hostToGuestQ, rIndex))
    /\ rPC' = "poll" /\ rBuffer' = None /\ rIndex' = 0
    /\ UNCHANGED <<signals, guestToHostQ, guestToHostReturnQ, hostToGuestSupplyQ, guest,
                   transmit, reset>>

NetworkChannelReceiver ==
    \/ ReceivePacket \/ ReceiveCopy \/ ReceiveTake
    \/ ReceiveFill \/ ReceivePut

-----------------------------------------------------------------------------
(* The polling thread *)

(* The tick of IvoryLifePolling when no reset is asked for. *)
PollSignals ==
    /\ (~reset_request /\ PollTick) \/ PollStore
    /\ UNCHANGED <<queues, guest, transmit, receive, reset>>

(* Otherwise ResetNetworkChannel, with signalLock held, stores zeroes in   *)
(* the indexes of the four queues in turn.  They are in the host buffer,   *)
(* so that resetting the incoming ones leaves their handlers in place.     *)
ResetTransmitPut ==
    /\ reset_request /\ resetPC = "none" /\ pPC = "sleep"
    /\ signalLock = NULL
    /\ signalLock' = Polling
    /\ guestToHostQ' = StorePutIndex(guestToHostQ, 0)
    /\ resetPC' = "transmit"
    /\ UNCHANGED <<masks, table, emulator, polling, handlers, history,
                   guestToHostReturnQ, hostToGuestSupplyQ, hostToGuestQ, guest,
                   transmit, receive, reset_request>>

ResetTransmitTake ==
    /\ resetPC = "transmit"
    /\ guestToHostQ' = StoreTakeIndex(guestToHostQ, 0)
    /\ resetPC' = "transmitted"
    /\ UNCHANGED <<signals, guestToHostReturnQ, hostToGuestSupplyQ, hostToGuestQ, guest,
                   transmit, receive, reset_request>>

ResetReturnPut ==
    /\ resetPC = "transmitted"
    /\ guestToHostReturnQ' = StorePutIndex(guestToHostReturnQ, 0)
    /\ resetPC' = "return"
    /\ UNCHANGED <<signals, guestToHostQ, hostToGuestSupplyQ, hostToGuestQ, guest,
                   transmit, receive, reset_request>>

ResetReturnTake ==
    /\ resetPC = "return"
    /\ guestToHostReturnQ' = StoreTakeIndex(guestToHostReturnQ, 0)
    /\ resetPC' = "returned"
    /\ UNCHANGED <<signals, guestToHostQ, hostToGuestSupplyQ, hostToGuestQ, guest,
                   transmit, receive, reset_request>>

ResetSupplyPut ==
    /\ resetPC = "returned"
    /\ hostToGuestSupplyQ' = StorePutIndex(hostToGuestSupplyQ, 0)
    /\ resetPC' = "supply"
    /\ UNCHANGED <<signals, guestToHostQ, guestToHostReturnQ, hostToGuestQ, guest,
                   transmit, receive, reset_request>>

ResetSupplyTake ==
    /\ resetPC = "supply"
    /\ hostToGuestSupplyQ' = StoreTakeIndex(hostToGuestSupplyQ, 0)
    /\ resetPC' = "supplied"
    /\ UNCHANGED <<signals, guestToHostQ, guestToHostReturnQ, hostToGuestQ, guest,
                   transmit, receive, reset_request>>

(* Mutant: the receive queue is forgotten. *)
ResetReceiveNot ==
    /\ resetPC = "supplied"
    /\ resetPC' = "receive"
    /\ UNCHANGED <<signals, queues, guest, transmit, receive, reset_request>>

ResetReceivePut ==
    /\ resetPC = "supplied"
    /\ hostToGuestQ' = StorePutIndex(hostToGuestQ, 0)
    /\ resetPC' = "receive"
    /\ UNCHANGED <<signals, guestToHostQ, guestToHostReturnQ, hostToGuestSupplyQ, guest,
                   transmit, receive, reset_request>>

ResetReceiveTake ==
    /\ resetPC = "receive"
    /\ hostToGuestQ' = StoreTakeIndex(hostToGuestQ, 0)
    /\ resetPC' = "none" /\ reset_request' = FALSE
    /\ signalLock' = NULL
    /\ UNCHANGED <<masks, table, emulator, polling, handlers, history, guestToHostQ,
                   guestToHostReturnQ, hostToGuestSupplyQ, guest, transmit, receive>>

PollNetwork ==
    \/ PollSignals
    \/ ResetTransmitPut \/ ResetTransmitTake \/ ResetReturnPut \/ ResetReturnTake
    \/ ResetSupplyPut \/ ResetSupplyTake \/ ResetReceivePut \/ ResetReceiveTake

-----------------------------------------------------------------------------
(* A thread is between the first load and the store of a take or a put and *)
(* the reset between its two stores of the same queue's indexes.           *)
Overlap ==
    \/ resetPC = "transmit" /\ tPC = "taken"
    \/ resetPC = "return" /\ tPC = "full"
    \/ resetPC = "supply" /\ rPC = "taken"
    \/ resetPC = "receive" /\ rPC = "full"

(* A step, with `torn' brought up to date. *)
Watched(step) == ~torn /\ step /\ torn' = Overlap'

NetStep ==
    \/ GuestTransmit \/ GuestTakeReturned \/ GuestSupply \/ GuestTakePacket
    \/ RequestReset \/ EmulatorSignals \/ HandlerSignals
    \/ NetworkChannelTransmitter \/ NetworkChannelReceiver \/ PollNetwork

(* What the host's store of an index does to a queue that a reset has been *)
(* through is not followed.                                                *)
Torn == torn /\ UNCHANGED netVars

NetNext == Watched(NetStep) \/ Torn

NetSpec == NetInit /\ [][NetNext]_netVars

(* Every thread is scheduled and gets signalLock in the end; the guest     *)
(* takes its transmitted buffers back.                                     *)
NetFairness ==
    /\ WF_netVars(Watched(EmulatorSignals))
    /\ SF_netVars(Watched(HandlerSignals \/ NetworkChannelTransmitter))
    /\ SF_netVars(Watched(PollNetwork))
    /\ SF_netVars(Watched(GuestTakeReturned))

NetFairSpec == NetSpec /\ NetFairness
-----------------------------------------------------------------------------
(* Properties *)

(* Every variable has its type. *)
NetTypeOK ==
    /\ TypeOK
    /\ guestToHostQ \in RingOf(TransmitSpace, Buffer(TxBuffers) \cup {None})
    /\ guestToHostReturnQ \in RingOf(TransmitSpace, Buffer(TxBuffers) \cup {None})
    /\ hostToGuestSupplyQ \in RingOf(ReceiveSpace, Buffer(RxBuffers) \cup {None})
    /\ hostToGuestQ \in RingOf(ReceiveSpace, Buffer(RxBuffers) \cup {None})
    /\ incarnation \in 0 .. MaxResets
    /\ txFree \subseteq TxBuffers /\ rxFree \subseteq RxBuffers
    /\ tPC \in {"loop", "take", "taken", "send", "full"}
    /\ tBuffer \in Buffer(TxBuffers) \cup {None} /\ tIndex \in 0 .. TransmitSpace
    /\ rPC \in {"poll", "take", "taken", "put", "full"}
    /\ rBuffer \in Buffer(RxBuffers) \cup {None} /\ rIndex \in 0 .. ReceiveSpace
    /\ reset_request \in BOOLEAN
    /\ resetPC \in {"none", "transmit", "transmitted", "return", "returned", "supply",
                    "supplied", "receive"}
    /\ torn \in BOOLEAN

(* The contents of the queues, oldest first; none once a reset has begun   *)
(* on them.                                                                *)
guestToHost       == IF resetPC = "transmit" THEN <<>> ELSE Elements(guestToHostQ)
guestToHostReturn == IF resetPC = "return" THEN <<>> ELSE Elements(guestToHostReturnQ)
supply            == IF resetPC = "supply" THEN <<>> ELSE Elements(hostToGuestSupplyQ)
hostToGuest       == IF resetPC = "receive" THEN <<>> ELSE Elements(hostToGuestQ)

(* What a thread has taken and not yet put. *)
TransmitHand == IF tPC \in {"send", "full"} THEN <<tBuffer>> ELSE <<>>
ReceiveHand  == IF rPC \in {"put", "full"} THEN <<rBuffer>> ELSE <<>>

(* The places of buffer b of the current incarnation in a sequence.        *)
Places(b, s) == {i \in DOMAIN s : s[i] = Tagged(b)}

(* Every buffer of the running Lisp is in one place: at hand, in one queue *)
(* once, or held by the host's thread.  None is lost, and none is sent or  *)
(* filled while the guest or another packet has it, across resets that     *)
(* come while the host's threads hold buffers -- unless a reset overlapped *)
(* a take or a put of theirs, whose store of an index then brings back     *)
(* what the reset had dropped or skips what was put since.                 *)
BuffersAccounted ==
    \/ torn
    \/ /\ \A b \in TxBuffers :
             Cardinality(Places(b, guestToHost \o TransmitHand \o guestToHostReturn))
                 = IF b \in txFree THEN 0 ELSE 1
       /\ \A b \in RxBuffers :
             Cardinality(Places(b, supply \o ReceiveHand \o hostToGuest))
                 = IF b \in rxFree THEN 0 ELSE 1

Stale(s) == {i \in DOMAIN s : s[i].inc < incarnation}

(* When a reset is over that overlapped no take and no put, of the buffers *)
(* of the Lisps before no more than the one a thread held at the time      *)
(* comes back, and none is transmitted or filled from a queue.             *)
OneStaleBuffer ==
    ~reset_request /\ ~torn =>
        /\ Stale(guestToHost) = {} /\ Stale(supply) = {}
        /\ Cardinality(Stale(TransmitHand \o guestToHostReturn)) <= incarnation
        /\ Cardinality(Stale(ReceiveHand \o hostToGuest)) <= incarnation

(* Both threads look for room for the buffer before they take it, so that  *)
(* the loop of their EmbQueuePutWord never waits.  Only a put that a reset *)
(* overlaps can find its next index equal to the take index, and wait, for *)
(* ever when both are zero.                                                *)
PutNeverWaits ==
    \/ torn
    \/ /\ tPC = "full" =>
             After(guestToHostReturnQ, tIndex) # guestToHostReturnQ.take_index
       /\ rPC = "full" => After(hostToGuestQ, rIndex) # hostToGuestQ.take_index

(* "Can't do I/O now because we can't return the buffer -- Try again       *)
(* later": a buffer that the transmitter has seen is taken in the end,     *)
(* however often it has to defer itself, unless Lisp starts again or a     *)
(* reset overlapped a take or a put.                                       *)
SeenIsTransmitted ==
    \A b \in TxBuffers, i \in 0 .. MaxResets :
        (InTransmitter /\ \E k \in DOMAIN guestToHost : guestToHost[k] = [buf |-> b, inc |-> i])
            ~> (incarnation > i \/ torn \/ \A k \in DOMAIN guestToHost : guestToHost[k].buf # b)
=============================================================================
