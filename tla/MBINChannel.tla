---------------------------- MODULE MBINChannel ----------------------------
(***************************************************************************)
(* The MBIN protocol of environment/spy.c, which carries packets between a *)
(* remote debugger (over UDP) and Lisp.                                    *)
(*                                                                         *)
(* The spy's thread and the thread of each MBIN channel's signal share     *)
(* activeMBINChannel, MBINHistory and the channel's queues without a lock: *)
(* a step is a statement that reads or writes one of these.  The debugger, *)
(* the network and Lisp are external.  The list of channels, and starting  *)
(* and shutting down step by step, are MessageChannels.tla's.              *)
(*                                                                         *)
(* Channels are numbered in the order Lisp starts them.                    *)
(***************************************************************************)
EXTENDS Naturals, Sequences

CONSTANTS MaxId,        \* packets are numbered from 1
          HistorySize,  \* entries of MBINHistory (16)
          NChannels,    \* MBIN channels Lisp starts, one after the other
          Buffers,      \* packet buffers of a channel
          AckBuffers,   \* buffers Lisp has for acknowledgements on it
          QueueSpace    \* elements a queue holds

ASSUME MBINChannelAssumption ==
    /\ MaxId \in Nat \ {0} /\ HistorySize \in Nat \ {0} /\ NChannels \in Nat \ {0}
    /\ Buffers \in Nat \ {0} /\ AckBuffers \in Nat \ {0} /\ QueueSpace \in Nat \ {0}

Ids      == 1 .. MaxId
Channels == 1 .. NChannels
None     == 0    \* NULL

VARIABLES sent, handled, acked,  \* the debugger's packets, and what became of them
          net,       \* datagrams under way
          history,   \* MBINHistory
          active,    \* activeMBINChannel
          chan,      \* each MBIN channel: its queues, impulse and signal
          guest,     \* what Lisp does with each channel
          spy,       \* the spy's thread
          handler,   \* the thread of each channel's handler
          died       \* activeMBINChannel was followed when it was NULL

vars == <<sent, handled, acked, net, history, active, chan, guest, spy, handler, died>>

Data(i)   == [k |-> "data", id |-> i]
Ack(i)    == [k |-> "ack", id |-> i]
Record(i) == i % HistorySize

(* A shut down leaves buffers taken from one channel's supply to be put on *)
(* another's queue: a later channel may come by a few more.                *)
MBINTypeOK ==
    /\ sent \subseteq Ids /\ acked \subseteq sent /\ handled \in [Ids -> Nat]
    /\ net \subseteq {Data(i) : i \in Ids} \cup {Ack(i) : i \in Ids}
    /\ history \in [0 .. HistorySize - 1 -> [id : {0} \cup Ids, acked : BOOLEAN]]
    /\ active \in Channels \cup {None}
    /\ \A c \in Channels :
          /\ chan[c].supply \in 0 .. NChannels * Buffers
          /\ chan[c].toGuest \in Seq(Ids) /\ Len(chan[c].toGuest) <= QueueSpace
          /\ chan[c].toHost \in Seq(Ids) /\ Len(chan[c].toHost) <= QueueSpace
          /\ chan[c].returned \in 0 .. QueueSpace
          /\ guest[c].state \in {"none", "started", "closing"}
          /\ guest[c].free \in 0 .. AckBuffers
          /\ handler[c].id \in {0} \cup Ids
    /\ spy.id \in {0} \cup Ids
    /\ died \in BOOLEAN

Init ==
    /\ sent = {} /\ acked = {} /\ handled = [i \in Ids |-> 0] /\ net = {}
    /\ history = [h \in 0 .. HistorySize - 1 |-> [id |-> 0, acked |-> FALSE]]
    /\ active = None
    /\ chan = [c \in Channels |->
                 [supply |-> Buffers, toGuest |-> <<>>, toHost |-> <<>>, returned |-> 0,
                  impulse |-> FALSE, signal |-> FALSE]]
    /\ guest = [c \in Channels |-> [state |-> "none", free |-> AckBuffers]]
    /\ spy = [pc |-> "receive", id |-> 0]
    /\ handler = [c \in Channels |-> [pc |-> "wait", id |-> 0]]
    /\ died = FALSE

(***************************************************************************)
(* The debugger and the network.  The debugger sends in order, at most     *)
(* HistorySize packets ahead of the first that is not acknowledged, and    *)
(* reuses an entry of the history only when no copy of the packet that had *)
(* it is under way.  A packet is sent again until it is acknowledged, so   *)
(* until then some copy of it may arrive at any time, and lost, delayed    *)
(* and duplicated copies need no steps of their own; afterwards the last   *)
(* copy is lost or arrives.  Acknowledgements are lost and overtaken too.  *)
(***************************************************************************)
Outside == UNCHANGED <<history, active, chan, guest, spy, handler, died>>

Send(i) ==
    /\ sent = 1 .. i - 1
    /\ \A j \in 1 .. i - HistorySize : j \in acked /\ Data(j) \notin net
    /\ sent' = sent \cup {i} /\ net' = net \cup {Data(i)}
    /\ UNCHANGED <<handled, acked>> /\ Outside

Lose(p) ==
    /\ p \in net
    /\ p.k = "data" => p.id \in acked
    /\ net' = net \ {p}
    /\ UNCHANGED <<sent, handled, acked>> /\ Outside

Acknowledged(i) ==
    /\ Ack(i) \in net
    /\ acked' = acked \cup {i} /\ net' = net \ {Ack(i)}
    /\ UNCHANGED <<sent, handled>> /\ Outside

(***************************************************************************)
(* Lisp: starts a channel when it has asked the one before to shut down,   *)
(* handles packets and acknowledges them.                                  *)
(***************************************************************************)
Host == UNCHANGED <<sent, acked, net, history, spy, handler, died>>

(* ExecuteGuestCommands makes the channel active and answers. *)
StartMBIN(c) ==
    /\ ~died /\ guest[c].state = "none"
    /\ c > 1 => guest[c - 1].state = "closing"
    /\ guest' = [guest EXCEPT ![c].state = "started"]
    /\ active' = c
    /\ UNCHANGED <<handled, chan>> /\ Host

(* PollMessageChannels finds the impulse and sets the signal. *)
ShutDown(c) ==
    /\ ~died /\ guest[c].state = "started"
    /\ guest' = [guest EXCEPT ![c].state = "closing"]
    /\ chan' = [chan EXCEPT ![c].impulse = TRUE]
    /\ UNCHANGED <<handled, active>> /\ Host
PollImpulse(c) ==
    /\ ~died /\ chan[c].impulse /\ ~chan[c].signal
    /\ chan' = [chan EXCEPT ![c].signal = TRUE]
    /\ UNCHANGED <<handled, active, guest>> /\ Host

HandlePacket(c) ==
    /\ ~died /\ guest[c].state = "started" /\ chan[c].toGuest # <<>>
    /\ guest[c].free > 0 /\ Len(chan[c].toHost) < QueueSpace
    /\ LET i == Head(chan[c].toGuest)
       IN  /\ handled' = [handled EXCEPT ![i] = @ + 1]
           /\ chan' = [chan EXCEPT ![c].toGuest = Tail(@), ![c].supply = @ + 1,
                                   ![c].toHost = Append(@, i), ![c].signal = TRUE]
    /\ guest' = [guest EXCEPT ![c].free = @ - 1]
    /\ UNCHANGED active /\ Host

TakeReturned(c) ==
    /\ ~died /\ guest[c].state = "started" /\ chan[c].returned > 0
    /\ chan' = [chan EXCEPT ![c].returned = @ - 1]
    /\ guest' = [guest EXCEPT ![c].free = @ + 1]
    /\ UNCHANGED <<handled, active>> /\ Host

(***************************************************************************)
(* RemoteMemorySpyLoop, for the packets of the MBIN protocol.  It follows  *)
(* activeMBINChannel again in every statement; when it has become NULL,    *)
(* that ends the process.                                                  *)
(***************************************************************************)
Spy(pc) == ~died /\ spy.pc = pc
SpyGoes(pc) ==
    /\ spy' = [pc |-> pc, id |-> IF pc = "receive" THEN 0 ELSE spy.id]
    /\ UNCHANGED <<sent, handled, acked, active, guest, handler, died>>
NullFollowed ==
    /\ active = None /\ died' = TRUE
    /\ UNCHANGED <<sent, handled, acked, net, history, active, chan, guest, spy, handler>>

Receive(i) ==
    /\ Spy("receive") /\ Data(i) \in net
    /\ spy' = [pc |-> "test", id |-> i]
    /\ UNCHANGED <<sent, handled, acked, net, history, active, chan, guest, handler, died>>

TestActive ==
    /\ Spy("test")
    /\ SpyGoes(IF active = None THEN "receive" ELSE "history")
    /\ UNCHANGED <<net, history, chan>>

(* Mutant: the history is not looked at. *)
TestNoHistory == Spy("history") /\ SpyGoes("queues") /\ UNCHANGED <<net, history, chan>>
TestHistory ==
    /\ Spy("history")
    /\ SpyGoes(IF history[Record(spy.id)].id = spy.id THEN "seen" ELSE "queues")
    /\ UNCHANGED <<net, history, chan>>

(* Mutant: a packet seen before is not acknowledged again. *)
DropSeen == Spy("seen") /\ SpyGoes("receive") /\ UNCHANGED <<net, history, chan>>
AcknowledgeSeen ==
    /\ Spy("seen")
    /\ net' = IF history[Record(spy.id)].acked THEN net \cup {Ack(spy.id)} ELSE net
    /\ SpyGoes("receive")
    /\ UNCHANGED <<history, chan>>

TestQueues ==
    /\ Spy("queues")
    /\ \/ NullFollowed
       \/ /\ active # None
          /\ SpyGoes(IF chan[active].supply > 0 /\ Len(chan[active].toGuest) < QueueSpace
                     THEN "take" ELSE "receive")
          /\ UNCHANGED <<net, history, chan>>
TakeBuffer ==
    /\ Spy("take")
    /\ \/ NullFollowed
       \/ /\ active # None
          /\ IF chan[active].supply > 0
             THEN SpyGoes("put") /\ chan' = [chan EXCEPT ![active].supply = @ - 1]
             ELSE SpyGoes("receive") /\ UNCHANGED chan
          /\ UNCHANGED <<net, history>>
PutPacket ==
    /\ Spy("put")
    /\ \/ NullFollowed
       \/ /\ active # None /\ Len(chan[active].toGuest) < QueueSpace
          /\ chan' = [chan EXCEPT ![active].toGuest = Append(@, spy.id)]
          /\ SpyGoes("mark id")
          /\ UNCHANGED <<net, history>>
MarkId ==
    /\ Spy("mark id")
    /\ history' = [history EXCEPT ![Record(spy.id)].id = spy.id]
    /\ SpyGoes("mark acked")
    /\ UNCHANGED <<net, chan>>
MarkNotAcked ==
    /\ Spy("mark acked")
    /\ history' = [history EXCEPT ![Record(spy.id)].acked = FALSE]
    /\ SpyGoes("receive")
    /\ UNCHANGED <<net, chan>>

SpyStep == TestActive \/ TestHistory \/ AcknowledgeSeen \/ TestQueues \/ TakeBuffer
           \/ PutPacket \/ MarkId \/ MarkNotAcked

(***************************************************************************)
(* SendMBINBuffers, in the thread of channel c's signal.                   *)
(***************************************************************************)
Handler(c, pc) == ~died /\ handler[c].pc = pc
HandlerGoes(c, pc, i) ==
    /\ handler' = [handler EXCEPT ![c] = [pc |-> pc, id |-> i]]
    /\ UNCHANGED <<sent, handled, acked, guest, spy, died>>

Signalled(c) ==
    /\ Handler(c, "wait") /\ chan[c].signal
    /\ chan' = [chan EXCEPT ![c].signal = FALSE]
    /\ HandlerGoes(c, IF chan[c].impulse THEN "deactivate" ELSE "loop", 0)
    /\ UNCHANGED <<net, history, active>>

(* Whichever channel is active. *)
Deactivate(c) ==
    /\ Handler(c, "deactivate")
    /\ active' = None
    /\ HandlerGoes(c, "reset", 0)
    /\ UNCHANGED <<net, history, chan>>

ResetQueues(c) ==
    /\ Handler(c, "reset")
    /\ chan' = [chan EXCEPT ![c].toHost = <<>>, ![c].returned = 0, ![c].supply = 0,
                            ![c].toGuest = <<>>, ![c].impulse = FALSE]
    /\ HandlerGoes(c, "gone", 0)
    /\ UNCHANGED <<net, history, active>>

(* Mutant: the space for the buffer's return is not tested. *)
TakeAckUntested(c) ==
    /\ Handler(c, "loop") /\ chan[c].toHost # <<>>
    /\ chan' = [chan EXCEPT ![c].toHost = Tail(@)]
    /\ HandlerGoes(c, "record id", Head(chan[c].toHost))
    /\ UNCHANGED <<net, history, active>>
TakeAck(c) ==
    /\ Handler(c, "loop") /\ chan[c].toHost # <<>>
    /\ chan[c].returned < QueueSpace
    /\ chan' = [chan EXCEPT ![c].toHost = Tail(@)]
    /\ HandlerGoes(c, "record id", Head(chan[c].toHost))
    /\ UNCHANGED <<net, history, active>>

(* SignalLater leaves the signal to the next tick. *)
EndLoop(c) ==
    /\ Handler(c, "loop")
    /\ chan[c].toHost = <<>> \/ chan[c].returned = QueueSpace
    /\ chan' = [chan EXCEPT ![c].signal = @ \/ chan[c].toHost # <<>>]
    /\ HandlerGoes(c, "wait", 0)
    /\ UNCHANGED <<net, history, active>>

RecordId(c) ==
    /\ Handler(c, "record id")
    /\ history' = [history EXCEPT ![Record(handler[c].id)].id = handler[c].id]
    /\ HandlerGoes(c, "record acked", handler[c].id)
    /\ UNCHANGED <<net, active, chan>>
RecordAcked(c) ==
    /\ Handler(c, "record acked")
    /\ history' = [history EXCEPT ![Record(handler[c].id)].acked = TRUE]
    /\ HandlerGoes(c, "transmit", handler[c].id)
    /\ UNCHANGED <<net, active, chan>>
Transmit(c) ==
    /\ Handler(c, "transmit")
    /\ net' = net \cup {Ack(handler[c].id)}
    /\ HandlerGoes(c, "return", 0)
    /\ UNCHANGED <<history, active, chan>>
ReturnBuffer(c) ==
    /\ Handler(c, "return")
    /\ chan' = [chan EXCEPT ![c].returned = @ + 1]
    /\ HandlerGoes(c, "loop", 0)
    /\ UNCHANGED <<net, history, active>>

HandlerStep(c) ==
    Signalled(c) \/ Deactivate(c) \/ ResetQueues(c) \/ TakeAck(c) \/ EndLoop(c)
    \/ RecordId(c) \/ RecordAcked(c) \/ Transmit(c) \/ ReturnBuffer(c)

Next ==
    \/ \E i \in Ids : Send(i) \/ Acknowledged(i) \/ Lose(Data(i)) \/ Lose(Ack(i)) \/ Receive(i)
    \/ \E c \in Channels : \/ StartMBIN(c) \/ ShutDown(c) \/ PollImpulse(c)
                           \/ HandlePacket(c) \/ TakeReturned(c) \/ HandlerStep(c)
    \/ SpyStep

(* Every thread goes on; Lisp attends to its queues; the network delivers  *)
(* what is sent again and again.  Nothing makes Lisp start a channel or    *)
(* shut one down.  A handler whose signal is set is called: see Signals.   *)
Fairness ==
    /\ WF_vars(SpyStep)
    /\ \A c \in Channels : WF_vars(HandlerStep(c)) /\ WF_vars(HandlePacket(c))
                           /\ WF_vars(TakeReturned(c)) /\ WF_vars(PollImpulse(c))
    /\ \A i \in Ids : SF_vars(Receive(i)) /\ SF_vars(Acknowledged(i))

Spec == Init /\ [][Next]_vars /\ Fairness

Service == INSTANCE MBINService

(* The debugger's packets are handled at most once, whatever is lost, sent *)
(* again, overtaken or shut down, and acknowledged only when handled       *)
(* (MBINHistory, spy.c:400 and 513).                                       *)
ImplementsService == Service!Spec

(* A packet of which the history does not tell that it was acknowledged,   *)
(* although it was: the spy marks a packet (spy.c:413) when Lisp has it    *)
(* already, and so may after its acknowledgement was recorded (spy.c:513). *)
Forgotten(i) ==
    /\ handled[i] > 0
    /\ history[Record(i)] = [id |-> i, acked |-> FALSE]
    /\ \A c \in Channels : handler[c].id # i /\ \A k \in DOMAIN chan[c].toHost : chan[c].toHost[k] # i

(* A packet sent to a channel that stays open is acknowledged at last,     *)
(* though datagrams are lost both ways: the spy repeats the                *)
(* acknowledgement (spy.c:402), unless it was forgotten.                   *)
AckedUnlessForgotten ==
    \A i \in Ids : (i \in sent /\ guest[1].state = "started")
                   ~> (i \in acked \/ Forgotten(i) \/ guest[1].state = "closing")
=============================================================================
