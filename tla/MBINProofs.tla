----------------------------- MODULE MBINProofs -----------------------------
(***************************************************************************)
(* The MBIN protocol of environment/spy.c implements MBINService: proofs   *)
(* for every number of packets, channels and buffers and every size of the *)
(* history.                                                                *)
(***************************************************************************)
EXTENDS MBINChannel, SequenceTheorems, FiniteSetTheorems, TLAPS

ChannelStates == [supply : Nat, toGuest : Seq(Ids), toHost : Seq(Ids), returned : Nat,
                  impulse : BOOLEAN, signal : BOOLEAN]
HandlerStates == [pc : {"wait", "deactivate", "reset", "gone", "loop", "record id",
                        "record acked", "transmit", "return"},
                  id : {0} \cup Ids]
SpyStates     == [pc : {"receive", "test", "history", "seen", "queues", "take", "put",
                        "mark id", "mark acked"},
                  id : {0} \cup Ids]

(* What MBINTypeOK says but for the limits of queues and buffers, which    *)
(* the protocol does not need.                                             *)
Types ==
    /\ sent \subseteq Ids /\ acked \subseteq Ids /\ handled \in [Ids -> Nat]
    /\ history \in [0 .. HistorySize - 1 -> [id : {0} \cup Ids, acked : BOOLEAN]]
    /\ active \in Channels \cup {None}
    /\ chan \in [Channels -> ChannelStates]
    /\ guest \in [Channels -> [state : {"none", "started", "closing"}, free : Nat]]
    /\ spy \in SpyStates
    /\ handler \in [Channels -> HandlerStates]

(* The queues of all channels: what is in them, and that it is there once. *)
Queues      == [Channels -> Seq(Ids)]
Elems(Q)    == {i \in Ids : \E c \in Channels : \E k \in 1 .. Len(Q[c]) : Q[c][k] = i}
NoRepeat(Q) == \A c, d \in Channels : \A k \in 1 .. Len(Q[c]) : \A l \in 1 .. Len(Q[d]) :
                  Q[c][k] = Q[d][l] => c = d /\ k = l

(* Packets on their way to Lisp, and acknowledgements on their way to be   *)
(* recorded in the history: on a queue, or in a handler's hands.           *)
ToGuest == [c \in Channels |-> chan[c].toGuest]
ToHost  == [c \in Channels |-> chan[c].toHost]
Held    == [c \in Channels |-> IF handler[c].pc \in {"record id", "record acked"}
                               THEN handler[c].id ELSE 0]
InQueue     == Elems(ToGuest)
Outstanding == {i \in Ids : i \in Elems(ToHost) \/ \E c \in Channels : Held[c] = i}

Unput(i)    == handled[i] = 0 /\ i \notin InQueue
Recorded(i) == handled[i] = 1 /\ i \notin Outstanding
Marking(i)  == spy.pc \in {"mark id", "mark acked"} /\ spy.id = i

(* No packet is in two places on its way to Lisp, nor its acknowledgement  *)
(* on its way back.                                                        *)
Distinct ==
    /\ NoRepeat(ToGuest) /\ NoRepeat(ToHost)
    /\ \A c \in Channels : Held[c] \notin Elems(ToHost)
    /\ \A c, d \in Channels : Held[c] = Held[d] /\ Held[c] # 0 => c = d

(* The debugger keeps to its window, and repeats what is not acknowledged; *)
(* each packet is handled once, on its way, and recorded.                  *)
Window ==
    /\ \A i \in sent, j \in Ids : j <= i - HistorySize => j \in acked /\ Data(j) \notin net
    /\ \A i \in Ids : Data(i) \in net => i \in sent
    /\ \A i \in Ids : i \in sent /\ i \notin acked => Data(i) \in net
    /\ \A i \in Ids : ~Unput(i) => i \in sent
    /\ spy.pc # "receive" => spy.id \in sent
Once ==
    /\ \A i \in Ids : handled[i] \in {0, 1}
    /\ \A i \in InQueue : handled[i] = 0
    /\ \A i \in Outstanding : handled[i] = 1
    /\ \A c \in Channels : handler[c].pc \in {"record id", "record acked", "transmit"}
                              => handler[c].id \in Ids
    /\ \A c \in Channels : handler[c].pc = "transmit" => Recorded(handler[c].id)

(* What was put is remembered as long as a copy of it may come.            *)
Remembered ==
    /\ \A i \in Ids : \/ Data(i) \in net
                      \/ spy.pc \in {"test", "history"} /\ spy.id = i
                      => \/ Unput(i)
                         \/ history[Record(i)].id = i
                         \/ spy.pc = "mark id" /\ spy.id = i
    /\ spy.pc \in {"queues", "take", "put"} => Unput(spy.id)
    /\ spy.pc = "seen" => history[Record(spy.id)].id = spy.id
    /\ spy.pc # "receive" =>
          \A i \in Ids : spy.id < i /\ Record(i) = Record(spy.id) => Unput(i)

(* What is acknowledged was recorded.                                      *)
Honest ==
    /\ \A i \in Ids : i \in acked \/ Ack(i) \in net => Recorded(i)
    /\ \A i \in Ids : history[Record(i)].id = i /\ history[Record(i)].acked
                         => Recorded(i) \/ Marking(i)
    /\ \A c \in Channels : handler[c].pc = "record acked"
                              => history[Record(handler[c].id)].id = handler[c].id

MBINInv == Types /\ Distinct /\ Window /\ Once /\ Remembered /\ Honest

-----------------------------------------------------------------------------
(* Numbers. *)
LEMMA RecordRange ==
  ASSUME NEW i \in Nat
  PROVE  Record(i) \in 0 .. HistorySize - 1
BY MBINChannelAssumption DEF MBINChannelAssumption, Record

(* Two packets with one entry of the history are a window apart.           *)
LEMMA RecordGap ==
  ASSUME NEW i \in Nat, NEW j \in Nat, j < i, Record(i) = Record(j)
  PROVE  j <= i - HistorySize
<1> DEFINE p == i \div HistorySize
           q == j \div HistorySize
           r == i % HistorySize
<1>1. HistorySize \in Nat /\ HistorySize > 0
  BY MBINChannelAssumption DEF MBINChannelAssumption
<1>2. p \in Int /\ q \in Int /\ r \in Int
  BY <1>1
<1>3. i = HistorySize * p + r /\ j = HistorySize * q + r
  BY <1>1 DEF Record
<1> HIDE DEF p, q, r
<1>4. q < p
  <2>1. SUFFICES ASSUME p <= q PROVE FALSE
    BY <1>2
  <2>2. HistorySize * p <= HistorySize * q
    BY <1>1, <1>2, <2>1
  <2> QED BY <1>1, <1>2, <1>3, <2>2
<1>5. HistorySize * q + HistorySize <= HistorySize * p
  BY <1>1, <1>2, <1>4
<1> QED BY <1>1, <1>2, <1>3, <1>5

LEMMA OneIsNotZero == 1 # 0
OBVIOUS

LEMMA NextNat == ASSUME NEW n \in Nat PROVE n + 1 \in Nat
OBVIOUS

LEMMA Later ==
  /\ \A m, n \in Nat : m < n => n # m
  /\ \A m, n \in Nat : m < n \/ n < m \/ m = n
OBVIOUS

(* Sequences. *)
LEMMA TailFacts ==
  ASSUME NEW S, NEW s \in Seq(S), s # <<>>
  PROVE  /\ Tail(s) \in Seq(S) /\ Head(s) \in S
         /\ 1 \in 1 .. Len(s) /\ Head(s) = s[1]
         /\ Len(Tail(s)) = Len(s) - 1
         /\ \A k \in 1 .. Len(Tail(s)) : k + 1 \in 1 .. Len(s) /\ Tail(s)[k] = s[k + 1]
OBVIOUS

LEMMA AppendFacts ==
  ASSUME NEW S, NEW s \in Seq(S), NEW e \in S
  PROVE  /\ Append(s, e) \in Seq(S)
         /\ Len(Append(s, e)) = Len(s) + 1
         /\ Append(s, e)[Len(s) + 1] = e
         /\ \A k \in 1 .. Len(s) : Append(s, e)[k] = s[k]
OBVIOUS

(* Datagrams. *)
LEMMA Datagrams ==
  ASSUME NEW i \in Ids, NEW j \in Ids
  PROVE  /\ Data(i) = Data(j) <=> i = j
         /\ Ack(i) = Ack(j) <=> i = j
         /\ Data(i) # Ack(j)
BY DEF Data, Ack

-----------------------------------------------------------------------------
(* Type correctness: one step for each action. *)
LEMMA ChannelTypes ==
  ASSUME Types, NEW c \in Channels, NEW e \in ChannelStates
  PROVE  [chan EXCEPT ![c] = e] \in [Channels -> ChannelStates]
BY DEF Types

(* A packet goes from one of a channel's queues to the other. *)
LEMMA HandleTurns ==
  ASSUME Types, NEW c \in Channels, HandlePacket(c)
  PROVE  LET i == Head(chan[c].toGuest)
         IN  /\ i \in Ids
             /\ handled' = [handled EXCEPT ![i] = @ + 1]
             /\ chan' \in [Channels -> ChannelStates]
             /\ chan[c].toGuest # <<>>
             /\ chan'[c].toGuest = Tail(chan[c].toGuest)
             /\ chan'[c].toHost = Append(chan[c].toHost, i)
             /\ chan'[c].supply = chan[c].supply + 1 /\ chan'[c].returned = chan[c].returned
             /\ \A d \in Channels : d # c => chan'[d] = chan[d]
<1> DEFINE i == Head(chan[c].toGuest)
           a == Tail(chan[c].toGuest)
           b == Append(chan[c].toHost, i)
<1>1. chan[c] \in ChannelStates /\ chan \in [Channels -> ChannelStates]
  BY DEF Types
<1>2. /\ handled' = [handled EXCEPT ![i] = @ + 1]
      /\ chan' = [chan EXCEPT ![c].toGuest = a, ![c].supply = @ + 1, ![c].toHost = b,
                              ![c].signal = TRUE]
      /\ chan[c].toGuest # <<>>
  BY DEF HandlePacket
<1>3. i \in Ids /\ a \in Seq(Ids)
  BY <1>1, <1>2, TailFacts, Zenon DEF ChannelStates
<1>4. b \in Seq(Ids)
  BY <1>1, <1>3, AppendFacts, Zenon DEF ChannelStates
<1> HIDE DEF i, a, b
<1>5. chan'[c] = [supply |-> chan[c].supply + 1, toGuest |-> a, toHost |-> b,
                  returned |-> chan[c].returned, impulse |-> chan[c].impulse, signal |-> TRUE]
  BY <1>1, <1>2 DEF ChannelStates
<1>6. \A d \in Channels : d # c => chan'[d] = chan[d]
  BY <1>1, <1>2
<1>7. chan' = [d \in Channels |-> chan'[d]]
  BY <1>1, <1>2
<1>8. chan[c].supply + 1 \in Nat /\ chan[c].returned \in Nat /\ chan[c].impulse \in BOOLEAN
  BY <1>1 DEF ChannelStates
<1>9. chan'[c] \in ChannelStates
  BY ONLY <1>3, <1>4, <1>5, <1>8 DEF ChannelStates
<1>10. \A d \in Channels : chan'[d] \in ChannelStates
  BY ONLY <1>1, <1>6, <1>9
<1>11. chan' \in [Channels -> ChannelStates]
  BY ONLY <1>7, <1>10
<1>12. /\ chan'[c].toGuest = a /\ chan'[c].toHost = b
       /\ chan'[c].supply = chan[c].supply + 1 /\ chan'[c].returned = chan[c].returned
  BY ONLY <1>5
<1> QED BY <1>2, <1>3, <1>6, <1>11, <1>12 DEF i, a, b

LEMMA SpyTypes ==
  ASSUME Types, NEW pc, SpyGoes(pc),
         pc \in {"receive", "test", "history", "seen", "queues", "take", "put",
                 "mark id", "mark acked"}
  PROVE  spy' \in SpyStates
BY DEF Types, SpyGoes, SpyStates

LEMMA LispTypes ==
  ASSUME Types, NEW c \in Channels,
         StartMBIN(c) \/ ShutDown(c) \/ PollImpulse(c) \/ HandlePacket(c) \/ TakeReturned(c)
  PROVE  Types'
<1>1. chan[c] \in ChannelStates /\ guest[c] \in [state : {"none", "started", "closing"}, free : Nat]
  BY DEF Types
<1>2. CASE StartMBIN(c)
  <2>1. guest' \in [Channels -> [state : {"none", "started", "closing"}, free : Nat]]
    BY <1>2 DEF Types, StartMBIN
  <2> QED BY <1>2, <2>1 DEF Types, StartMBIN, Host
<1>3. CASE ShutDown(c)
  <2>1. guest' \in [Channels -> [state : {"none", "started", "closing"}, free : Nat]]
    BY <1>3 DEF Types, ShutDown
  <2>2. [chan[c] EXCEPT !.impulse = TRUE] \in ChannelStates
    BY <1>1 DEF ChannelStates
  <2>3. chan' \in [Channels -> ChannelStates]
    BY <1>3, <2>2, ChannelTypes DEF ShutDown
  <2> QED BY <1>3, <2>1, <2>3 DEF Types, ShutDown, Host
<1>4. CASE PollImpulse(c)
  <2>1. [chan[c] EXCEPT !.signal = TRUE] \in ChannelStates
    BY <1>1 DEF ChannelStates
  <2>2. chan' \in [Channels -> ChannelStates]
    BY <1>4, <2>1, ChannelTypes DEF PollImpulse
  <2> QED BY <1>4, <2>2 DEF Types, PollImpulse, Host
<1>5. CASE HandlePacket(c)
  <2> DEFINE i == Head(chan[c].toGuest)
  <2>1. /\ i \in Ids /\ handled' = [handled EXCEPT ![i] = @ + 1]
        /\ chan' \in [Channels -> ChannelStates]
    BY <1>5, HandleTurns
  <2>2. guest[c].free - 1 \in Nat /\ guest' = [guest EXCEPT ![c].free = @ - 1]
    BY <1>1, <1>5 DEF HandlePacket
  <2> HIDE DEF i
  <2>3. guest' \in [Channels -> [state : {"none", "started", "closing"}, free : Nat]]
    BY <2>2 DEF Types
  <2>4. handled' \in [Ids -> Nat]
    BY <2>1 DEF Types
  <2> QED BY <1>5, <2>1, <2>3, <2>4 DEF Types, HandlePacket, Host
<1>6. CASE TakeReturned(c)
  <2>1. [chan[c] EXCEPT !.returned = @ - 1] \in ChannelStates
    BY <1>1, <1>6, SMTT(30) DEF ChannelStates, TakeReturned
  <2>2. chan' \in [Channels -> ChannelStates]
    <3>1. chan' = [chan EXCEPT ![c] = [chan[c] EXCEPT !.returned = @ - 1]]
      BY <1>6 DEF TakeReturned
    <3> QED BY <3>1, <2>1, ChannelTypes
  <2>3. guest' \in [Channels -> [state : {"none", "started", "closing"}, free : Nat]]
    BY <1>1, <1>6, SMTT(30) DEF Types, TakeReturned
  <2> QED BY <1>6, <2>2, <2>3 DEF Types, TakeReturned, Host
<1> QED BY <1>2, <1>3, <1>4, <1>5, <1>6

LEMMA OutsideTypes ==
  ASSUME Types, NEW i \in Ids,
         Send(i) \/ Acknowledged(i) \/ Lose(Data(i)) \/ Lose(Ack(i)) \/ Receive(i)
  PROVE  Types'
<1>1. CASE Receive(i)
  <2>1. spy' \in SpyStates
    BY <1>1 DEF Receive, SpyStates
  <2> QED BY <1>1, <2>1 DEF Types, Receive
<1>2. CASE Send(i) \/ Acknowledged(i) \/ Lose(Data(i)) \/ Lose(Ack(i))
  BY <1>2 DEF Types, Send, Acknowledged, Lose, Outside
<1> QED BY <1>1, <1>2

(* What the spy's thread does to the queues: it puts its packet for Lisp.  *)
LEMMA PutAppends ==
  ASSUME Types, spy.id \in Ids, PutPacket, ~NullFollowed
  PROVE  /\ active \in Channels
         /\ chan' \in [Channels -> ChannelStates]
         /\ chan'[active].toGuest = Append(chan[active].toGuest, spy.id)
         /\ chan'[active].toHost = chan[active].toHost
         /\ chan'[active].supply = chan[active].supply
         /\ chan'[active].returned = chan[active].returned
         /\ \A d \in Channels : d # active => chan'[d] = chan[d]
<1> DEFINE a == Append(chan[active].toGuest, spy.id)
<1>1. active \in Channels /\ chan' = [chan EXCEPT ![active].toGuest = a]
  BY DEF PutPacket, Types
<1>2. chan[active] \in ChannelStates /\ chan \in [Channels -> ChannelStates]
  BY <1>1 DEF Types
<1>3. a \in Seq(Ids)
  BY <1>2, AppendFacts, Zenon DEF ChannelStates
<1> HIDE DEF a
<1> QED BY <1>1, <1>2, <1>3 DEF ChannelStates, a

LEMMA SpyStepTypes ==
  ASSUME Types, spy.pc # "receive" => spy.id \in Ids, SpyStep
  PROVE  Types'
<1>1. CASE NullFollowed
  BY <1>1 DEF Types, NullFollowed
<1>2. CASE TestActive
  <2>1. spy' \in SpyStates
    BY <1>2, SpyTypes DEF TestActive
  <2> QED BY <1>2, <2>1 DEF Types, TestActive, SpyGoes
<1>3. CASE TestHistory
  <2>1. spy' \in SpyStates
    BY <1>3, SpyTypes DEF TestHistory
  <2> QED BY <1>3, <2>1 DEF Types, TestHistory, SpyGoes
<1>4. CASE AcknowledgeSeen
  <2>1. spy' \in SpyStates
    BY <1>4, SpyTypes DEF AcknowledgeSeen
  <2> QED BY <1>4, <2>1 DEF Types, AcknowledgeSeen, SpyGoes
<1>5. CASE TestQueues /\ ~NullFollowed
  <2>1. spy' \in SpyStates
    BY <1>5, SpyTypes DEF TestQueues
  <2> QED BY <1>5, <2>1 DEF Types, TestQueues, SpyGoes
<1>6. CASE TakeBuffer /\ ~NullFollowed
  <2>1. spy' \in SpyStates
    BY <1>6, SpyTypes DEF TakeBuffer
  <2>2. CASE UNCHANGED chan
    BY <1>6, <2>1, <2>2 DEF Types, TakeBuffer, SpyGoes
  <2>3. CASE chan[active].supply > 0
    <3>1. active \in Channels /\ chan' = [chan EXCEPT ![active].supply = @ - 1]
      BY <1>6, <2>3 DEF Types, TakeBuffer
    <3>2. chan[active].supply - 1 \in Nat /\ chan \in [Channels -> ChannelStates]
      BY <2>3, <3>1 DEF Types, ChannelStates
    <3>3. chan' \in [Channels -> ChannelStates]
      BY <3>1, <3>2 DEF ChannelStates
    <3> QED BY <1>6, <2>1, <3>3 DEF Types, TakeBuffer, SpyGoes
  <2> QED BY <1>6, <2>2, <2>3 DEF TakeBuffer
<1>7. CASE PutPacket /\ ~NullFollowed
  <2>1. spy' \in SpyStates
    BY <1>7, SpyTypes DEF PutPacket
  <2>2. chan' \in [Channels -> ChannelStates]
    BY <1>7, PutAppends DEF PutPacket, Spy
  <2> QED BY <1>7, <2>1, <2>2 DEF Types, PutPacket, SpyGoes
<1>8. CASE MarkId \/ MarkNotAcked
  <2>1. spy' \in SpyStates
    BY <1>8, SpyTypes DEF MarkId, MarkNotAcked
  <2>2. history' \in [0 .. HistorySize - 1 -> [id : {0} \cup Ids, acked : BOOLEAN]]
    BY <1>8, ZenonT(30) DEF Types, MarkId, MarkNotAcked, Spy
  <2> QED BY <1>8, <2>1, <2>2 DEF Types, MarkId, MarkNotAcked, SpyGoes
<1> QED BY <1>1, <1>2, <1>3, <1>4, <1>5, <1>6, <1>7, <1>8 DEF SpyStep

LEMMA HandlerTypes ==
  ASSUME Types, NEW c \in Channels, NEW pc, NEW i \in {0} \cup Ids, HandlerGoes(c, pc, i),
         pc \in {"wait", "deactivate", "reset", "gone", "loop", "record id", "record acked",
                 "transmit", "return"}
  PROVE  /\ handler' \in [Channels -> HandlerStates]
         /\ handler'[c] = [pc |-> pc, id |-> i]
         /\ \A d \in Channels : d # c => handler'[d] = handler[d]
BY DEF Types, HandlerGoes, HandlerStates

(* An acknowledgement is taken from its queue. *)
LEMMA AckTaken ==
  ASSUME Types, NEW c \in Channels, TakeAck(c)
  PROVE  LET i == Head(chan[c].toHost)
         IN  /\ i \in Ids /\ chan[c].toHost # <<>>
             /\ chan' \in [Channels -> ChannelStates]
             /\ chan'[c].toHost = Tail(chan[c].toHost)
             /\ chan'[c].toGuest = chan[c].toGuest
             /\ chan'[c].supply = chan[c].supply /\ chan'[c].returned = chan[c].returned
             /\ \A d \in Channels : d # c => chan'[d] = chan[d]
             /\ HandlerGoes(c, "record id", i)
<1> DEFINE i == Head(chan[c].toHost)
           a == Tail(chan[c].toHost)
<1>1. /\ chan[c].toHost # <<>> /\ chan' = [chan EXCEPT ![c].toHost = a]
      /\ HandlerGoes(c, "record id", i)
  BY DEF TakeAck
<1>2. chan[c] \in ChannelStates /\ chan \in [Channels -> ChannelStates]
  BY DEF Types
<1>3. i \in Ids /\ a \in Seq(Ids)
  BY <1>1, <1>2, TailFacts, Zenon DEF ChannelStates
<1> HIDE DEF i, a
<1>4. /\ chan' \in [Channels -> ChannelStates]
      /\ chan'[c].toHost = a /\ chan'[c].toGuest = chan[c].toGuest
      /\ chan'[c].supply = chan[c].supply /\ chan'[c].returned = chan[c].returned
      /\ \A d \in Channels : d # c => chan'[d] = chan[d]
  BY <1>1, <1>2, <1>3 DEF ChannelStates
<1> QED BY <1>1, <1>3, <1>4 DEF i, a

(* Both queues are emptied. *)
LEMMA QueuesEmptied ==
  ASSUME Types, NEW c \in Channels, ResetQueues(c)
  PROVE  /\ chan' \in [Channels -> ChannelStates]
         /\ chan'[c].toHost = <<>> /\ chan'[c].toGuest = <<>>
         /\ chan'[c].supply = 0 /\ chan'[c].returned = 0
         /\ \A d \in Channels : d # c => chan'[d] = chan[d]
<1>1. chan' = [chan EXCEPT ![c].toHost = <<>>, ![c].returned = 0, ![c].supply = 0,
                           ![c].toGuest = <<>>, ![c].impulse = FALSE]
  BY DEF ResetQueues
<1>2. chan[c] \in ChannelStates /\ chan \in [Channels -> ChannelStates]
  BY DEF Types
<1>3. chan'[c] = [supply |-> 0, toGuest |-> <<>>, toHost |-> <<>>, returned |-> 0,
                  impulse |-> FALSE, signal |-> chan[c].signal]
  BY <1>1, <1>2 DEF ChannelStates
<1>4. chan[c].signal \in BOOLEAN
  BY <1>2 DEF ChannelStates
<1>5. <<>> \in Seq(Ids)
  OBVIOUS
<1>6. chan'[c] \in ChannelStates
  BY ONLY <1>3, <1>4, <1>5 DEF ChannelStates
<1>7. \A d \in Channels : d # c => chan'[d] = chan[d]
  BY <1>1, <1>2
<1>8. chan' = [d \in Channels |-> chan'[d]]
  BY <1>1, <1>2
<1>9. chan' \in [Channels -> ChannelStates]
  <2>1. \A d \in Channels : chan'[d] \in ChannelStates
    BY ONLY <1>2, <1>6, <1>7
  <2> QED BY ONLY <1>8, <2>1
<1>10. /\ chan'[c].toHost = <<>> /\ chan'[c].toGuest = <<>>
       /\ chan'[c].supply = 0 /\ chan'[c].returned = 0
  BY ONLY <1>3
<1> QED BY <1>7, <1>9, <1>10

LEMMA HandlerStepTypes ==
  ASSUME Types, NEW c \in Channels, HandlerStep(c),
         handler[c].pc \in {"record id", "record acked", "transmit"} => handler[c].id \in Ids
  PROVE  Types'
<1> DEFINE E == [id : {0} \cup Ids, acked : BOOLEAN]
<1>1. chan[c] \in ChannelStates /\ chan \in [Channels -> ChannelStates]
  BY DEF Types
<1>2. CASE Signalled(c)
  <2>1. handler' \in [Channels -> HandlerStates]
    BY <1>2, HandlerTypes DEF Signalled
  <2>2. chan' \in [Channels -> ChannelStates]
    BY <1>1, <1>2 DEF Signalled, ChannelStates
  <2> QED BY <1>2, <2>1, <2>2 DEF Types, Signalled, HandlerGoes
<1>3. CASE Deactivate(c)
  <2>1. handler' \in [Channels -> HandlerStates]
    BY <1>3, HandlerTypes DEF Deactivate
  <2> QED BY <1>3, <2>1 DEF Types, Deactivate, HandlerGoes
<1>4. CASE ResetQueues(c)
  <2>1. handler' \in [Channels -> HandlerStates]
    BY <1>4, HandlerTypes DEF ResetQueues
  <2> QED BY <1>4, <2>1, QueuesEmptied DEF Types, ResetQueues, HandlerGoes
<1>5. CASE TakeAck(c)
  <2>1. handler' \in [Channels -> HandlerStates] /\ chan' \in [Channels -> ChannelStates]
    BY <1>5, AckTaken, HandlerTypes
  <2> QED BY <1>5, <2>1 DEF Types, TakeAck, HandlerGoes
<1>6. CASE EndLoop(c)
  <2>1. handler' \in [Channels -> HandlerStates]
    BY <1>6, HandlerTypes DEF EndLoop
  <2>2. (chan[c].signal \/ chan[c].toHost # <<>>) \in BOOLEAN
    OBVIOUS
  <2>3. chan' \in [Channels -> ChannelStates]
    BY <1>1, <1>6, <2>2 DEF EndLoop, ChannelStates
  <2> QED BY <1>6, <2>1, <2>3 DEF Types, EndLoop, HandlerGoes
<1>7. CASE RecordId(c)
  <2>1. handler' \in [Channels -> HandlerStates]
    BY <1>7, HandlerTypes DEF RecordId, Handler
  <2>2. history' \in [0 .. HistorySize - 1 -> E]
    BY <1>7 DEF Types, RecordId, Handler
  <2> QED BY <1>7, <2>1, <2>2 DEF Types, RecordId, HandlerGoes
<1>8. CASE RecordAcked(c)
  <2>1. handler' \in [Channels -> HandlerStates]
    BY <1>8, HandlerTypes DEF RecordAcked, Handler
  <2>2. history' \in [0 .. HistorySize - 1 -> E]
    BY <1>8 DEF Types, RecordAcked, Handler
  <2> QED BY <1>8, <2>1, <2>2 DEF Types, RecordAcked, HandlerGoes
<1>9. CASE Transmit(c)
  <2>1. handler' \in [Channels -> HandlerStates]
    BY <1>9, HandlerTypes DEF Transmit
  <2> QED BY <1>9, <2>1 DEF Types, Transmit, HandlerGoes
<1>10. CASE ReturnBuffer(c)
  <2>1. handler' \in [Channels -> HandlerStates]
    BY <1>10, HandlerTypes DEF ReturnBuffer
  <2>2. chan[c].returned + 1 \in Nat
    <3>1. chan[c].returned \in Nat
      BY <1>1 DEF ChannelStates
    <3> QED BY <3>1, NextNat, Zenon
  <2>3. chan' = [chan EXCEPT ![c].returned = chan[c].returned + 1]
    BY <1>10 DEF ReturnBuffer
  <2>4. chan' \in [Channels -> ChannelStates]
    BY <1>1, <2>2, <2>3 DEF ChannelStates
  <2> QED BY <1>10, <2>1, <2>4 DEF Types, ReturnBuffer, HandlerGoes
<1> QED
  BY <1>2, <1>3, <1>4, <1>5, <1>6, <1>7, <1>8, <1>9, <1>10 DEF HandlerStep

-----------------------------------------------------------------------------
(* One of the queues grows at its end, loses its head, or is emptied. *)
LEMMA Grows ==
  ASSUME NEW Q \in Queues, NEW R \in Queues, NEW c \in Channels, NEW e \in Ids,
         R[c] = Append(Q[c], e), \A d \in Channels : d # c => R[d] = Q[d]
  PROVE  /\ Elems(R) = Elems(Q) \cup {e}
         /\ NoRepeat(Q) /\ e \notin Elems(Q) => NoRepeat(R)
<1> DEFINE n == Len(Q[c])
<1>1. /\ n \in Nat /\ Len(R[c]) = n + 1 /\ R[c][n + 1] = e
      /\ \A k \in 1 .. n : R[c][k] = Q[c][k]
  BY AppendFacts DEF Queues
<1>2. /\ \A k \in 1 .. n + 1 : k = n + 1 \/ k \in 1 .. n
      /\ 1 .. n \subseteq 1 .. n + 1 /\ n + 1 \in 1 .. n + 1
  BY <1>1
<1>3. \A k \in 1 .. Len(R[c]) : \/ k = n + 1 /\ R[c][k] = e
                                \/ k \in 1 .. n /\ R[c][k] = Q[c][k]
  BY <1>1, <1>2
<1>4. \A k \in 1 .. n : k \in 1 .. Len(R[c]) /\ R[c][k] = Q[c][k]
  BY <1>1, <1>2
<1>5. \E k \in 1 .. Len(R[c]) : R[c][k] = e
  BY <1>1, <1>2
<1>6. Elems(R) = Elems(Q) \cup {e}
  <2>1. ASSUME NEW i \in Elems(R) PROVE i \in Elems(Q) \cup {e}
    <3>1. PICK d \in Channels : \E k \in 1 .. Len(R[d]) : R[d][k] = i
      BY <2>1 DEF Elems
    <3>2. i = e \/ \E k \in 1 .. Len(Q[d]) : Q[d][k] = i
      BY <1>3, <3>1
    <3> QED BY <2>1, <3>2 DEF Elems
  <2>2. ASSUME NEW i \in Elems(Q) PROVE i \in Elems(R)
    <3>1. PICK d \in Channels : \E k \in 1 .. Len(Q[d]) : Q[d][k] = i
      BY <2>2 DEF Elems
    <3>2. \E k \in 1 .. Len(R[d]) : R[d][k] = i
      BY <1>4, <3>1
    <3> QED BY <2>2, <3>2 DEF Elems
  <2>3. e \in Elems(R)
    BY <1>5 DEF Elems
  <2> QED BY <2>1, <2>2, <2>3
<1>7. ASSUME NoRepeat(Q), e \notin Elems(Q) PROVE NoRepeat(R)
  <2>1. \A d \in Channels : \A l \in 1 .. Len(Q[d]) : Q[d][l] # e
    BY <1>7 DEF Elems
  <2>2. SUFFICES ASSUME NEW a \in Channels, NEW b \in Channels, NEW k \in 1 .. Len(R[a]),
                        NEW l \in 1 .. Len(R[b]), R[a][k] = R[b][l]
                 PROVE  a = b /\ k = l
    BY DEF NoRepeat
  <2> HIDE DEF n
  <2>3. \/ R[a][k] = e /\ a = c /\ k = n + 1
        \/ k \in 1 .. Len(Q[a]) /\ R[a][k] = Q[a][k]
    BY <1>3 DEF n
  <2>4. \/ R[b][l] = e /\ b = c /\ l = n + 1
        \/ l \in 1 .. Len(Q[b]) /\ R[b][l] = Q[b][l]
    BY <1>3 DEF n
  <2>5. CASE R[a][k] = e
    BY <2>1, <2>2, <2>3, <2>4, <2>5
  <2>6. CASE R[a][k] # e
    BY <1>7, <2>2, <2>3, <2>4, <2>6 DEF NoRepeat
  <2> QED BY <2>5, <2>6
<1> QED BY <1>6, <1>7

LEMMA Shrinks ==
  ASSUME NEW Q \in Queues, NEW R \in Queues, NEW c \in Channels, Q[c] # <<>>,
         R[c] = Tail(Q[c]), \A d \in Channels : d # c => R[d] = Q[d], NoRepeat(Q)
  PROVE  /\ Head(Q[c]) \in Elems(Q) /\ Elems(R) = Elems(Q) \ {Head(Q[c])}
         /\ NoRepeat(R)
<1> DEFINE n == Len(Q[c])
           e == Head(Q[c])
<1>1. /\ n \in Nat /\ 1 \in 1 .. n /\ e = Q[c][1] /\ e \in Ids /\ Len(R[c]) = n - 1
      /\ \A k \in 1 .. n - 1 : k + 1 \in 1 .. n /\ R[c][k] = Q[c][k + 1]
  BY TailFacts DEF Queues
<1>2. \A k \in 1 .. n : k = 1 \/ (k - 1 \in 1 .. n - 1 /\ (k - 1) + 1 = k)
  BY <1>1
<1>3. \A k \in 1 .. Len(R[c]) : k + 1 \in 1 .. n /\ k + 1 # 1 /\ R[c][k] = Q[c][k + 1]
  BY <1>1
<1>4. \A k \in 1 .. n : k = 1 \/ \E l \in 1 .. Len(R[c]) : R[c][l] = Q[c][k]
  <2>1. SUFFICES ASSUME NEW k \in 1 .. n, k # 1
                 PROVE  \E l \in 1 .. Len(R[c]) : R[c][l] = Q[c][k]
    OBVIOUS
  <2>2. k - 1 \in 1 .. Len(R[c]) /\ R[c][k - 1] = Q[c][k]
    BY <1>1, <1>2, <2>1
  <2> QED BY <2>2
<1> HIDE DEF n, e
<1>5. e \in Elems(Q)
  BY <1>1 DEF Elems, n
<1>6. \A d \in Channels : \A l \in 1 .. Len(R[d]) :
         \E k \in 1 .. Len(Q[d]) : Q[d][k] = R[d][l] /\ (d = c => k # 1)
  BY <1>3 DEF n
<1>7. e \notin Elems(R)
  <2>1. SUFFICES ASSUME NEW d \in Channels, NEW l \in 1 .. Len(R[d]), R[d][l] = e
                 PROVE  FALSE
    BY DEF Elems
  <2>2. PICK k \in 1 .. Len(Q[d]) : Q[d][k] = e /\ (d = c => k # 1)
    BY <1>6, <2>1
  <2> QED BY <1>1, <2>2 DEF NoRepeat, n
<1>8. Elems(R) = Elems(Q) \ {e}
  <2>1. ASSUME NEW i \in Elems(R) PROVE i \in Elems(Q)
    <3>1. PICK d \in Channels : \E k \in 1 .. Len(R[d]) : R[d][k] = i
      BY <2>1 DEF Elems
    <3>2. \E k \in 1 .. Len(Q[d]) : Q[d][k] = i
      BY <1>6, <3>1
    <3> QED BY <2>1, <3>2 DEF Elems
  <2>2. ASSUME NEW i \in Elems(Q), i # e PROVE i \in Elems(R)
    <3>1. PICK d \in Channels : \E k \in 1 .. Len(Q[d]) : Q[d][k] = i
      BY <2>2 DEF Elems
    <3>2. CASE d = c
      <4>1. PICK k \in 1 .. n : Q[c][k] = i
        BY <3>1, <3>2 DEF n
      <4>2. k # 1
        BY <1>1, <2>2, <4>1
      <4> QED BY <1>4, <2>2, <3>2, <4>1, <4>2 DEF Elems
    <3>3. CASE d # c
      BY <2>2, <3>1, <3>3 DEF Elems
    <3> QED BY <3>2, <3>3
  <2> QED BY <1>7, <2>1, <2>2
<1>9. NoRepeat(R)
  <2>1. SUFFICES ASSUME NEW a \in Channels, NEW b \in Channels, NEW k \in 1 .. Len(R[a]),
                        NEW l \in 1 .. Len(R[b]), R[a][k] = R[b][l]
                 PROVE  a = b /\ k = l
    BY DEF NoRepeat
  <2> DEFINE u == IF a = c THEN k + 1 ELSE k
             v == IF b = c THEN l + 1 ELSE l
  <2>2. u \in 1 .. Len(Q[a]) /\ Q[a][u] = R[a][k]
    BY <1>3 DEF n
  <2>3. v \in 1 .. Len(Q[b]) /\ Q[b][v] = R[b][l]
    BY <1>3 DEF n
  <2>4. k \in Int /\ l \in Int
    OBVIOUS
  <2>5. a = b /\ u = v
    <3> HIDE DEF u, v
    <3> QED BY <2>1, <2>2, <2>3 DEF NoRepeat
  <2> QED BY <2>4, <2>5
<1> QED BY <1>5, <1>8, <1>9 DEF e

LEMMA Empties ==
  ASSUME NEW Q \in Queues, NEW R \in Queues, NEW c \in Channels,
         R[c] = <<>>, \A d \in Channels : d # c => R[d] = Q[d]
  PROVE  Elems(R) \subseteq Elems(Q) /\ (NoRepeat(Q) => NoRepeat(R))
<1>1. 1 .. Len(R[c]) = {}
  OBVIOUS
<1>2. Elems(R) \subseteq Elems(Q)
  BY <1>1 DEF Elems
<1>3. ASSUME NoRepeat(Q) PROVE NoRepeat(R)
  <2>1. SUFFICES ASSUME NEW a \in Channels, NEW b \in Channels, NEW k \in 1 .. Len(R[a]),
                        NEW l \in 1 .. Len(R[b]), R[a][k] = R[b][l]
                 PROVE  a = b /\ k = l
    BY DEF NoRepeat
  <2>2. a # c /\ b # c
    BY <1>1, <2>1
  <2> QED BY <1>3, <2>1, <2>2 DEF NoRepeat
<1> QED BY <1>2, <1>3

(* What becomes of the packets under way in each step that touches them.   *)
LEMMA ViewTypes ==
  ASSUME Types
  PROVE  /\ ToGuest \in Queues /\ ToHost \in Queues
         /\ Held \in [Channels -> {0} \cup Ids] /\ 0 \notin Ids
<1>1. \A c \in Channels : /\ chan[c].toGuest \in Seq(Ids) /\ chan[c].toHost \in Seq(Ids)
                          /\ handler[c].id \in {0} \cup Ids
  BY DEF Types, ChannelStates, HandlerStates
<1>2. ToGuest \in Queues /\ ToHost \in Queues
  BY <1>1 DEF ToGuest, ToHost, Queues
<1>3. Held \in [Channels -> {0} \cup Ids]
  BY <1>1 DEF Held
<1> QED BY <1>2, <1>3 DEF Ids

LEMMA ViewTypesNext ==
  ASSUME Types'
  PROVE  ToGuest' \in Queues /\ ToHost' \in Queues
<1>1. \A c \in Channels : chan'[c].toGuest \in Seq(Ids) /\ chan'[c].toHost \in Seq(Ids)
  BY DEF Types, ChannelStates
<1> QED BY <1>1 DEF ToGuest, ToHost, Queues

LEMMA HandlerMoves ==
  ASSUME Types, NEW c \in Channels, NEW pc, NEW i, HandlerGoes(c, pc, i)
  PROVE  /\ handler'[c].pc = pc /\ handler'[c].id = i
         /\ \A d \in Channels : d # c => handler'[d] = handler[d]
BY DEF Types, HandlerGoes

LEMMA NothingMoves ==
  ASSUME Distinct, ToGuest' = ToGuest, ToHost' = ToHost, Held' = Held
  PROVE  InQueue' = InQueue /\ Outstanding' = Outstanding /\ Distinct'
BY DEF InQueue, Outstanding, Distinct, Elems, NoRepeat

LEMMA PutMoves ==
  ASSUME Types, Types', Distinct, spy.id \in Ids, spy.id \notin InQueue,
         PutPacket, ~NullFollowed
  PROVE  /\ InQueue' = InQueue \cup {spy.id}
         /\ Outstanding' = Outstanding /\ Distinct'
<1>1. /\ active \in Channels /\ ToGuest'[active] = Append(ToGuest[active], spy.id)
      /\ \A d \in Channels : d # active => ToGuest'[d] = ToGuest[d]
      /\ ToHost' = ToHost
  BY PutAppends DEF ToGuest, ToHost
<1>2. Held' = Held
  BY DEF PutPacket, SpyGoes, Held
<1>3. ToGuest \in Queues /\ ToGuest' \in Queues
  BY ViewTypes, ViewTypesNext
<1>4. InQueue' = InQueue \cup {spy.id} /\ NoRepeat(ToGuest')
  BY <1>1, <1>3, Grows DEF InQueue, Distinct
<1> QED BY <1>1, <1>2, <1>4 DEF Outstanding, Distinct, Elems, NoRepeat

LEMMA HandleMoves ==
  ASSUME Types, Types', Distinct, NEW c \in Channels, HandlePacket(c),
         Head(chan[c].toGuest) \notin Outstanding
  PROVE  LET i == Head(chan[c].toGuest)
         IN  /\ i \in InQueue /\ InQueue' = InQueue \ {i}
             /\ Outstanding' = Outstanding \cup {i} /\ Distinct'
<1> DEFINE i == Head(chan[c].toGuest)
<1>1. /\ i \in Ids /\ ToGuest[c] # <<>> /\ i = Head(ToGuest[c])
      /\ ToGuest'[c] = Tail(ToGuest[c]) /\ ToHost'[c] = Append(ToHost[c], i)
      /\ \A d \in Channels : d # c => ToGuest'[d] = ToGuest[d] /\ ToHost'[d] = ToHost[d]
  BY HandleTurns DEF ToGuest, ToHost
<1>2. Held' = Held
  BY DEF HandlePacket, Host, Held
<1>3. i \notin Outstanding
  OBVIOUS
<1> HIDE DEF i
<1>4. /\ ToGuest \in Queues /\ ToGuest' \in Queues /\ ToHost \in Queues /\ ToHost' \in Queues
  BY ViewTypes, ViewTypesNext
<1>5. i \in InQueue /\ InQueue' = InQueue \ {i} /\ NoRepeat(ToGuest')
  BY <1>1, <1>4, Shrinks DEF InQueue, Distinct
<1>6. i \notin Elems(ToHost) /\ \A d \in Channels : Held[d] # i
  BY <1>1, <1>3 DEF Outstanding
<1>7. Elems(ToHost') = Elems(ToHost) \cup {i} /\ NoRepeat(ToHost')
  BY <1>1, <1>4, <1>6, Grows DEF Distinct
<1>8. Outstanding' = Outstanding \cup {i}
  BY <1>1, <1>2, <1>7 DEF Outstanding
<1>9. Distinct'
  BY <1>2, <1>5, <1>6, <1>7 DEF Distinct
<1> QED BY <1>5, <1>8, <1>9 DEF i

LEMMA ResetMoves ==
  ASSUME Types, Types', Distinct, NEW c \in Channels, ResetQueues(c)
  PROVE  InQueue' \subseteq InQueue /\ Outstanding' \subseteq Outstanding /\ Distinct'
<1>1. /\ ToHost'[c] = <<>> /\ ToGuest'[c] = <<>>
      /\ \A d \in Channels : d # c => ToGuest'[d] = ToGuest[d] /\ ToHost'[d] = ToHost[d]
  BY QueuesEmptied DEF ToGuest, ToHost
<1>2. Held' = Held
  <2>1. handler[c].pc = "reset" /\ handler'[c].pc = "gone"
        /\ \A d \in Channels : d # c => handler'[d] = handler[d]
    <3>1. handler[c].pc = "reset" /\ HandlerGoes(c, "gone", 0)
      BY DEF ResetQueues, Handler
    <3> QED BY <3>1, HandlerMoves
  <2> QED BY <2>1 DEF Held
<1>3. /\ ToGuest \in Queues /\ ToGuest' \in Queues /\ ToHost \in Queues /\ ToHost' \in Queues
  BY ViewTypes, ViewTypesNext
<1>4. InQueue' \subseteq InQueue /\ NoRepeat(ToGuest')
  BY <1>1, <1>3, Empties DEF InQueue, Distinct
<1>5. Elems(ToHost') \subseteq Elems(ToHost) /\ NoRepeat(ToHost')
  BY <1>1, <1>3, Empties DEF Distinct
<1>6. Outstanding' \subseteq Outstanding
  BY <1>2, <1>5 DEF Outstanding
<1>7. Distinct'
  BY <1>2, <1>4, <1>5 DEF Distinct
<1> QED BY <1>4, <1>6, <1>7

LEMMA TakeMoves ==
  ASSUME Types, Types', Distinct, NEW c \in Channels, TakeAck(c)
  PROVE  InQueue' = InQueue /\ Outstanding' = Outstanding /\ Distinct'
<1> DEFINE i == Head(chan[c].toHost)
<1>1. /\ i \in Ids /\ ToHost[c] # <<>> /\ i = Head(ToHost[c])
      /\ ToHost'[c] = Tail(ToHost[c]) /\ ToGuest' = ToGuest
      /\ \A d \in Channels : d # c => ToHost'[d] = ToHost[d]
      /\ HandlerGoes(c, "record id", i)
  BY AckTaken DEF ToGuest, ToHost
<1> HIDE DEF i
<1>2. handler[c].pc = "loop"
  BY DEF TakeAck, Handler
<1>3. Held[c] = 0 /\ Held'[c] = i /\ \A d \in Channels : d # c => Held'[d] = Held[d]
  <2>1. handler'[c].pc = "record id" /\ handler'[c].id = i
        /\ \A d \in Channels : d # c => handler'[d] = handler[d]
    BY <1>1, HandlerMoves, ZenonT(30)
  <2> QED BY <1>2, <2>1 DEF Held
<1>4. ToHost \in Queues /\ ToHost' \in Queues /\ 0 \notin Ids
  BY ViewTypes, ViewTypesNext
<1>5. i \in Elems(ToHost) /\ Elems(ToHost') = Elems(ToHost) \ {i} /\ NoRepeat(ToHost')
  <2>1. NoRepeat(ToHost)
    BY DEF Distinct
  <2>2. /\ ToHost[c] # <<>> /\ ToHost'[c] = Tail(ToHost[c])
        /\ \A d \in Channels : d # c => ToHost'[d] = ToHost[d]
    BY <1>1
  <2>3. /\ Head(ToHost[c]) \in Elems(ToHost)
        /\ Elems(ToHost') = Elems(ToHost) \ {Head(ToHost[c])} /\ NoRepeat(ToHost')
    BY <1>4, <2>1, <2>2, Shrinks
  <2> QED BY <1>1, <2>3
<1>6. InQueue' = InQueue
  BY <1>1 DEF InQueue, Elems
<1>7. Outstanding' = Outstanding
  BY <1>1, <1>3, <1>4, <1>5 DEF Outstanding
<1>8. Distinct'
  <2>1. \A d \in Channels : d # c => Held[d] # i
    BY <1>5 DEF Distinct
  <2>2. NoRepeat(ToGuest')
    BY <1>1 DEF Distinct
  <2>3. \A d \in Channels : Held'[d] \notin Elems(ToHost')
    BY <1>3, <1>5 DEF Distinct
  <2>4. \A a, d \in Channels : Held'[a] = Held'[d] /\ Held'[a] # 0 => a = d
    BY <1>3, <2>1 DEF Distinct
  <2> QED BY <1>5, <2>2, <2>3, <2>4 DEF Distinct
<1> QED BY <1>6, <1>7, <1>8

LEMMA RecordMoves ==
  ASSUME Types, Types', Distinct, NEW c \in Channels, RecordAcked(c), handler[c].id \in Ids
  PROVE  /\ InQueue' = InQueue /\ Outstanding' \subseteq Outstanding
         /\ handler[c].id \in Outstanding /\ handler[c].id \notin Outstanding' /\ Distinct'
<1> DEFINE i == handler[c].id
<1>1. /\ handler[c].pc = "record acked" /\ handler'[c].pc = "transmit" /\ chan' = chan
      /\ \A d \in Channels : d # c => handler'[d] = handler[d]
  <2>1. handler[c].pc = "record acked" /\ chan' = chan /\ HandlerGoes(c, "transmit", i)
    BY DEF RecordAcked, Handler
  <2>2. handler'[c].pc = "transmit" /\ \A d \in Channels : d # c => handler'[d] = handler[d]
    BY <2>1, HandlerMoves
  <2> QED BY <2>1, <2>2
<1>2. /\ Held[c] = i /\ Held'[c] = 0
      /\ \A d \in Channels : d # c => Held'[d] = Held[d]
  BY <1>1 DEF Held
<1>3. ToGuest' = ToGuest /\ ToHost' = ToHost
  BY <1>1 DEF ToGuest, ToHost
<1>4. i \in Ids /\ 0 \notin Ids
  BY ViewTypes
<1> HIDE DEF i
<1>5. Elems(ToHost') = Elems(ToHost) /\ InQueue' = InQueue
  BY <1>3 DEF Elems, InQueue
<1>6. \A d \in Channels : d # c => Held[d] # i
  BY <1>2, <1>4 DEF Distinct
<1>7. i \in Outstanding /\ i \notin Outstanding' /\ Outstanding' \subseteq Outstanding
  BY <1>2, <1>4, <1>5, <1>6 DEF Outstanding, Distinct
<1>8. Distinct'
  <2>1. NoRepeat(ToGuest') /\ NoRepeat(ToHost')
    BY <1>3 DEF Distinct, NoRepeat
  <2>2. 0 \notin Elems(ToHost)
    BY <1>4 DEF Elems
  <2> QED BY <1>2, <1>5, <2>1, <2>2 DEF Distinct
<1> QED BY <1>5, <1>7, <1>8 DEF i

-----------------------------------------------------------------------------
(* The rest of the invariant, which does not look into the queues. *)
Rest == Window /\ Once /\ Remembered /\ Honest

LEMMA IdTypes ==
  /\ Ids \subseteq Nat
  /\ Types /\ Window /\ spy.pc # "receive" => spy.id \in Ids
BY DEF Ids, Types, Window

(* Steps that take nothing further. *)
LEMMA QuietRest ==
  ASSUME Types, Rest, UNCHANGED <<sent, handled, acked, net, history, spy>>,
         InQueue' \subseteq InQueue, Outstanding' \subseteq Outstanding,
         \A c \in Channels :
            /\ handler'[c].pc \in {"record acked", "transmit"} => handler'[c] = handler[c]
            /\ handler'[c].pc = "record id" => handler'[c].id \in Ids
  PROVE  Rest'
<1>1. Window'
  BY DEF Rest, Window, Unput
<1>2. Once'
  BY DEF Rest, Once, Recorded
<1>3. Remembered'
  BY DEF Rest, Remembered, Unput
<1>4. Honest'
  BY DEF Rest, Honest, Recorded, Marking
<1> QED BY <1>1, <1>2, <1>3, <1>4 DEF Rest

(* The debugger and the network. *)
LEMMA SendRest ==
  ASSUME Types, Rest, NEW i \in Ids, Send(i),
         InQueue' = InQueue, Outstanding' = Outstanding
  PROVE  Rest'
<1> USE IdTypes
<1>1. /\ sent = 1 .. i - 1 /\ i \notin sent
      /\ \A j \in 1 .. i - HistorySize : j \in acked /\ Data(j) \notin net
      /\ sent' = sent \cup {i} /\ net' = net \cup {Data(i)}
      /\ UNCHANGED <<handled, acked, history, spy, handler>>
  BY DEF Send, Outside
<1>2. \A j \in Ids : /\ Data(j) \in net' <=> Data(j) \in net \/ j = i
                     /\ Ack(j) \in net' <=> Ack(j) \in net
  BY <1>1, Datagrams
<1>3. Unput(i)
  BY <1>1 DEF Rest, Window
<1>4. Window'
  <2>1. ASSUME NEW k \in sent', NEW j \in Ids, j <= k - HistorySize
        PROVE  j \in acked' /\ Data(j) \notin net'
    <3>1. HistorySize \in Nat /\ HistorySize > 0
      BY MBINChannelAssumption DEF MBINChannelAssumption
    <3>2. k \in Nat /\ k <= i /\ j \in Nat /\ j > 0 /\ i \in Nat
      BY <1>1 DEF Ids
    <3>3. j < i /\ j \in 1 .. i - HistorySize
      BY <2>1, <3>1, <3>2
    <3> QED BY <1>1, <1>2, <3>3
  <2> QED BY <1>1, <1>2, <1>3, <2>1 DEF Rest, Window, Unput
<1>5. Once'
  BY <1>1 DEF Rest, Once, Recorded
<1>6. Remembered'
  BY <1>1, <1>2, <1>3 DEF Rest, Remembered, Unput
<1>7. Honest'
  BY <1>1, <1>2 DEF Rest, Honest, Recorded, Marking
<1> QED BY <1>4, <1>5, <1>6, <1>7 DEF Rest

LEMMA NetworkRest ==
  ASSUME Types, Rest, NEW i \in Ids, Lose(Data(i)) \/ Lose(Ack(i)) \/ Acknowledged(i),
         InQueue' = InQueue, Outstanding' = Outstanding
  PROVE  Rest'
<1> USE IdTypes
<1>1. /\ acked \subseteq acked' /\ UNCHANGED <<sent, handled, history, spy, handler>>
      /\ net' \subseteq net
  BY DEF Lose, Acknowledged, Outside
<1>2. \A j \in Ids : j \in acked' => j \in acked \/ Ack(j) \in net
  BY DEF Lose, Acknowledged
<1>3. \A j \in Ids : Data(j) \in net /\ j \notin acked' => Data(j) \in net'
  <2>1. CASE Lose(Data(i))
    BY <2>1, Datagrams DEF Lose, Data
  <2>2. CASE Lose(Ack(i))
    BY <2>2, Datagrams DEF Lose
  <2>3. CASE Acknowledged(i)
    BY <2>3, Datagrams DEF Acknowledged
  <2> QED BY <2>1, <2>2, <2>3
<1>4. Window'
  BY <1>1, <1>3 DEF Rest, Window, Unput
<1>5. Once'
  BY <1>1 DEF Rest, Once, Recorded
<1>6. Remembered'
  BY <1>1 DEF Rest, Remembered, Unput
<1>7. Honest'
  BY <1>1, <1>2 DEF Rest, Honest, Recorded, Marking
<1> QED BY <1>4, <1>5, <1>6, <1>7 DEF Rest

(* The spy's thread. *)
LEMMA ReceiveRest ==
  ASSUME Types, Rest, NEW i \in Ids, Receive(i),
         InQueue' = InQueue, Outstanding' = Outstanding
  PROVE  Rest'
<1> USE IdTypes
<1>1. /\ Data(i) \in net /\ spy.pc = "receive" /\ spy' = [pc |-> "test", id |-> i]
      /\ UNCHANGED <<sent, handled, acked, net, history, handler>>
  BY DEF Receive, Spy
<1>2. spy'.pc = "test" /\ spy'.id = i
  BY <1>1
<1>3. Window'
  BY <1>1, <1>2 DEF Rest, Window, Unput
<1>4. Once'
  BY <1>1 DEF Rest, Once, Recorded
<1>5. Remembered'
  <2>1. ASSUME NEW j \in Ids, i < j, Record(j) = Record(i) PROVE Unput(j)
    <3>1. i <= j - HistorySize
      BY <2>1, RecordGap
    <3>2. j \notin sent
      BY <1>1, <3>1 DEF Rest, Window
    <3> QED BY <3>2 DEF Rest, Window
  <2> QED BY <1>1, <1>2, <2>1 DEF Rest, Remembered, Unput
<1>6. Honest'
  BY <1>1, <1>2 DEF Rest, Honest, Recorded, Marking
<1> QED BY <1>3, <1>4, <1>5, <1>6 DEF Rest

(* It goes on with its packet, or is through with it. *)
LEMMA SpyGoesRest ==
  ASSUME Types, Rest, NEW pc, SpyGoes(pc), UNCHANGED <<net, history>>,
         InQueue' = InQueue, Outstanding' = Outstanding,
         \/ pc = "receive" /\ spy.pc \in {"test", "queues", "take"}
         \/ pc = "history" /\ spy.pc = "test"
         \/ pc = "seen" /\ spy.pc = "history" /\ history[Record(spy.id)].id = spy.id
         \/ pc = "queues" /\ spy.pc = "history" /\ history[Record(spy.id)].id # spy.id
         \/ pc = "take" /\ spy.pc = "queues"
         \/ pc = "put" /\ spy.pc = "take"
  PROVE  Rest'
<1> USE IdTypes
<1>1. /\ spy'.pc = pc /\ spy'.id = (IF pc = "receive" THEN 0 ELSE spy.id)
      /\ UNCHANGED <<sent, handled, acked, net, history, handler>>
  BY DEF SpyGoes
<1>2. Window'
  BY <1>1 DEF Rest, Window, Unput
<1>3. Once'
  BY <1>1 DEF Rest, Once, Recorded
<1>4. Remembered'
  BY <1>1 DEF Rest, Remembered, Window, Unput
<1>5. Honest'
  BY <1>1 DEF Rest, Honest, Recorded, Marking
<1> QED BY <1>2, <1>3, <1>4, <1>5 DEF Rest

LEMMA AcknowledgeSeenRest ==
  ASSUME Types, Rest, AcknowledgeSeen, InQueue' = InQueue, Outstanding' = Outstanding
  PROVE  Rest'
<1> USE IdTypes
<1>1. /\ spy.pc = "seen" /\ spy'.pc = "receive" /\ spy'.id = 0 /\ spy.id \in Ids
      /\ UNCHANGED <<sent, handled, acked, history, handler>>
  BY DEF AcknowledgeSeen, Spy, SpyGoes, Rest
<1>2. \A j \in Ids : Data(j) \in net' <=> Data(j) \in net
  BY <1>1, Datagrams DEF AcknowledgeSeen
<1>3. \A j \in Ids : Ack(j) \in net' => Ack(j) \in net \/ Recorded(j)
  <2>1. SUFFICES ASSUME NEW j \in Ids, Ack(j) \in net', Ack(j) \notin net PROVE Recorded(j)
    OBVIOUS
  <2>2. j = spy.id /\ history[Record(j)].acked /\ history[Record(j)].id = j
    BY <1>1, <2>1, Datagrams DEF AcknowledgeSeen, Rest, Remembered
  <2> QED BY <1>1, <2>2 DEF Rest, Honest, Marking
<1>4. Window'
  BY <1>1, <1>2 DEF Rest, Window, Unput
<1>5. Once'
  BY <1>1 DEF Rest, Once, Recorded
<1>6. Remembered'
  BY <1>1, <1>2 DEF Rest, Remembered, Unput
<1>7. Honest'
  BY <1>1, <1>3 DEF Rest, Honest, Recorded, Marking
<1> QED BY <1>4, <1>5, <1>6, <1>7 DEF Rest

LEMMA PutRest ==
  ASSUME Types, Rest, PutPacket, ~NullFollowed,
         InQueue' = InQueue \cup {spy.id}, Outstanding' = Outstanding
  PROVE  Rest'
<1> USE IdTypes
<1>1. /\ spy.pc = "put" /\ spy'.pc = "mark id" /\ spy'.id = spy.id /\ spy.id \in Ids
      /\ UNCHANGED <<sent, handled, acked, net, history, handler>>
  <2>1. Spy("put") /\ SpyGoes("mark id") /\ UNCHANGED <<net, history>>
    BY DEF PutPacket
  <2> QED BY <2>1 DEF Spy, SpyGoes, Rest
<1>2. Unput(spy.id)
  BY <1>1 DEF Rest, Remembered
<1>3. Window'
  BY <1>1 DEF Rest, Window, Unput
<1>4. Once'
  BY <1>1, <1>2 DEF Rest, Once, Recorded, Unput
<1>5. Remembered'
  <2>1. ASSUME NEW j \in Ids, j # spy.id PROVE Unput(j)' <=> Unput(j)
    BY <1>1, <2>1 DEF Unput
  <2>2. \A j \in Ids : spy.id < j => j # spy.id
    BY <1>1, Later, Zenon
  <2> QED BY <1>1, <2>1, <2>2 DEF Rest, Remembered
<1>6. Honest'
  BY <1>1 DEF Rest, Honest, Recorded, Marking
<1> QED BY <1>3, <1>4, <1>5, <1>6 DEF Rest

(* Two packets of one entry of the history are never both in use: before   *)
(* the later one is sent, the earlier one is acknowledged.                 *)
LEMMA OneOutstanding ==
  ASSUME Rest, NEW i \in Outstanding, NEW j \in Outstanding, Record(i) = Record(j)
  PROVE  i = j
<1> USE IdTypes
<1>1. i \in Ids /\ j \in Ids /\ handled[i] = 1 /\ handled[j] = 1
  BY DEF Rest, Once, Outstanding
<1>2. i \in sent /\ j \in sent
  BY <1>1 DEF Rest, Window, Unput
<1>5. i \notin acked /\ j \notin acked
  BY <1>1 DEF Rest, Honest, Recorded
<1>3. ASSUME i < j PROVE FALSE
  BY <1>1, <1>2, <1>3, <1>5, RecordGap DEF Rest, Window
<1>4. ASSUME j < i PROVE FALSE
  BY <1>1, <1>2, <1>4, <1>5, RecordGap DEF Rest, Window
<1> QED BY <1>1, <1>3, <1>4

LEMMA SpysOutstanding ==
  ASSUME Types, Rest, NEW i \in Outstanding, spy.pc # "receive", Record(i) = Record(spy.id)
  PROVE  i = spy.id
<1> USE IdTypes
<1>1. i \in Ids /\ spy.id \in Ids /\ handled[i] = 1 /\ spy.id \in sent
  BY DEF Rest, Once, Outstanding, Window
<1>2. i \notin acked
  BY <1>1 DEF Rest, Honest, Recorded
<1>3. ASSUME i < spy.id PROVE FALSE
  BY <1>1, <1>2, <1>3, RecordGap DEF Rest, Window
<1>4. ASSUME spy.id < i PROVE FALSE
  <2>1. Unput(i)
    BY <1>1, <1>4, Zenon DEF Rest, Remembered
  <2> QED BY <1>1, <2>1 DEF Unput
<1>5. i \in Nat /\ spy.id \in Nat
  BY <1>1
<1> QED BY <1>3, <1>4, <1>5, Later, Zenon

(* What a copy may come of, or the spy has, is not overwritten.            *)
LEMMA MarkRest ==
  ASSUME Types, Rest, MarkId, InQueue' = InQueue, Outstanding' = Outstanding,
         \A c \in Channels : handler[c].pc = "record acked" => handler[c].id \in Outstanding
  PROVE  Rest'
<1> USE IdTypes
<1> DEFINE j == spy.id
<1>1. /\ spy.pc = "mark id" /\ spy'.pc = "mark acked" /\ spy'.id = j /\ j \in Ids
      /\ UNCHANGED <<sent, handled, acked, net, handler>>
      /\ history' = [history EXCEPT ![Record(j)].id = j]
  BY DEF MarkId, Spy, SpyGoes, Rest
<1>2. /\ Record(j) \in 0 .. HistorySize - 1
      /\ \A i \in Ids : Record(i) \in 0 .. HistorySize - 1
  BY <1>1, RecordRange
<1>3. /\ history'[Record(j)].id = j
      /\ \A i \in Ids : Record(i) # Record(j) => history'[Record(i)] = history[Record(i)]
  BY <1>1, <1>2 DEF Types
<1>4. Window'
  BY <1>1 DEF Rest, Window, Unput
<1>5. Once'
  BY <1>1 DEF Rest, Once, Recorded
<1>6. Remembered'
  <2>1. ASSUME NEW i \in Ids, Data(i) \in net, Record(i) = Record(j), i # j PROVE Unput(i)
    <3>1. CASE i < j
      BY <1>1, <2>1, <3>1, RecordGap DEF Rest, Window
    <3>2. CASE j < i
      BY <1>1, <2>1, <3>2 DEF Rest, Remembered
    <3>3. i \in Nat /\ j \in Nat
      BY <1>1
    <3> QED BY <2>1, <3>1, <3>2, <3>3, Later, Zenon
  <2>2. ASSUME NEW i \in Ids, Data(i) \in net PROVE Unput(i) \/ history'[Record(i)].id = i
    BY <1>1, <1>3, <2>1, <2>2 DEF Rest, Remembered
  <2> QED BY <1>1, <2>2 DEF Rest, Remembered, Unput
<1>7. Honest'
  <2>1. \A c \in Channels : handler[c].pc = "record acked"
                               => history'[Record(handler[c].id)].id = handler[c].id
    <3>1. SUFFICES ASSUME NEW c \in Channels, handler[c].pc = "record acked"
                   PROVE  history'[Record(handler[c].id)].id = handler[c].id
      OBVIOUS
    <3>2. handler[c].id \in Outstanding /\ handler[c].id \in Ids
      BY <3>1 DEF Outstanding
    <3>3. CASE Record(handler[c].id) = Record(j)
      BY <1>1, <1>3, <3>2, <3>3, SpysOutstanding
    <3>4. CASE Record(handler[c].id) # Record(j)
      BY <1>3, <3>1, <3>2, <3>4 DEF Rest, Honest
    <3> QED BY <3>3, <3>4
  <2>2. ASSUME NEW i \in Ids, history'[Record(i)].id = i, history'[Record(i)].acked
        PROVE  Recorded(i) \/ i = j
    <3>1. CASE Record(i) = Record(j)
      BY <1>3, <2>2, <3>1
    <3>2. CASE Record(i) # Record(j)
      BY <1>3, <2>2, <3>2 DEF Rest, Honest, Marking
    <3> QED BY <3>1, <3>2
  <2> QED BY <1>1, <2>1, <2>2 DEF Rest, Honest, Recorded, Marking
<1> QED BY <1>4, <1>5, <1>6, <1>7 DEF Rest

LEMMA UnmarkRest ==
  ASSUME Types, Rest, MarkNotAcked, InQueue' = InQueue, Outstanding' = Outstanding
  PROVE  Rest'
<1> USE IdTypes
<1>1. /\ spy.pc = "mark acked" /\ spy'.pc = "receive" /\ spy'.id = 0 /\ spy.id \in Ids
      /\ UNCHANGED <<sent, handled, acked, net, handler>>
      /\ history' = [history EXCEPT ![Record(spy.id)].acked = FALSE]
  BY DEF MarkNotAcked, Spy, SpyGoes, Rest
<1>2. \A i \in Ids : Record(i) \in 0 .. HistorySize - 1
  BY RecordRange
<1>3. /\ \A i \in Ids : history'[Record(i)].id = history[Record(i)].id
      /\ \A i \in Ids : history'[Record(i)].acked => history[Record(i)].acked
      /\ ~history'[Record(spy.id)].acked
  BY <1>1, <1>2 DEF Types
<1>4. Window'
  BY <1>1 DEF Rest, Window, Unput
<1>5. Once'
  BY <1>1 DEF Rest, Once, Recorded
<1>6. Remembered'
  BY <1>1, <1>3 DEF Rest, Remembered, Unput
<1>7. Honest'
  <2>1. \A c \in Channels : handler[c].pc = "record acked"
                               => history'[Record(handler[c].id)].id = handler[c].id
    BY <1>3 DEF Rest, Honest, Once
  <2> QED BY <1>1, <1>3, <2>1 DEF Rest, Honest, Recorded, Marking
<1> QED BY <1>4, <1>5, <1>6, <1>7 DEF Rest

(* Lisp handles a packet; the channel's handler records what it is told.   *)
LEMMA HandleRest ==
  ASSUME Types, Rest, NEW c \in Channels, HandlePacket(c), NEW i \in InQueue,
         i = Head(chan[c].toGuest), InQueue' = InQueue \ {i}, Outstanding' = Outstanding \cup {i}
  PROVE  Rest' /\ Service!Handle(i)
<1> USE IdTypes
<1>1. /\ handled' = [handled EXCEPT ![i] = @ + 1]
      /\ UNCHANGED <<sent, acked, net, history, spy, handler>>
  BY DEF HandlePacket, Host
<1>2. i \in Ids /\ handled[i] = 0
  BY DEF Rest, Once, InQueue, Elems
<1>3. handled'[i] = 1 /\ \A j \in Ids : j # i => handled'[j] = handled[j]
  BY <1>1, <1>2 DEF Types
<1>4. \A j \in Ids : /\ Unput(j)' <=> Unput(j)
                     /\ Recorded(j) => Recorded(j)'
  BY <1>2, <1>3 DEF Unput, Recorded
<1>5. Window'
  BY <1>1, <1>4 DEF Rest, Window
<1>6. Once'
  <2>1. \A j \in Ids : handled'[j] \in {0, 1}
    BY <1>3 DEF Rest, Once
  <2>2. \A j \in InQueue' : handled'[j] = 0
    BY <1>3 DEF Rest, Once, InQueue, Elems
  <2>3. \A j \in Outstanding' : handled'[j] = 1
    BY <1>3 DEF Rest, Once, Outstanding
  <2>4. \A d \in Channels : handler'[d].pc = "transmit" => Recorded(handler[d].id)'
    BY <1>1, <1>4 DEF Rest, Once
  <2> QED BY <1>1, <2>1, <2>2, <2>3, <2>4 DEF Rest, Once, Recorded
<1>7. Remembered'
  BY <1>1, <1>4 DEF Rest, Remembered
<1>8. Honest'
  BY <1>1, <1>4 DEF Rest, Honest, Marking
<1>9. Service!Handle(i)
  <2>1. i \in sent
    BY <1>2 DEF Rest, Window, Unput
  <2>2. handled' = [handled EXCEPT ![i] = 1]
    BY <1>1, <1>2
  <2> QED BY <1>1, <1>2, <2>1, <2>2 DEF Service!Handle
<1> QED BY <1>5, <1>6, <1>7, <1>8, <1>9 DEF Rest

LEMMA RecordIdRest ==
  ASSUME Types, Rest, NEW c \in Channels, RecordId(c),
         InQueue' = InQueue, Outstanding' = Outstanding,
         \A d \in Channels : handler[d].pc \in {"record id", "record acked"}
                                => handler[d].id \in Outstanding
  PROVE  Rest'
<1> USE IdTypes
<1> DEFINE k == handler[c].id
<1>1. /\ handler[c].pc = "record id" /\ HandlerGoes(c, "record acked", k)
      /\ history' = [history EXCEPT ![Record(k)].id = k]
      /\ UNCHANGED <<sent, handled, acked, net, spy>>
  BY DEF RecordId, Handler, HandlerGoes
<1>2. /\ handler'[c].pc = "record acked" /\ handler'[c].id = k
      /\ \A d \in Channels : d # c => handler'[d] = handler[d]
  BY <1>1, HandlerMoves
<1>3. k \in Outstanding /\ k \in Ids
  BY <1>1 DEF Outstanding
<1> HIDE DEF k
<1>4. \A i \in Ids : Record(i) \in 0 .. HistorySize - 1
  BY RecordRange
<1>5. /\ history'[Record(k)].id = k /\ history'[Record(k)].acked = history[Record(k)].acked
      /\ \A i \in Ids : Record(i) # Record(k) => history'[Record(i)] = history[Record(i)]
  BY <1>1, <1>3, <1>4 DEF Types
<1>6. handled[k] = 1 /\ k \in sent /\ k \notin acked /\ Data(k) \in net /\ ~Recorded(k) /\ ~Unput(k)
  <2>1. handled[k] = 1 /\ ~Recorded(k) /\ ~Unput(k)
    <3>1. handled[k] = 1
      BY <1>3 DEF Rest, Once
    <3>2. ~Recorded(k)
      BY <1>3, Zenon DEF Recorded
    <3>3. ~Unput(k)
      BY <3>1, OneIsNotZero, Zenon DEF Unput
    <3> QED BY <3>1, <3>2, <3>3
  <2>2. k \in sent /\ k \notin acked
    BY <1>3, <2>1 DEF Rest, Window, Honest
  <2>3. Data(k) \in net
    BY <1>3, <2>2 DEF Rest, Window
  <2> QED BY <2>1, <2>2, <2>3
<1>7. Window'
  BY <1>1 DEF Rest, Window, Unput
<1>8. Once'
  <2>1. \A d \in Channels : handler'[d].pc \in {"record id", "record acked", "transmit"}
                               => handler'[d].id \in Ids
    BY <1>2, <1>3 DEF Rest, Once
  <2>2. \A d \in Channels : handler'[d].pc = "transmit" => Recorded(handler'[d].id)
    BY <1>2 DEF Rest, Once
  <2> QED BY <1>1, <2>1, <2>2 DEF Rest, Once, Recorded
<1>9. Remembered'
  <2>1. ASSUME NEW i \in Ids, Record(i) = Record(k), i # k,
               Data(i) \in net \/ (spy.pc \in {"test", "history"} /\ spy.id = i)
        PROVE  Unput(i)
    <3>1. CASE i < k
      <4>1. i <= k - HistorySize
        BY <1>3, <2>1, <3>1, RecordGap
      <4>2. Data(i) \notin net
        BY <1>6, <4>1 DEF Rest, Window
      <4>3. spy.pc # "receive" /\ Record(spy.id) = Record(k)
        BY <2>1, <4>2
      <4> QED BY <1>3, <2>1, <4>2, <4>3, SpysOutstanding
    <3>2. CASE k < i
      <4>1. SUFFICES ASSUME i \in sent PROVE FALSE
        BY DEF Rest, Window
      <4>2. k <= i - HistorySize
        BY <1>3, <2>1, <3>2, RecordGap
      <4> QED BY <1>3, <1>6, <4>1, <4>2 DEF Rest, Window
    <3>3. i \in Nat /\ k \in Nat
      BY <1>3
    <3> QED BY <2>1, <3>1, <3>2, <3>3, Later, Zenon
  <2>2. ASSUME NEW i \in Ids, Data(i) \in net \/ (spy.pc \in {"test", "history"} /\ spy.id = i)
        PROVE  Unput(i) \/ history'[Record(i)].id = i \/ (spy.pc = "mark id" /\ spy.id = i)
    <3>1. CASE Record(i) = Record(k)
      BY <1>5, <2>1, <2>2, <3>1
    <3>2. CASE Record(i) # Record(k)
      BY <1>5, <2>2, <3>2 DEF Rest, Remembered
    <3> QED BY <3>1, <3>2
  <2>3. ASSUME spy.pc = "seen" PROVE history'[Record(spy.id)].id = spy.id
    <3>1. spy.id \in Ids
      BY <2>3 DEF Rest
    <3>2. CASE Record(k) = Record(spy.id)
      BY <1>3, <1>5, <2>3, <3>2, SpysOutstanding
    <3>3. CASE Record(k) # Record(spy.id)
      BY <1>5, <2>3, <3>1, <3>3 DEF Rest, Remembered
    <3> QED BY <3>2, <3>3
  <2> QED BY <1>1, <2>2, <2>3 DEF Rest, Remembered, Unput
<1>10. Honest'
  <2>1. ASSUME NEW i \in Ids, history'[Record(i)].id = i, history'[Record(i)].acked
        PROVE  Recorded(i) \/ Marking(i)
    <3>1. CASE Record(i) = Record(k)
      <4>1. i = k /\ history[Record(k)].acked
        BY <1>5, <2>1, <3>1
      <4>2. history[Record(k)].id = k \/ Marking(k)
        BY <1>3, <1>6 DEF Rest, Remembered, Marking
      <4> QED BY <1>3, <1>6, <4>1, <4>2 DEF Rest, Honest
    <3>2. CASE Record(i) # Record(k)
      BY <1>5, <2>1, <3>2 DEF Rest, Honest
    <3> QED BY <3>1, <3>2
  <2>2. ASSUME NEW d \in Channels, handler'[d].pc = "record acked"
        PROVE  history'[Record(handler'[d].id)].id = handler'[d].id
    <3>1. CASE d = c
      BY <1>2, <1>5, <3>1
    <3>2. CASE d # c
      <4>1. handler'[d] = handler[d] /\ handler[d].id \in Outstanding /\ handler[d].id \in Ids
        BY <1>2, <2>2, <3>2 DEF Outstanding
      <4>2. CASE Record(handler[d].id) = Record(k)
        BY <1>3, <1>5, <4>1, <4>2, OneOutstanding
      <4>3. CASE Record(handler[d].id) # Record(k)
        BY <1>5, <2>2, <4>1, <4>3 DEF Rest, Honest
      <4> QED BY <4>2, <4>3
    <3> QED BY <3>1, <3>2
  <2> QED BY <1>1, <2>1, <2>2 DEF Rest, Honest, Recorded, Marking
<1> QED BY <1>7, <1>8, <1>9, <1>10 DEF Rest

LEMMA RecordAckedRest ==
  ASSUME Types, Rest, NEW c \in Channels, RecordAcked(c), NEW k, k = handler[c].id,
         InQueue' = InQueue, Outstanding' \subseteq Outstanding,
         k \in Outstanding, k \notin Outstanding'
  PROVE  Rest'
<1> USE IdTypes
<1>1. /\ handler[c].pc = "record acked" /\ HandlerGoes(c, "transmit", k)
      /\ history' = [history EXCEPT ![Record(k)].acked = TRUE]
      /\ UNCHANGED <<sent, handled, acked, net, spy>>
  BY DEF RecordAcked, Handler, HandlerGoes
<1>2. /\ handler'[c].pc = "transmit" /\ handler'[c].id = k
      /\ \A d \in Channels : d # c => handler'[d] = handler[d]
  BY <1>1, HandlerMoves
<1>3. k \in Ids /\ k \in Outstanding /\ k \notin Outstanding' /\ history[Record(k)].id = k
  BY <1>1 DEF Outstanding, Rest, Honest
<1>4. \A i \in Ids : Record(i) \in 0 .. HistorySize - 1
  BY RecordRange
<1>5. /\ \A i \in Ids : history'[Record(i)].id = history[Record(i)].id
      /\ \A i \in Ids : Record(i) # Record(k) => history'[Record(i)] = history[Record(i)]
  BY <1>1, <1>3, <1>4 DEF Types
<1>6. Recorded(k)' /\ \A i \in Ids : Recorded(i) => Recorded(i)'
  <2>1. handled'[k] = 1
    BY <1>1, <1>3 DEF Rest, Once
  <2>2. Recorded(k)'
    BY <1>3, <2>1, Zenon DEF Recorded
  <2>3. ASSUME NEW i \in Ids, Recorded(i) PROVE Recorded(i)'
    <3>1. handled'[i] = 1
      BY <1>1, <2>3 DEF Recorded
    <3>2. i \notin Outstanding'
      BY <2>3 DEF Recorded
    <3> QED BY <3>1, <3>2, Zenon DEF Recorded
  <2> QED BY <2>2, <2>3, Zenon
<1>7. Window'
  BY <1>1 DEF Rest, Window, Unput
<1>8. Once'
  <2>1. \A d \in Channels : handler'[d].pc \in {"record id", "record acked", "transmit"}
                               => handler'[d].id \in Ids
    BY <1>2, <1>3 DEF Rest, Once
  <2>2. \A d \in Channels : handler'[d].pc = "transmit" => Recorded(handler[d].id)'
    <3>1. SUFFICES ASSUME NEW d \in Channels, handler'[d].pc = "transmit"
                   PROVE  Recorded(handler[d].id)'
      OBVIOUS
    <3>2. CASE d = c
      BY <1>2, <1>6, <3>2 DEF Recorded
    <3>3. CASE d # c
      BY <1>2, <1>6, <3>1, <3>3 DEF Rest, Once, Recorded
    <3> QED BY <3>2, <3>3
  <2> QED BY <1>1, <1>2, <2>1, <2>2 DEF Rest, Once, Recorded
<1>9. Remembered'
  BY <1>1, <1>5 DEF Rest, Remembered, Unput
<1>10. Honest'
  <2>1. ASSUME NEW i \in Ids, history'[Record(i)].id = i, history'[Record(i)].acked
        PROVE  Recorded(i)' \/ Marking(i)
    <3>1. CASE Record(i) = Record(k)
      <4>1. i = k
        BY <1>3, <1>5, <2>1, <3>1
      <4> QED BY <1>6, <4>1
    <3>2. CASE Record(i) # Record(k)
      BY <1>5, <1>6, <2>1, <3>2 DEF Rest, Honest
    <3> QED BY <3>1, <3>2
  <2>2. ASSUME NEW d \in Channels, handler'[d].pc = "record acked"
        PROVE  history'[Record(handler'[d].id)].id = handler'[d].id
    BY <1>2, <1>5, <2>2 DEF Rest, Honest, Once
  <2> QED BY <1>1, <1>6, <2>1, <2>2 DEF Rest, Honest, Marking
<1> QED BY <1>7, <1>8, <1>9, <1>10 DEF Rest

LEMMA TransmitRest ==
  ASSUME Types, Rest, NEW c \in Channels, Transmit(c),
         InQueue' = InQueue, Outstanding' = Outstanding
  PROVE  Rest'
<1> USE IdTypes
<1> DEFINE k == handler[c].id
<1>1. /\ handler[c].pc = "transmit" /\ HandlerGoes(c, "return", 0)
      /\ net' = net \cup {Ack(k)}
      /\ UNCHANGED <<sent, handled, acked, history, spy>>
  BY DEF Transmit, Handler, HandlerGoes
<1>2. handler'[c].pc = "return" /\ \A d \in Channels : d # c => handler'[d] = handler[d]
  BY <1>1, HandlerMoves
<1>3. k \in Ids /\ Recorded(k)
  BY <1>1 DEF Rest, Once
<1> HIDE DEF k
<1>4. \A i \in Ids : /\ Data(i) \in net' <=> Data(i) \in net
                     /\ Ack(i) \in net' <=> Ack(i) \in net \/ i = k
  BY <1>1, <1>3, Datagrams
<1>5. Window'
  BY <1>1, <1>4 DEF Rest, Window, Unput
<1>6. Once'
  BY <1>1, <1>2 DEF Rest, Once, Recorded
<1>7. Remembered'
  BY <1>1, <1>4 DEF Rest, Remembered, Unput
<1>8. Honest'
  BY <1>1, <1>2, <1>3, <1>4 DEF Rest, Honest, Recorded, Marking
<1> QED BY <1>5, <1>6, <1>7, <1>8 DEF Rest

-----------------------------------------------------------------------------
(* The whole invariant, and what each step is to the service. *)
LEMMA HeldOutstanding ==
  ASSUME Types, Rest, NEW c \in Channels, handler[c].pc \in {"record id", "record acked"}
  PROVE  handler[c].id \in Outstanding
<1>1. handler[c].id \in Ids
  BY DEF Rest, Once
<1> QED BY <1>1 DEF Outstanding, Held

LEMMA InitInv == Init => MBINInv /\ Service!Init
<1> SUFFICES ASSUME Init PROVE MBINInv /\ Service!Init
  OBVIOUS
<1>1. Types
  <2>1. chan \in [Channels -> ChannelStates]
    <3>1. Buffers \in Nat /\ <<>> \in Seq(Ids)
      BY MBINChannelAssumption DEF MBINChannelAssumption
    <3> QED BY <3>1 DEF Init, ChannelStates
  <2>2. guest \in [Channels -> [state : {"none", "started", "closing"}, free : Nat]]
    BY MBINChannelAssumption DEF MBINChannelAssumption, Init
  <2>3. spy \in SpyStates
    BY DEF Init, SpyStates
  <2>4. handler \in [Channels -> HandlerStates]
    BY DEF Init, HandlerStates
  <2>5. history \in [0 .. HistorySize - 1 -> [id : {0} \cup Ids, acked : BOOLEAN]]
    BY DEF Init
  <2> QED BY <2>1, <2>2, <2>3, <2>4, <2>5 DEF Types, Init
<1>2. Elems(ToGuest) = {} /\ Elems(ToHost) = {}
  <2>1. \A c \in Channels : 1 .. Len(ToGuest[c]) = {} /\ 1 .. Len(ToHost[c]) = {}
    <3>1. \A c \in Channels : ToGuest[c] = <<>> /\ ToHost[c] = <<>>
      BY DEF Init, ToGuest, ToHost
    <3>2. 1 .. Len(<<>>) = {}
      OBVIOUS
    <3> QED BY <3>1, <3>2
  <2> QED BY <2>1 DEF Elems
<1>3. \A c \in Channels : Held[c] = 0
  BY DEF Init, Held
<1>4. 0 \notin Ids
  BY DEF Ids
<1>5. InQueue = {} /\ Outstanding = {}
  BY <1>2, <1>3, <1>4 DEF InQueue, Outstanding
<1>6. Distinct
  <2>1. NoRepeat(ToGuest) /\ NoRepeat(ToHost)
    <3>1. \A c \in Channels : ToGuest[c] = <<>> /\ ToHost[c] = <<>>
      BY DEF Init, ToGuest, ToHost
    <3>2. 1 .. Len(<<>>) = {}
      OBVIOUS
    <3> QED BY <3>1, <3>2 DEF NoRepeat
  <2> QED BY <1>2, <1>3, <2>1 DEF Distinct
<1>7. Window /\ Once
  BY <1>5 DEF Init, Window, Once, Unput
<1>8. Remembered
  BY DEF Init, Remembered
<1>9. Honest
  <2>1. \A i \in Ids : Record(i) \in 0 .. HistorySize - 1
    BY RecordRange DEF Ids
  <2> QED BY <2>1 DEF Init, Honest
<1>10. Service!Init
  BY DEF Init, Service!Init
<1> QED BY <1>1, <1>6, <1>7, <1>8, <1>9, <1>10 DEF MBINInv

Serves == MBINInv' /\ (Service!Next \/ UNCHANGED Service!vars)

LEMMA LispServes ==
  ASSUME MBINInv, NEW c \in Channels,
         StartMBIN(c) \/ ShutDown(c) \/ PollImpulse(c) \/ HandlePacket(c) \/ TakeReturned(c)
  PROVE  Serves
<1>1. Types' /\ Types /\ Rest /\ Distinct
  BY LispTypes DEF MBINInv, Rest
<1>2. CASE HandlePacket(c)
  <2> DEFINE i == Head(chan[c].toGuest)
  <2>1. i \notin Outstanding
    <3>1. i \in Elems(ToGuest)
      <4>1. i \in Ids /\ chan[c].toGuest \in Seq(Ids) /\ chan[c].toGuest # <<>>
        BY <1>1, <1>2, HandleTurns DEF Types, ChannelStates
      <4>2. 1 \in 1 .. Len(chan[c].toGuest) /\ chan[c].toGuest[1] = i
        BY <4>1, TailFacts
      <4> QED BY <4>1, <4>2 DEF Elems, ToGuest
    <3>2. handled[i] = 0 /\ \A j \in Outstanding : handled[j] = 1
      BY <1>1, <3>1 DEF Rest, Once, InQueue
    <3> QED BY <3>2
  <2>2. /\ i \in InQueue /\ InQueue' = InQueue \ {i}
        /\ Outstanding' = Outstanding \cup {i} /\ Distinct'
    BY <1>1, <1>2, <2>1, HandleMoves
  <2>3. Rest' /\ Service!Handle(i)
    BY <1>1, <1>2, <2>2, HandleRest
  <2>4. i \in Ids
    BY <2>2 DEF InQueue, Elems
  <2> QED BY <1>1, <2>2, <2>3, <2>4 DEF Serves, MBINInv, Rest, Service!Next
<1>3. CASE StartMBIN(c) \/ ShutDown(c) \/ PollImpulse(c) \/ TakeReturned(c)
  <2>1. /\ ToGuest' = ToGuest /\ ToHost' = ToHost
        /\ UNCHANGED <<sent, handled, acked, net, history, spy, handler>>
    <3>1. UNCHANGED <<sent, handled, acked, net, history, spy, handler>>
      BY <1>3 DEF StartMBIN, ShutDown, PollImpulse, TakeReturned, Host
    <3>2. chan \in [Channels -> ChannelStates]
      BY <1>1 DEF Types
    <3>3. \A d \in Channels : chan'[d].toGuest = chan[d].toGuest /\ chan'[d].toHost = chan[d].toHost
      <4>1. CASE StartMBIN(c)
        BY <4>1 DEF StartMBIN
      <4>2. CASE ShutDown(c)
        BY <3>2, <4>2 DEF ShutDown, ChannelStates
      <4>3. CASE PollImpulse(c)
        BY <3>2, <4>3 DEF PollImpulse, ChannelStates
      <4>4. CASE TakeReturned(c)
        BY <3>2, <4>4 DEF TakeReturned, ChannelStates
      <4> QED BY <1>3, <4>1, <4>2, <4>3, <4>4
    <3> QED BY <3>1, <3>3 DEF ToGuest, ToHost
  <2>2. Held' = Held
    BY <2>1 DEF Held
  <2>3. InQueue' = InQueue /\ Outstanding' = Outstanding /\ Distinct'
    BY <1>1, <2>1, <2>2, NothingMoves
  <2>4. Rest'
    BY <1>1, <2>1, <2>3, QuietRest DEF Rest, Once
  <2> QED BY <1>1, <2>1, <2>3, <2>4 DEF Serves, MBINInv, Rest, Service!vars
<1> QED BY <1>2, <1>3

LEMMA OutsideServes ==
  ASSUME MBINInv, NEW i \in Ids,
         Send(i) \/ Acknowledged(i) \/ Lose(Data(i)) \/ Lose(Ack(i)) \/ Receive(i)
  PROVE  Serves
<1>1. Types' /\ Types /\ Rest /\ Distinct
  BY OutsideTypes DEF MBINInv, Rest
<1>2. UNCHANGED <<chan, handler>>
  BY DEF Send, Acknowledged, Lose, Receive, Outside
<1>3. ToGuest' = ToGuest /\ ToHost' = ToHost /\ Held' = Held
  BY <1>2 DEF ToGuest, ToHost, Held
<1>4. InQueue' = InQueue /\ Outstanding' = Outstanding /\ Distinct'
  BY <1>1, <1>3, NothingMoves
<1>5. Rest'
  BY <1>1, <1>4, SendRest, NetworkRest, ReceiveRest
<1>6. MBINInv'
  BY <1>1, <1>4, <1>5 DEF MBINInv, Rest
<1>7. CASE Send(i)
  BY <1>6, <1>7 DEF Serves, Send, Service!Next, Service!Send
<1>8. CASE Acknowledged(i)
  <2>1. handled[i] = 1
    BY <1>1, <1>8 DEF Acknowledged, Rest, Honest, Recorded
  <2> QED BY <1>6, <1>8, <2>1 DEF Serves, Acknowledged, Service!Next, Service!Acknowledge
<1>9. CASE Lose(Data(i)) \/ Lose(Ack(i)) \/ Receive(i)
  BY <1>6, <1>9 DEF Serves, Lose, Receive, Service!vars
<1> QED BY <1>7, <1>8, <1>9

LEMMA SpyServes ==
  ASSUME MBINInv, SpyStep
  PROVE  Serves
<1>1. Types /\ Rest /\ Distinct /\ Types'
  <2>1. Types /\ Rest /\ Distinct /\ Window
    BY DEF MBINInv, Rest
  <2>2. spy.pc # "receive" => spy.id \in Ids
    BY <2>1, IdTypes
  <2> QED BY <2>1, <2>2, SpyStepTypes
<1>2. CASE NullFollowed
  <2>1. UNCHANGED <<sent, handled, acked, net, history, active, chan, guest, spy, handler>>
    BY <1>2 DEF NullFollowed
  <2>2. ToGuest' = ToGuest /\ ToHost' = ToHost /\ Held' = Held
    BY <2>1 DEF ToGuest, ToHost, Held
  <2>3. InQueue' = InQueue /\ Outstanding' = Outstanding /\ Distinct'
    BY <1>1, <2>2, NothingMoves
  <2>4. Rest'
    BY <1>1, <2>1, <2>3, QuietRest DEF Rest, Once
  <2> QED BY <1>1, <2>1, <2>3, <2>4 DEF Serves, MBINInv, Rest, Service!vars
<1>3. CASE ~NullFollowed
  <2>1. /\ SpyStep /\ UNCHANGED <<sent, handled, acked, handler>>
        /\ spy.pc # "receive" /\ spy.id \in Ids
    <3>1. UNCHANGED <<sent, handled, acked, handler>> /\ spy.pc # "receive"
      BY <1>3 DEF SpyStep, TestActive, TestHistory, AcknowledgeSeen, TestQueues, TakeBuffer,
                  PutPacket, MarkId, MarkNotAcked, SpyGoes, Spy
    <3> QED BY <1>1, <3>1, IdTypes DEF Rest
  <2>2. Held' = Held
    BY <2>1 DEF Held
  <2>3. Rest' /\ Distinct'
    <3>1. CASE PutPacket
      <4>1. spy.id \notin InQueue
        BY <1>1, <3>1 DEF PutPacket, Spy, Rest, Remembered, Unput
      <4>2. /\ InQueue' = InQueue \cup {spy.id}
            /\ Outstanding' = Outstanding /\ Distinct'
        BY <1>1, <1>3, <2>1, <3>1, <4>1, PutMoves
      <4> QED BY <1>1, <1>3, <3>1, <4>2, PutRest
    <3>2. CASE ~PutPacket
      <4>1. ToGuest' = ToGuest /\ ToHost' = ToHost
        <5>1. \A c \in Channels : /\ chan'[c].toGuest = chan[c].toGuest
                                  /\ chan'[c].toHost = chan[c].toHost
          <6>1. CASE UNCHANGED chan
            BY <6>1
          <6>2. CASE chan' = [chan EXCEPT ![active].supply = @ - 1]
            BY <1>1, <6>2 DEF Types, ChannelStates
          <6> QED BY <1>3, <2>1, <3>2, <6>1, <6>2 DEF SpyStep, TestActive, TestHistory,
                 AcknowledgeSeen, TestQueues, TakeBuffer, MarkId, MarkNotAcked
        <5> QED BY <5>1 DEF ToGuest, ToHost
      <4>2. InQueue' = InQueue /\ Outstanding' = Outstanding /\ Distinct'
        BY <1>1, <2>2, <4>1, NothingMoves
      <4>3. CASE TestActive
        <5>1. \E pc \in {"receive", "history"} :
                 SpyGoes(pc) /\ spy.pc = "test" /\ UNCHANGED <<net, history>>
          BY <4>3 DEF TestActive, Spy
        <5> QED BY <1>1, <4>2, <5>1, SpyGoesRest
      <4>4. CASE TestHistory
        <5>1. \/ SpyGoes("seen") /\ history[Record(spy.id)].id = spy.id
              \/ SpyGoes("queues") /\ history[Record(spy.id)].id # spy.id
          BY <4>4 DEF TestHistory
        <5>2. spy.pc = "history" /\ UNCHANGED <<net, history>>
          BY <4>4 DEF TestHistory, Spy
        <5> QED BY <1>1, <4>2, <5>1, <5>2, SpyGoesRest
      <4>5. CASE TestQueues
        <5>1. \E pc \in {"receive", "take"} :
                 SpyGoes(pc) /\ spy.pc = "queues" /\ UNCHANGED <<net, history>>
          BY <1>3, <4>5 DEF TestQueues, Spy
        <5> QED BY <1>1, <4>2, <5>1, SpyGoesRest
      <4>6. CASE TakeBuffer
        <5>1. \E pc \in {"receive", "put"} :
                 SpyGoes(pc) /\ spy.pc = "take" /\ UNCHANGED <<net, history>>
          BY <1>3, <4>6 DEF TakeBuffer, Spy
        <5> QED BY <1>1, <4>2, <5>1, SpyGoesRest
      <4>7. CASE AcknowledgeSeen
        BY <1>1, <4>2, <4>7, AcknowledgeSeenRest
      <4>8. CASE MarkId
        BY <1>1, <4>2, <4>8, MarkRest, HeldOutstanding
      <4>9. CASE MarkNotAcked
        BY <1>1, <4>2, <4>9, UnmarkRest
      <4> QED BY <2>1, <3>2, <4>2, <4>3, <4>4, <4>5, <4>6, <4>7, <4>8, <4>9 DEF SpyStep
    <3> QED BY <3>1, <3>2
  <2> QED BY <1>1, <2>1, <2>3 DEF Serves, MBINInv, Rest, Service!vars
<1> QED BY <1>2, <1>3

LEMMA HandlerServes ==
  ASSUME MBINInv, NEW c \in Channels, HandlerStep(c)
  PROVE  Serves
<1>1. Types /\ Rest /\ Distinct /\ Types'
  BY HandlerStepTypes DEF MBINInv, Rest, Once
<1>2. UNCHANGED <<sent, handled, acked, spy>>
  BY DEF HandlerStep, Signalled, Deactivate, ResetQueues, TakeAck, EndLoop, RecordId,
         RecordAcked, Transmit, ReturnBuffer, HandlerGoes
<1>3. CASE Signalled(c) \/ Deactivate(c) \/ EndLoop(c) \/ ReturnBuffer(c)
  <2>1. PICK pc \in {"deactivate", "loop", "reset", "wait"} : HandlerGoes(c, pc, 0)
    BY <1>3 DEF Signalled, Deactivate, EndLoop, ReturnBuffer
  <2>2. handler'[c].pc = pc /\ \A d \in Channels : d # c => handler'[d] = handler[d]
    BY <1>1, <2>1, HandlerMoves
  <2>3. UNCHANGED <<net, history>>
    BY <1>3 DEF Signalled, Deactivate, EndLoop, ReturnBuffer
  <2>4. Held' = Held
    <3>1. handler[c].pc \in {"wait", "deactivate", "loop", "return"}
      BY <1>3 DEF Signalled, Deactivate, EndLoop, ReturnBuffer, Handler
    <3>2. Held[c] = 0 /\ Held'[c] = 0
      BY <2>2, <3>1 DEF Held
    <3>3. \A d \in Channels : d # c => Held'[d] = Held[d]
      BY <2>2 DEF Held
    <3>4. /\ Held = [d \in Channels |-> Held[d]]
          /\ Held' = [d \in Channels |-> Held'[d]]
      BY DEF Held
    <3>5. \A d \in Channels : Held'[d] = Held[d]
      BY <3>2, <3>3
    <3> QED BY <3>4, <3>5
  <2>5. ToGuest' = ToGuest /\ ToHost' = ToHost
    <3>1. chan \in [Channels -> ChannelStates]
      BY <1>1 DEF Types
    <3>2. \A d \in Channels : chan'[d].toGuest = chan[d].toGuest /\ chan'[d].toHost = chan[d].toHost
      <4>1. CASE Signalled(c)
        BY <3>1, <4>1 DEF Signalled, ChannelStates
      <4>2. CASE Deactivate(c)
        BY <4>2 DEF Deactivate
      <4>3. CASE EndLoop(c)
        <5>1. PICK b : chan' = [chan EXCEPT ![c].signal = b]
          BY <4>3, Zenon DEF EndLoop
        <5> QED BY <3>1, <5>1 DEF ChannelStates
      <4>4. CASE ReturnBuffer(c)
        BY <3>1, <4>4 DEF ReturnBuffer, ChannelStates
      <4> QED BY <1>3, <4>1, <4>2, <4>3, <4>4
    <3> QED BY <3>2 DEF ToGuest, ToHost
  <2>6. InQueue' = InQueue /\ Outstanding' = Outstanding /\ Distinct'
    BY <1>1, <2>4, <2>5, NothingMoves
  <2>7. \A d \in Channels :
           /\ handler'[d].pc \in {"record acked", "transmit"} => handler'[d] = handler[d]
           /\ handler'[d].pc = "record id" => handler'[d].id \in Ids
    BY <1>1, <2>2 DEF Rest, Once
  <2>8. Rest'
    BY <1>1, <1>2, <2>3, <2>6, <2>7, QuietRest
  <2> QED BY <1>1, <1>2, <2>6, <2>8 DEF Serves, MBINInv, Rest, Service!vars
<1>4. CASE ResetQueues(c)
  <2>1. InQueue' \subseteq InQueue /\ Outstanding' \subseteq Outstanding /\ Distinct'
    BY <1>1, <1>4, ResetMoves
  <2>2. HandlerGoes(c, "gone", 0) /\ UNCHANGED <<net, history>>
    BY <1>4 DEF ResetQueues
  <2>3. handler'[c].pc = "gone" /\ \A d \in Channels : d # c => handler'[d] = handler[d]
    BY <1>1, <2>2, HandlerMoves
  <2>4. \A d \in Channels :
           /\ handler'[d].pc \in {"record acked", "transmit"} => handler'[d] = handler[d]
           /\ handler'[d].pc = "record id" => handler'[d].id \in Ids
    BY <1>1, <2>3 DEF Rest, Once
  <2>5. Rest'
    BY <1>1, <1>2, <2>1, <2>2, <2>4, QuietRest
  <2> QED BY <1>1, <1>2, <2>1, <2>5 DEF Serves, MBINInv, Rest, Service!vars
<1>5. CASE TakeAck(c)
  <2>1. InQueue' = InQueue /\ Outstanding' = Outstanding /\ Distinct'
    BY <1>1, <1>5, TakeMoves
  <2>2. PICK i \in Ids : HandlerGoes(c, "record id", i)
    BY <1>1, <1>5, AckTaken
  <2>3. UNCHANGED <<net, history>>
    BY <1>5 DEF TakeAck
  <2>4. /\ handler'[c].pc = "record id" /\ handler'[c].id = i
        /\ \A d \in Channels : d # c => handler'[d] = handler[d]
    BY <1>1, <2>2, HandlerMoves
  <2>5. \A d \in Channels :
           /\ handler'[d].pc \in {"record acked", "transmit"} => handler'[d] = handler[d]
           /\ handler'[d].pc = "record id" => handler'[d].id \in Ids
    BY <1>1, <2>4 DEF Rest, Once
  <2>6. Rest'
    BY <1>1, <1>2, <2>1, <2>3, <2>5, QuietRest
  <2> QED BY <1>1, <1>2, <2>1, <2>6 DEF Serves, MBINInv, Rest, Service!vars
<1>6. CASE RecordId(c)
  <2>1. HandlerGoes(c, "record acked", handler[c].id) /\ handler[c].pc = "record id" /\ chan' = chan
    BY <1>6 DEF RecordId, Handler
  <2>2. /\ handler'[c].pc = "record acked" /\ handler'[c].id = handler[c].id
        /\ \A d \in Channels : d # c => handler'[d] = handler[d]
    BY <1>1, <2>1, HandlerMoves
  <2>3. ToGuest' = ToGuest /\ ToHost' = ToHost /\ Held' = Held
    BY <2>1, <2>2 DEF ToGuest, ToHost, Held
  <2>4. InQueue' = InQueue /\ Outstanding' = Outstanding /\ Distinct'
    BY <1>1, <2>3, NothingMoves
  <2>5. Rest'
    BY <1>1, <1>6, <2>4, RecordIdRest, HeldOutstanding
  <2> QED BY <1>1, <1>2, <2>4, <2>5 DEF Serves, MBINInv, Rest, Service!vars
<1>7. CASE RecordAcked(c)
  <2>1. handler[c].id \in Ids
    BY <1>1, <1>7 DEF RecordAcked, Handler, Rest, Once
  <2>2. /\ InQueue' = InQueue /\ Outstanding' \subseteq Outstanding
        /\ handler[c].id \in Outstanding /\ handler[c].id \notin Outstanding' /\ Distinct'
    BY <1>1, <1>7, <2>1, RecordMoves
  <2>3. Rest'
    BY <1>1, <1>7, <2>2, RecordAckedRest
  <2> QED BY <1>1, <1>2, <2>2, <2>3 DEF Serves, MBINInv, Rest, Service!vars
<1>8. CASE Transmit(c)
  <2>1. HandlerGoes(c, "return", 0) /\ handler[c].pc = "transmit" /\ chan' = chan
    BY <1>8 DEF Transmit, Handler
  <2>2. handler'[c].pc = "return" /\ \A d \in Channels : d # c => handler'[d] = handler[d]
    BY <1>1, <2>1, HandlerMoves
  <2>3. ToGuest' = ToGuest /\ ToHost' = ToHost /\ Held' = Held
    BY <2>1, <2>2 DEF ToGuest, ToHost, Held
  <2>4. InQueue' = InQueue /\ Outstanding' = Outstanding /\ Distinct'
    BY <1>1, <2>3, NothingMoves
  <2>5. Rest'
    BY <1>1, <1>8, <2>4, TransmitRest
  <2> QED BY <1>1, <1>2, <2>4, <2>5 DEF Serves, MBINInv, Rest, Service!vars
<1> QED BY <1>3, <1>4, <1>5, <1>6, <1>7, <1>8 DEF HandlerStep

LEMMA NextServes == MBINInv /\ [Next]_vars => Serves
<1> SUFFICES ASSUME MBINInv, [Next]_vars PROVE Serves
  OBVIOUS
<1>1. ASSUME NEW i \in Ids,
             Send(i) \/ Acknowledged(i) \/ Lose(Data(i)) \/ Lose(Ack(i)) \/ Receive(i)
      PROVE  Serves
  BY <1>1, OutsideServes
<1>2. ASSUME NEW c \in Channels,
             \/ StartMBIN(c) \/ ShutDown(c) \/ PollImpulse(c) \/ HandlePacket(c) \/ TakeReturned(c)
             \/ HandlerStep(c)
      PROVE  Serves
  BY <1>2, LispServes, HandlerServes
<1>3. CASE SpyStep
  BY <1>3, SpyServes
<1>4. CASE UNCHANGED vars
  <2>1. Types' /\ UNCHANGED <<sent, handled, acked, net, history, chan, spy, handler>>
    BY <1>4 DEF vars, MBINInv, Types
  <2>2. ToGuest' = ToGuest /\ ToHost' = ToHost /\ Held' = Held
    BY <2>1 DEF ToGuest, ToHost, Held
  <2>3. InQueue' = InQueue /\ Outstanding' = Outstanding /\ Distinct'
    BY <2>2, NothingMoves DEF MBINInv
  <2>4. Rest'
    BY <2>1, <2>3, QuietRest DEF MBINInv, Rest, Once
  <2> QED BY <2>1, <2>3, <2>4 DEF Serves, MBINInv, Rest, Service!vars
<1> QED BY <1>1, <1>2, <1>3, <1>4 DEF Next

-----------------------------------------------------------------------------
(* The limits of the queues, and of the buffers that pass through them.    *)

(* n[c] for each channel c, as a set: its size is their sum. *)
Tokens(n) == {p \in Channels \X Nat : p[2] \in 1 .. n[p[1]]}
Counts    == [Channels -> Nat]

LEMMA TokensOf ==
  ASSUME NEW n \in Counts, IsFiniteSet(Tokens(n)), NEW c \in Channels
  PROVE  n[c] <= Cardinality(Tokens(n))
<1> DEFINE f == [k \in 1 .. n[c] |-> <<c, k>>]
<1>1. n[c] \in Nat
  BY DEF Counts
<1>2. f \in [1 .. n[c] -> Tokens(n)]
  BY <1>1 DEF Tokens
<1>3. f \in Injection(1 .. n[c], Tokens(n))
  <2>1. ASSUME NEW k \in 1 .. n[c], NEW l \in 1 .. n[c], f[k] = f[l] PROVE k = l
    BY <2>1
  <2> QED BY <1>2, <2>1 DEF Injection, IsInjective
<1>4. Cardinality(1 .. n[c]) <= Cardinality(Tokens(n))
  BY <1>3, FS_Injection
<1>5. Cardinality(1 .. n[c]) = n[c]
  BY <1>1, FS_Interval
<1> QED BY <1>4, <1>5

LEMMA TokensMore ==
  ASSUME NEW n \in Counts, NEW m \in Counts, IsFiniteSet(Tokens(n)), NEW c \in Channels,
         m[c] = n[c] + 1, \A d \in Channels : d # c => m[d] = n[d]
  PROVE  IsFiniteSet(Tokens(m)) /\ Cardinality(Tokens(m)) = Cardinality(Tokens(n)) + 1
<1>1. n[c] \in Nat /\ \A d \in Channels : n[d] \in Nat /\ m[d] \in Nat
  BY DEF Counts
<1>2. <<c, n[c] + 1>> \notin Tokens(n)
  BY <1>1 DEF Tokens
<1>3. Tokens(m) = Tokens(n) \cup {<<c, n[c] + 1>>}
  <2>1. ASSUME NEW d \in Channels, NEW k \in Nat
        PROVE  <<d, k>> \in Tokens(m) <=> <<d, k>> \in Tokens(n) \cup {<<c, n[c] + 1>>}
    <3>1. CASE d = c
      BY <1>1, <3>1 DEF Tokens
    <3>2. CASE d # c
      BY <1>1, <3>2 DEF Tokens
    <3> QED BY <3>1, <3>2
  <2>2. Tokens(m) \subseteq Channels \X Nat /\ Tokens(n) \cup {<<c, n[c] + 1>>} \subseteq Channels \X Nat
    BY <1>1 DEF Tokens
  <2> QED BY <2>1, <2>2
<1> QED BY <1>2, <1>3, FS_AddElement

LEMMA TokensLess ==
  ASSUME NEW n \in Counts, NEW m \in Counts, IsFiniteSet(Tokens(n)),
         \A d \in Channels : m[d] <= n[d]
  PROVE  IsFiniteSet(Tokens(m)) /\ Cardinality(Tokens(m)) <= Cardinality(Tokens(n))
<1>1. \A d \in Channels : n[d] \in Nat /\ m[d] \in Nat
  BY DEF Counts
<1>2. Tokens(m) \subseteq Tokens(n)
  BY <1>1 DEF Tokens
<1> QED BY <1>2, FS_Subset

LEMMA TokensFewer ==
  ASSUME NEW n \in Counts, NEW m \in Counts, IsFiniteSet(Tokens(n)), NEW c \in Channels,
         n[c] = m[c] + 1, \A d \in Channels : d # c => m[d] = n[d]
  PROVE  IsFiniteSet(Tokens(m)) /\ Cardinality(Tokens(m)) + 1 = Cardinality(Tokens(n))
<1>1. IsFiniteSet(Tokens(m))
  <2>1. \A d \in Channels : m[d] <= n[d]
    BY DEF Counts
  <2> QED BY <2>1, TokensLess
<1> QED BY <1>1, TokensMore

LEMMA TokensAtFirst ==
  ASSUME NEW n \in Counts, \A c \in Channels : n[c] = Buffers
  PROVE  IsFiniteSet(Tokens(n)) /\ Cardinality(Tokens(n)) = NChannels * Buffers
<1>1. NChannels \in Nat \ {0} /\ Buffers \in Nat \ {0}
  BY MBINChannelAssumption DEF MBINChannelAssumption
<1>2. Tokens(n) = Channels \X (1 .. Buffers)
  BY <1>1 DEF Tokens
<1>3. /\ IsFiniteSet(Channels) /\ Cardinality(Channels) = NChannels
      /\ IsFiniteSet(1 .. Buffers) /\ Cardinality(1 .. Buffers) = Buffers
  BY <1>1, FS_Interval DEF Channels
<1> QED BY <1>2, <1>3, FS_Product, ZenonT(30)

(* Buffers free, on their way, returned and carried, within A. *)
LEMMA Budget ==
  ASSUME NEW f \in Nat, NEW h \in Nat, NEW r \in Nat, NEW k \in {0, 1}, NEW A \in Nat,
         f + h + r + k <= A
  PROVE  /\ f <= A
         /\ f > 0 => f - 1 + (h + 1) + r + k <= A
         /\ r > 0 => f + 1 + h + (r - 1) + k <= A
OBVIOUS

LEMMA OneMore ==
  ASSUME NEW m \in Nat, NEW q \in Nat, m < q
  PROVE  m + 1 <= q
OBVIOUS

LEMMA Room ==
  ASSUME NEW r \in Nat, NEW k \in {0, 1}, NEW Q \in Nat, r + k <= Q
  PROVE  r <= Q /\ r - 1 + k <= Q
OBVIOUS

(* Packet buffers in a channel's supply or on their way to Lisp. *)
Load == [c \in Channels |-> chan[c].supply + Len(chan[c].toGuest)]

(* A handler has a buffer between its take and its return. *)
Carried(c) == IF handler[c].pc \in {"record id", "record acked", "transmit", "return"}
              THEN 1 ELSE 0

Limits(c) ==
    /\ Len(chan[c].toGuest) <= QueueSpace /\ Len(chan[c].toHost) <= QueueSpace
    /\ chan[c].returned + Carried(c) <= QueueSpace
    /\ guest[c].free + Len(chan[c].toHost) + chan[c].returned + Carried(c) <= AckBuffers

(* No packet buffer comes from nowhere: the supplies, the queues and the   *)
(* spy's hand have no more than all channels had.                          *)
Stocked ==
    /\ IsFiniteSet(Tokens(Load))
    /\ Cardinality(Tokens(Load)) + (IF spy.pc = "put" THEN 1 ELSE 0) <= NChannels * Buffers

Datagram == {Data(i) : i \in Ids} \cup {Ack(i) : i \in Ids}

Bounds ==
    /\ net \subseteq Datagram /\ died \in BOOLEAN
    /\ \A c \in Channels : Limits(c)
    /\ Stocked

(* A step of which channel d's limits and load see nothing. *)
Same(d) ==
    /\ chan'[d].supply = chan[d].supply /\ chan'[d].toGuest = chan[d].toGuest
    /\ chan'[d].toHost = chan[d].toHost /\ chan'[d].returned = chan[d].returned
    /\ guest'[d].free = guest[d].free /\ Carried(d)' = Carried(d)

LEMMA LimitsStay ==
  ASSUME NEW d \in Channels, Limits(d), Same(d)
  PROVE  Limits(d)'
BY DEF Limits, Same

LEMMA LoadIs ==
  ASSUME Types
  PROVE  /\ Load \in Counts
         /\ \A d \in Channels : /\ chan[d] \in ChannelStates /\ guest[d].free \in Nat
                                /\ chan[d].supply \in Nat /\ chan[d].returned \in Nat
                                /\ Len(chan[d].toGuest) \in Nat /\ Len(chan[d].toHost) \in Nat
                                /\ Load[d] = chan[d].supply + Len(chan[d].toGuest)
                                /\ Carried(d) \in {0, 1}
<1>1. ASSUME NEW d \in Channels
      PROVE  /\ chan[d] \in ChannelStates /\ guest[d].free \in Nat
             /\ chan[d].supply \in Nat /\ chan[d].returned \in Nat
             /\ Len(chan[d].toGuest) \in Nat /\ Len(chan[d].toHost) \in Nat
             /\ Load[d] = chan[d].supply + Len(chan[d].toGuest)
             /\ Load[d] \in Nat /\ Carried(d) \in {0, 1}
  <2>1. chan[d] \in ChannelStates /\ guest[d].free \in Nat
    BY DEF Types
  <2>2. /\ chan[d].supply \in Nat /\ chan[d].returned \in Nat
        /\ chan[d].toGuest \in Seq(Ids) /\ chan[d].toHost \in Seq(Ids)
    BY <2>1 DEF ChannelStates
  <2>3. Len(chan[d].toGuest) \in Nat /\ Len(chan[d].toHost) \in Nat
    BY <2>2
  <2>4. Load[d] = chan[d].supply + Len(chan[d].toGuest) /\ Carried(d) \in {0, 1}
    BY DEF Load, Carried
  <2> QED BY <2>1, <2>2, <2>3, <2>4
<1>2. Load \in Counts
  BY <1>1 DEF Load, Counts
<1> QED BY <1>1, <1>2

LEMMA LoadIsNext ==
  ASSUME Types'
  PROVE  /\ Load' \in Counts
         /\ \A d \in Channels : Load'[d] = chan'[d].supply + Len(chan'[d].toGuest)
<1>1. Load' \in Counts
  <2>1. \A d \in Channels : chan'[d].supply \in Nat /\ chan'[d].toGuest \in Seq(Ids)
    BY DEF Types, ChannelStates
  <2>2. \A d \in Channels : chan'[d].supply + Len(chan'[d].toGuest) \in Nat
    BY <2>1
  <2> QED BY <2>2 DEF Load, Counts
<1> QED BY <1>1 DEF Load

(* Steps that move no buffer. *)
LEMMA QuietBounds ==
  ASSUME Types, Types', Bounds, \A d \in Channels : Same(d), net' \subseteq Datagram,
         died' \in BOOLEAN, spy'.pc = "put" => spy.pc = "put"
  PROVE  Bounds'
<1>1. \A d \in Channels : Limits(d)'
  BY LimitsStay DEF Bounds
<1>2. Load' = Load
  BY DEF Load, Same
<1>3. Stocked'
  <2>1. Cardinality(Tokens(Load)) \in Nat /\ NChannels * Buffers \in Nat
    BY FS_CardinalityType, MBINChannelAssumption DEF Bounds, Stocked, MBINChannelAssumption
  <2> QED BY <1>2, <2>1 DEF Bounds, Stocked, Tokens
<1> QED BY <1>1, <1>3 DEF Bounds

LEMMA LispBounds ==
  ASSUME Types, Types', Bounds, NEW c \in Channels,
         StartMBIN(c) \/ ShutDown(c) \/ PollImpulse(c) \/ HandlePacket(c) \/ TakeReturned(c)
  PROVE  Bounds'
<1>1. UNCHANGED <<net, spy, handler, died>> /\ \A d \in Channels : Carried(d)' = Carried(d)
  BY DEF StartMBIN, ShutDown, PollImpulse, HandlePacket, TakeReturned, Host, Carried
<1>2. /\ chan \in [Channels -> ChannelStates]
      /\ guest \in [Channels -> [state : {"none", "started", "closing"}, free : Nat]]
  BY DEF Types
<1>3. QueueSpace \in Nat /\ AckBuffers \in Nat
  BY MBINChannelAssumption DEF MBINChannelAssumption
<1>4. CASE StartMBIN(c) \/ ShutDown(c) \/ PollImpulse(c)
  <2>1. \A d \in Channels : Same(d)
    <3>1. CASE StartMBIN(c)
      BY <1>1, <1>2, <3>1 DEF StartMBIN, Same
    <3>2. CASE ShutDown(c)
      BY <1>1, <1>2, <3>2 DEF ShutDown, Same, ChannelStates
    <3>3. CASE PollImpulse(c)
      BY <1>1, <1>2, <3>3 DEF PollImpulse, Same, ChannelStates
    <3> QED BY <1>4, <3>1, <3>2, <3>3
  <2> QED BY <1>1, <2>1, QuietBounds DEF Bounds
<1>5. CASE HandlePacket(c)
  <2>1. /\ chan[c].toGuest # <<>> /\ Head(chan[c].toGuest) \in Ids
        /\ chan'[c].toGuest = Tail(chan[c].toGuest)
        /\ chan'[c].toHost = Append(chan[c].toHost, Head(chan[c].toGuest))
        /\ chan'[c].supply = chan[c].supply + 1 /\ chan'[c].returned = chan[c].returned
        /\ \A d \in Channels : d # c => chan'[d] = chan[d]
    BY <1>5, HandleTurns
  <2>2. /\ guest'[c].free = guest[c].free - 1 /\ guest[c].free > 0
        /\ \A d \in Channels : d # c => guest'[d] = guest[d]
        /\ Len(chan[c].toHost) < QueueSpace
    BY <1>2, <1>5 DEF HandlePacket
  <2>3. /\ Len(chan'[c].toGuest) = Len(chan[c].toGuest) - 1
        /\ Len(chan'[c].toHost) = Len(chan[c].toHost) + 1
    <3>1. chan[c].toGuest \in Seq(Ids) /\ chan[c].toHost \in Seq(Ids)
      BY <1>2 DEF ChannelStates
    <3> QED BY <2>1, <3>1, TailFacts, AppendFacts
  <2>4. Limits(c)'
    <3>1. Limits(c)
      BY DEF Bounds
    <3>2. /\ Carried(c)' = Carried(c) /\ Carried(c) \in {0, 1}
          /\ guest[c].free \in Nat /\ chan[c].returned \in Nat
          /\ Len(chan[c].toGuest) \in Nat /\ Len(chan[c].toHost) \in Nat
      BY <1>1, LoadIs
    <3>3. guest[c].free - 1 + (Len(chan[c].toHost) + 1) + chan[c].returned + Carried(c) <= AckBuffers
      <4>1. guest[c].free + Len(chan[c].toHost) + chan[c].returned + Carried(c) <= AckBuffers
        BY <3>1 DEF Limits
      <4> DEFINE f == guest[c].free h == Len(chan[c].toHost) r == chan[c].returned k == Carried(c)
      <4>2. /\ f \in Nat /\ h \in Nat /\ r \in Nat /\ k \in {0, 1} /\ f + h + r + k <= AckBuffers
            /\ f > 0 /\ AckBuffers \in Nat
        BY <1>3, <2>2, <3>2, <4>1
      <4> HIDE DEF f, h, r, k
      <4>3. f - 1 + (h + 1) + r + k <= AckBuffers
        BY <4>2
      <4> QED BY <4>3 DEF f, h, r, k
    <3>4. Len(chan[c].toGuest) - 1 <= QueueSpace /\ Len(chan[c].toHost) + 1 <= QueueSpace
      BY <1>3, <2>2, <3>1, <3>2 DEF Limits
    <3>5. chan[c].returned + Carried(c) <= QueueSpace
      BY <3>1 DEF Limits
    <3> QED BY <2>1, <2>2, <2>3, <3>2, <3>3, <3>4, <3>5 DEF Limits
  <2>5. \A d \in Channels : Limits(d)'
    <3>1. \A d \in Channels : d # c => Same(d)
      BY <1>1, <2>1, <2>2 DEF Same
    <3> QED BY <2>4, <3>1, LimitsStay DEF Bounds
  <2>6. Load' = Load
    <3>1. ASSUME NEW d \in Channels PROVE Load'[d] = Load[d]
      <4>1. /\ Load[d] = chan[d].supply + Len(chan[d].toGuest)
            /\ Load'[d] = chan'[d].supply + Len(chan'[d].toGuest)
            /\ chan[d].supply \in Nat /\ Len(chan[d].toGuest) \in Nat
        BY LoadIs, LoadIsNext
      <4>2. CASE d = c
        <5>1. chan[c].supply + 1 + (Len(chan[c].toGuest) - 1) = chan[c].supply + Len(chan[c].toGuest)
          BY <4>1, <4>2
        <5>2. Load'[c] = chan[c].supply + 1 + (Len(chan[c].toGuest) - 1)
          BY <2>1, <2>3, <4>1, <4>2
        <5> QED BY <4>1, <4>2, <5>1, <5>2
      <4>3. CASE d # c
        BY <2>1, <4>1, <4>3
      <4> QED BY <4>2, <4>3
    <3> QED BY <3>1, LoadIs, LoadIsNext DEF Load
  <2>7. Stocked'
    BY <1>1, <2>6 DEF Bounds, Stocked, Tokens
  <2> QED BY <1>1, <2>5, <2>7 DEF Bounds
<1>6. CASE TakeReturned(c)
  <2>1. /\ chan'[c] = [chan[c] EXCEPT !.returned = @ - 1] /\ chan[c].returned > 0
        /\ \A d \in Channels : d # c => chan'[d] = chan[d]
        /\ guest'[c].free = guest[c].free + 1
        /\ \A d \in Channels : d # c => guest'[d] = guest[d]
    BY <1>2, <1>6 DEF TakeReturned
  <2>2. /\ chan'[c].supply = chan[c].supply /\ chan'[c].toGuest = chan[c].toGuest
        /\ chan'[c].toHost = chan[c].toHost /\ chan'[c].returned = chan[c].returned - 1
    BY <1>2, <2>1 DEF ChannelStates
  <2>3. Limits(c)'
    <3>1. Limits(c)
      BY DEF Bounds
    <3>2. /\ Carried(c)' = Carried(c) /\ Carried(c) \in {0, 1}
          /\ guest[c].free \in Nat /\ chan[c].returned \in Nat
          /\ Len(chan[c].toGuest) \in Nat /\ Len(chan[c].toHost) \in Nat
      BY <1>1, LoadIs
    <3>3. guest[c].free + 1 + Len(chan[c].toHost) + (chan[c].returned - 1) + Carried(c) <= AckBuffers
      <4>1. guest[c].free + Len(chan[c].toHost) + chan[c].returned + Carried(c) <= AckBuffers
        BY <3>1 DEF Limits
      <4> DEFINE f == guest[c].free h == Len(chan[c].toHost) r == chan[c].returned k == Carried(c)
      <4>2. /\ f \in Nat /\ h \in Nat /\ r \in Nat /\ k \in {0, 1} /\ f + h + r + k <= AckBuffers
            /\ r > 0 /\ AckBuffers \in Nat
        BY <1>3, <2>1, <3>2, <4>1
      <4> HIDE DEF f, h, r, k
      <4>3. f + 1 + h + (r - 1) + k <= AckBuffers
        BY <4>2
      <4> QED BY <4>3 DEF f, h, r, k
    <3>4. chan[c].returned - 1 + Carried(c) <= QueueSpace
      BY <1>3, <3>1, <3>2, Room DEF Limits
    <3>5. Len(chan[c].toGuest) <= QueueSpace /\ Len(chan[c].toHost) <= QueueSpace
      BY <3>1 DEF Limits
    <3> QED BY <2>1, <2>2, <3>2, <3>3, <3>4, <3>5 DEF Limits
  <2>4. \A d \in Channels : Limits(d)'
    <3>1. \A d \in Channels : d # c => Same(d)
      BY <1>1, <2>1 DEF Same
    <3> QED BY <2>3, <3>1, LimitsStay DEF Bounds
  <2>5. Load' = Load
    BY <2>1, <2>2 DEF Load
  <2>6. Stocked'
    BY <1>1, <2>5 DEF Bounds, Stocked, Tokens
  <2> QED BY <1>1, <2>4, <2>6 DEF Bounds
<1> QED BY <1>4, <1>5, <1>6

LEMMA OutsideBounds ==
  ASSUME Types, Types', Bounds, NEW i \in Ids,
         Send(i) \/ Acknowledged(i) \/ Lose(Data(i)) \/ Lose(Ack(i)) \/ Receive(i)
  PROVE  Bounds'
<1>1. UNCHANGED <<chan, guest, handler, died>>
  BY DEF Send, Acknowledged, Lose, Receive, Outside
<1>2. spy'.pc = "put" => spy.pc = "put"
  BY DEF Send, Acknowledged, Lose, Receive, Outside
<1>3. net' \subseteq Datagram
  BY DEF Send, Acknowledged, Lose, Receive, Bounds, Datagram
<1>4. \A d \in Channels : Same(d)
  BY <1>1 DEF Same, Carried
<1> QED BY <1>1, <1>2, <1>3, <1>4, QuietBounds DEF Bounds

LEMMA SpyMoves ==
  ASSUME NEW pc, SpyGoes(pc)
  PROVE  spy'.pc = pc
BY DEF SpyGoes

LEMMA SpyBounds ==
  ASSUME Types, Types', Bounds, spy.pc # "receive" => spy.id \in Ids, SpyStep
  PROVE  Bounds'
<1> DEFINE N == Cardinality(Tokens(Load))
<1>11. QueueSpace \in Nat
  BY MBINChannelAssumption DEF MBINChannelAssumption
<1>1. /\ N \in Nat /\ NChannels * Buffers \in Nat
      /\ IsFiniteSet(Tokens(Load)) /\ Load \in Counts
  BY FS_CardinalityType, LoadIs, MBINChannelAssumption DEF Bounds, Stocked, MBINChannelAssumption
<1>2. UNCHANGED <<guest, handler>> /\ died' \in BOOLEAN /\ spy.pc # "receive"
  BY DEF SpyStep, TestActive, TestHistory, AcknowledgeSeen, TestQueues, TakeBuffer, PutPacket,
         MarkId, MarkNotAcked, SpyGoes, NullFollowed, Spy, Bounds
<1>3. spy.id \in Ids
  BY <1>2
<1>4. net' \subseteq Datagram
  BY <1>3
     DEF SpyStep, TestActive, TestHistory, AcknowledgeSeen, TestQueues, TakeBuffer, PutPacket,
         MarkId, MarkNotAcked, SpyGoes, NullFollowed, Bounds, Datagram
<1>5. ASSUME UNCHANGED chan PROVE \A d \in Channels : Same(d)
  BY <1>2, <1>5 DEF Same, Carried
<1>6. CASE NullFollowed
  BY <1>2, <1>4, <1>5, <1>6, QuietBounds DEF NullFollowed
<1>7. CASE TestActive \/ TestHistory \/ AcknowledgeSeen \/ MarkId \/ MarkNotAcked
  <2>1. spy'.pc # "put" /\ UNCHANGED chan
    <3>1. PICK pc \in {"receive", "history", "seen", "queues", "mark acked"} : SpyGoes(pc)
      BY <1>7 DEF TestActive, TestHistory, AcknowledgeSeen, MarkId, MarkNotAcked
    <3>2. spy'.pc = pc
      BY <3>1, SpyMoves
    <3> QED BY <1>7, <3>2 DEF TestActive, TestHistory, AcknowledgeSeen, MarkId, MarkNotAcked
  <2> QED BY <1>2, <1>4, <1>5, <2>1, QuietBounds
<1>8. CASE TestQueues /\ ~NullFollowed
  <2>1. spy'.pc # "put" /\ UNCHANGED chan
    BY <1>8 DEF TestQueues, SpyGoes
  <2> QED BY <1>2, <1>4, <1>5, <2>1, QuietBounds
<1>9. CASE TakeBuffer /\ ~NullFollowed
  <2>1. CASE UNCHANGED chan /\ spy'.pc # "put"
    BY <1>2, <1>4, <1>5, <2>1, QuietBounds
  <2>2. CASE ~(UNCHANGED chan /\ spy'.pc # "put")
    <3>1. /\ active \in Channels /\ chan[active].supply > 0 /\ spy'.pc = "put" /\ spy.pc = "take"
          /\ chan' = [chan EXCEPT ![active].supply = @ - 1]
      BY <1>9, <2>2 DEF TakeBuffer, SpyGoes, Spy, Types
    <3>2. chan \in [Channels -> ChannelStates]
      BY DEF Types
    <3>3. /\ chan'[active].supply = chan[active].supply - 1
          /\ chan'[active].toGuest = chan[active].toGuest
          /\ chan'[active].toHost = chan[active].toHost
          /\ chan'[active].returned = chan[active].returned
          /\ \A d \in Channels : d # active => chan'[d] = chan[d]
      BY <3>1, <3>2 DEF ChannelStates
    <3>4. \A d \in Channels : Limits(d)'
      <4>1. \A d \in Channels : Limits(d)
        BY DEF Bounds
      <4> QED BY <1>2, <3>3, <4>1 DEF Limits, Carried
    <3>5. Load[active] = Load'[active] + 1 /\ \A d \in Channels : d # active => Load'[d] = Load[d]
      BY <3>1, <3>3, LoadIs, LoadIsNext
    <3>6. IsFiniteSet(Tokens(Load')) /\ Cardinality(Tokens(Load')) + 1 = N
      BY <1>1, <3>1, <3>5, LoadIsNext, TokensFewer
    <3>7. Stocked'
      <4>1. N <= NChannels * Buffers
        BY <1>1, <3>1 DEF Bounds, Stocked
      <4> QED BY <3>1, <3>6, <4>1 DEF Stocked, Tokens
    <3> QED BY <1>2, <1>4, <3>4, <3>7 DEF Bounds
  <2> QED BY <2>1, <2>2
<1>10. CASE PutPacket /\ ~NullFollowed
  <2>0. PICK a \in Channels : a = active
    BY <1>10 DEF PutPacket, Types
  <2>1. /\ chan'[a].toGuest = Append(chan[a].toGuest, spy.id)
        /\ chan'[a].toHost = chan[a].toHost
        /\ chan'[a].supply = chan[a].supply
        /\ chan'[a].returned = chan[a].returned
        /\ \A d \in Channels : d # a => chan'[d] = chan[d]
    BY <1>3, <1>10, <2>0, PutAppends
  <2>2. spy.pc = "put" /\ spy'.pc = "mark id" /\ Len(chan[a].toGuest) < QueueSpace
    <3>1. SpyGoes("mark id") /\ spy.pc = "put" /\ Len(chan[a].toGuest) < QueueSpace
      BY <1>10, <2>0 DEF PutPacket, Spy
    <3> QED BY <3>1, SpyMoves
  <2>3. Len(chan'[a].toGuest) = Len(chan[a].toGuest) + 1
    <3>1. chan[a].toGuest \in Seq(Ids)
      BY <2>1, LoadIs DEF ChannelStates
    <3> QED BY <1>3, <2>1, <3>1, AppendFacts
  <2>4. Limits(a)'
    <3>1. Limits(a)
      BY <2>1 DEF Bounds
    <3>2. Len(chan[a].toGuest) \in Nat
      BY <2>1, LoadIs
    <3>3. Len(chan[a].toGuest) + 1 <= QueueSpace
      BY <1>11, <2>2, <3>2, OneMore
    <3>4. Carried(a)' = Carried(a) /\ guest'[a].free = guest[a].free
      <4>1. handler' = handler /\ guest' = guest
        BY <1>2
      <4> QED BY <4>1 DEF Carried
    <3>5. Len(chan'[a].toGuest) <= QueueSpace
      BY <2>3, <3>3
    <3> QED BY <2>1, <3>1, <3>4, <3>5 DEF Limits
  <2>5. \A d \in Channels : Limits(d)'
    <3>1. \A d \in Channels : d # a => Same(d)
      BY <1>2, <2>1 DEF Same, Carried
    <3> QED BY <2>4, <3>1, LimitsStay DEF Bounds
  <2>6. Load'[a] = Load[a] + 1 /\ \A d \in Channels : d # a => Load'[d] = Load[d]
    <3>1. /\ Load[a] = chan[a].supply + Len(chan[a].toGuest)
          /\ Load'[a] = chan'[a].supply + Len(chan'[a].toGuest)
          /\ chan[a].supply \in Nat /\ Len(chan[a].toGuest) \in Nat
      BY <2>1, LoadIs, LoadIsNext
    <3>2. Load'[a] = Load[a] + 1
      <4>1. chan[a].supply + (Len(chan[a].toGuest) + 1)
              = chan[a].supply + Len(chan[a].toGuest) + 1
        BY <3>1
      <4> QED BY <2>1, <2>3, <3>1, <4>1
    <3>3. ASSUME NEW d \in Channels, d # a PROVE Load'[d] = Load[d]
      BY <2>1, <3>3, LoadIs, LoadIsNext
    <3> QED BY <3>2, <3>3
  <2>7. IsFiniteSet(Tokens(Load')) /\ Cardinality(Tokens(Load')) = N + 1
    BY <1>1, <2>1, <2>6, LoadIsNext, TokensMore
  <2>8. Stocked'
    <3>1. N + 1 <= NChannels * Buffers
      BY <2>2 DEF Bounds, Stocked
    <3>2. IF spy'.pc = "put" THEN FALSE ELSE TRUE
      BY <2>2
    <3>3. Cardinality(Tokens(Load')) + 0 <= NChannels * Buffers
      BY <1>1, <2>7, <3>1
    <3> QED BY <2>7, <3>2, <3>3 DEF Stocked, Tokens
  <2> QED BY <1>2, <1>4, <2>5, <2>8 DEF Bounds
<1> QED BY <1>6, <1>7, <1>8, <1>9, <1>10 DEF SpyStep

LEMMA HandlerBounds ==
  ASSUME Types, Types', Bounds, NEW c \in Channels, HandlerStep(c),
         handler[c].pc = "transmit" => handler[c].id \in Ids
  PROVE  Bounds'
<1>1. UNCHANGED <<guest, spy, died>>
  BY DEF HandlerStep, Signalled, Deactivate, ResetQueues, TakeAck, EndLoop, RecordId,
         RecordAcked, Transmit, ReturnBuffer, HandlerGoes
<1>2. net' \subseteq Datagram
  BY DEF HandlerStep, Signalled, Deactivate, ResetQueues, TakeAck, EndLoop, RecordId,
         RecordAcked, Transmit, ReturnBuffer, Handler, Bounds, Datagram
<1>3. QueueSpace \in Nat /\ AckBuffers \in Nat
  BY MBINChannelAssumption DEF MBINChannelAssumption
<1>4. chan \in [Channels -> ChannelStates]
  BY DEF Types
<1>5. ASSUME NEW pc, NEW i, HandlerGoes(c, pc, i)
      PROVE  /\ handler'[c].pc = pc
             /\ \A d \in Channels : d # c => handler'[d] = handler[d]
  BY <1>5, HandlerMoves
<1>6. CASE Signalled(c) \/ Deactivate(c) \/ EndLoop(c)
  <2>1. Carried(c) = 0 /\ Carried(c)' = 0 /\ \A d \in Channels : d # c => handler'[d] = handler[d]
    <3>1. PICK pc \in {"deactivate", "loop", "reset", "wait"} : HandlerGoes(c, pc, 0)
      BY <1>6 DEF Signalled, Deactivate, EndLoop
    <3>2. handler[c].pc \in {"wait", "deactivate", "loop"}
      BY <1>6 DEF Signalled, Deactivate, EndLoop, Handler
    <3> QED BY <1>5, <3>1, <3>2 DEF Carried
  <2>2. \A d \in Channels : /\ chan'[d].supply = chan[d].supply
                            /\ chan'[d].toGuest = chan[d].toGuest
                            /\ chan'[d].toHost = chan[d].toHost
                            /\ chan'[d].returned = chan[d].returned
    <3>1. CASE Deactivate(c)
      BY <3>1 DEF Deactivate
    <3>2. CASE Signalled(c)
      BY <1>4, <3>2 DEF Signalled, ChannelStates
    <3>3. CASE EndLoop(c)
      <4>1. PICK b : chan' = [chan EXCEPT ![c].signal = b]
        BY <3>3, Zenon DEF EndLoop
      <4> QED BY <1>4, <4>1 DEF ChannelStates
    <3> QED BY <1>6, <3>1, <3>2, <3>3
  <2>3. \A d \in Channels : Same(d)
    BY <1>1, <2>1, <2>2 DEF Same, Carried
  <2> QED BY <1>1, <1>2, <2>3, QuietBounds DEF Bounds
<1>7. CASE RecordId(c) \/ RecordAcked(c) \/ Transmit(c)
  <2>1. Carried(c) = 1 /\ Carried(c)' = 1 /\ \A d \in Channels : d # c => handler'[d] = handler[d]
    <3>1. \E pc \in {"record acked", "transmit", "return"} : \E i : HandlerGoes(c, pc, i)
      BY <1>7 DEF RecordId, RecordAcked, Transmit
    <3>2. PICK pc \in {"record acked", "transmit", "return"} : \E i : HandlerGoes(c, pc, i)
      BY <3>1
    <3>3. PICK i : HandlerGoes(c, pc, i)
      BY <3>2
    <3>4. handler[c].pc \in {"record id", "record acked", "transmit"}
      BY <1>7 DEF RecordId, RecordAcked, Transmit, Handler
    <3> QED BY <1>5, <3>3, <3>4 DEF Carried
  <2>2. UNCHANGED chan
    BY <1>7 DEF RecordId, RecordAcked, Transmit
  <2>3. \A d \in Channels : Same(d)
    BY <1>1, <2>1, <2>2 DEF Same, Carried
  <2> QED BY <1>1, <1>2, <2>3, QuietBounds DEF Bounds
<1>8. CASE ResetQueues(c)
  <2>1. Carried(c) = 0 /\ Carried(c)' = 0 /\ \A d \in Channels : d # c => handler'[d] = handler[d]
    <3>1. HandlerGoes(c, "gone", 0) /\ handler[c].pc = "reset"
      BY <1>8 DEF ResetQueues, Handler
    <3>2. handler'[c].pc = "gone" /\ \A d \in Channels : d # c => handler'[d] = handler[d]
      BY <3>1, HandlerMoves
    <3> QED BY <3>1, <3>2 DEF Carried
  <2>2. /\ chan'[c].toHost = <<>> /\ chan'[c].toGuest = <<>>
        /\ chan'[c].supply = 0 /\ chan'[c].returned = 0
        /\ \A d \in Channels : d # c => chan'[d] = chan[d]
    BY <1>8, QueuesEmptied
  <2>3. Len(<<>>) = 0
    OBVIOUS
  <2>4. Limits(c)'
    <3>1. Limits(c)
      BY DEF Bounds
    <3> QED BY <1>1, <1>3, <2>1, <2>2, <2>3, <3>1, LoadIs DEF Limits
  <2>5. \A d \in Channels : Limits(d)'
    <3>1. \A d \in Channels : d # c => Same(d)
      BY <1>1, <2>1, <2>2 DEF Same, Carried
    <3> QED BY <2>4, <3>1, LimitsStay DEF Bounds
  <2>6. \A d \in Channels : Load'[d] <= Load[d]
    <3>1. Load'[c] = 0 /\ Load[c] \in Nat
      BY <2>2, <2>3, LoadIs, LoadIsNext DEF Counts
    <3>2. ASSUME NEW d \in Channels, d # c PROVE Load'[d] = Load[d] /\ Load[d] \in Nat
      BY <2>2, <3>2, LoadIs, LoadIsNext DEF Counts
    <3> QED BY <3>1, <3>2
  <2>7. /\ IsFiniteSet(Tokens(Load')) /\ Cardinality(Tokens(Load')) <= Cardinality(Tokens(Load))
    BY <2>6, LoadIs, LoadIsNext, TokensLess DEF Bounds, Stocked
  <2>8. Stocked'
    <3>1. Cardinality(Tokens(Load)) \in Nat /\ Cardinality(Tokens(Load')) \in Nat
          /\ NChannels * Buffers \in Nat
      BY <2>7, FS_CardinalityType, MBINChannelAssumption DEF Bounds, Stocked, MBINChannelAssumption
    <3> QED BY <1>1, <2>7, <3>1 DEF Bounds, Stocked, Tokens
  <2> QED BY <1>1, <1>2, <2>5, <2>8 DEF Bounds
<1>9. CASE TakeAck(c)
  <2>1. /\ chan[c].toHost # <<>> /\ chan'[c].toHost = Tail(chan[c].toHost)
        /\ chan'[c].toGuest = chan[c].toGuest
        /\ chan'[c].supply = chan[c].supply /\ chan'[c].returned = chan[c].returned
        /\ \A d \in Channels : d # c => chan'[d] = chan[d]
    BY <1>9, AckTaken
  <2>2. Carried(c) = 0 /\ Carried(c)' = 1 /\ \A d \in Channels : d # c => handler'[d] = handler[d]
    <3>1. HandlerGoes(c, "record id", Head(chan[c].toHost)) /\ handler[c].pc = "loop"
      BY <1>9 DEF TakeAck, Handler
    <3>2. handler'[c].pc = "record id" /\ \A d \in Channels : d # c => handler'[d] = handler[d]
      BY <3>1, HandlerMoves
    <3> QED BY <3>1, <3>2 DEF Carried
  <2>3. Len(chan'[c].toHost) = Len(chan[c].toHost) - 1 /\ chan[c].returned < QueueSpace
    <3>1. chan[c].toHost \in Seq(Ids)
      BY <1>4 DEF ChannelStates
    <3> QED BY <1>9, <2>1, <3>1, TailFacts DEF TakeAck
  <2>4. Limits(c)'
    <3>1. Limits(c)
      BY DEF Bounds
    <3> QED BY <1>1, <1>3, <2>1, <2>2, <2>3, <3>1, LoadIs DEF Limits
  <2>5. \A d \in Channels : Limits(d)'
    <3>1. \A d \in Channels : d # c => Same(d)
      BY <1>1, <2>1, <2>2 DEF Same, Carried
    <3> QED BY <2>4, <3>1, LimitsStay DEF Bounds
  <2>6. Load' = Load
    BY <2>1 DEF Load
  <2>7. Stocked'
    BY <1>1, <2>6 DEF Bounds, Stocked, Tokens
  <2> QED BY <1>1, <1>2, <2>5, <2>7 DEF Bounds
<1>10. CASE ReturnBuffer(c)
  <2>1. /\ chan'[c] = [chan[c] EXCEPT !.returned = @ + 1]
        /\ \A d \in Channels : d # c => chan'[d] = chan[d]
    BY <1>4, <1>10 DEF ReturnBuffer
  <2>2. /\ chan'[c].supply = chan[c].supply /\ chan'[c].toGuest = chan[c].toGuest
        /\ chan'[c].toHost = chan[c].toHost /\ chan'[c].returned = chan[c].returned + 1
    BY <1>4, <2>1 DEF ChannelStates
  <2>3. Carried(c) = 1 /\ Carried(c)' = 0 /\ \A d \in Channels : d # c => handler'[d] = handler[d]
    <3>1. HandlerGoes(c, "loop", 0) /\ handler[c].pc = "return"
      BY <1>10 DEF ReturnBuffer, Handler
    <3>2. handler'[c].pc = "loop" /\ \A d \in Channels : d # c => handler'[d] = handler[d]
      BY <3>1, HandlerMoves
    <3> QED BY <3>1, <3>2 DEF Carried
  <2>4. Limits(c)'
    <3>1. Limits(c)
      BY DEF Bounds
    <3> QED BY <1>1, <1>3, <2>2, <2>3, <3>1, LoadIs, SMTT(30) DEF Limits
  <2>5. \A d \in Channels : Limits(d)'
    <3>1. \A d \in Channels : d # c => Same(d)
      BY <1>1, <2>1, <2>3 DEF Same, Carried
    <3> QED BY <2>4, <3>1, LimitsStay DEF Bounds
  <2>6. Load' = Load
    BY <2>1, <2>2 DEF Load
  <2>7. Stocked'
    BY <1>1, <2>6 DEF Bounds, Stocked, Tokens
  <2> QED BY <1>1, <1>2, <2>5, <2>7 DEF Bounds
<1> QED BY <1>6, <1>7, <1>8, <1>9, <1>10 DEF HandlerStep

LEMMA InitBounds == Init => Bounds
<1> SUFFICES ASSUME Init PROVE Bounds
  OBVIOUS
<1>1. Types
  BY InitInv DEF MBINInv
<1>2. /\ QueueSpace \in Nat \ {0} /\ AckBuffers \in Nat \ {0} /\ Buffers \in Nat \ {0}
      /\ NChannels \in Nat \ {0}
  BY MBINChannelAssumption DEF MBINChannelAssumption
<1>3. \A c \in Channels : /\ chan[c].toGuest = <<>> /\ chan[c].toHost = <<>>
                          /\ chan[c].supply = Buffers /\ chan[c].returned = 0
                          /\ guest[c].free = AckBuffers /\ Carried(c) = 0
  BY DEF Init, Carried
<1>4. Len(<<>>) = 0
  OBVIOUS
<1>5. \A c \in Channels : Limits(c)
  BY <1>2, <1>3, <1>4 DEF Limits
<1>6. Stocked
  <2>1. \A c \in Channels : Load[c] = Buffers
    BY <1>1, <1>2, <1>3, <1>4, LoadIs
  <2>2. IsFiniteSet(Tokens(Load)) /\ Cardinality(Tokens(Load)) = NChannels * Buffers
    BY <1>1, <2>1, LoadIs, TokensAtFirst
  <2>3. spy.pc # "put"
    BY DEF Init
  <2>4. NChannels * Buffers + 0 <= NChannels * Buffers
    BY <1>2
  <2> QED BY <2>2, <2>3, <2>4 DEF Stocked
<1> QED BY <1>5, <1>6 DEF Bounds, Init

LEMMA NextBounds == MBINInv /\ Bounds /\ [Next]_vars => Bounds'
<1> SUFFICES ASSUME MBINInv, Bounds, [Next]_vars PROVE Bounds'
  OBVIOUS
<1>1. MBINInv'
  BY NextServes DEF Serves
<1>2. Types /\ Types' /\ Window /\ Once
  BY <1>1 DEF MBINInv
<1>3. ASSUME NEW i \in Ids,
             Send(i) \/ Acknowledged(i) \/ Lose(Data(i)) \/ Lose(Ack(i)) \/ Receive(i)
      PROVE  Bounds'
  BY <1>2, <1>3, OutsideBounds
<1>4. ASSUME NEW c \in Channels,
             StartMBIN(c) \/ ShutDown(c) \/ PollImpulse(c) \/ HandlePacket(c) \/ TakeReturned(c)
      PROVE  Bounds'
  BY <1>2, <1>4, LispBounds
<1>5. ASSUME NEW c \in Channels, HandlerStep(c) PROVE Bounds'
  BY <1>2, <1>5, HandlerBounds DEF Once
<1>6. CASE SpyStep
  BY <1>2, <1>6, SpyBounds, IdTypes
<1>7. CASE UNCHANGED vars
  <2>1. \A d \in Channels : Same(d)
    BY <1>7 DEF vars, Same, Carried
  <2> QED BY <1>2, <1>7, <2>1, QuietBounds DEF vars, Bounds
<1> QED BY <1>3, <1>4, <1>5, <1>6, <1>7 DEF Next

-----------------------------------------------------------------------------
(* The theorems *)

(* The invariant of the protocol: every packet is in one place, remembered *)
(* while a copy of it may come, and acknowledged only when it was recorded *)
(* (spy.c:400-415 and 507-516).                                            *)
THEOREM MBINInvariance == Spec => []MBINInv
<1>1. Init => MBINInv
  BY InitInv
<1>2. MBINInv /\ [Next]_vars => MBINInv'
  BY NextServes DEF Serves
<1> QED BY <1>1, <1>2, PTL DEF Spec

(* Whatever is lost, sent again, overtaken or shut down, the debugger's    *)
(* packets are handled at most once each, and acknowledged only when they  *)
(* have been handled (spy.c:400 and 513), with any number of packets and   *)
(* channels and any size of the history.                                   *)
THEOREM MBINImplementsService == Spec => ImplementsService
<1>1. Init => Service!Init
  BY InitInv
<1>2. MBINInv /\ [Next]_vars => [Service!Next]_(Service!vars)
  BY NextServes DEF Serves
<1> QED BY <1>1, <1>2, MBINInvariance, PTL DEF Spec, ImplementsService, Service!Spec

(* Every variable has its type and every queue its limit: Lisp never gets  *)
(* more acknowledgement buffers back than it had, and packet buffers taken *)
(* from a channel that is shut down may end up at another, but no more     *)
(* come about.                                                             *)
THEOREM MBINTypeCorrect == Spec => []MBINTypeOK
<1>1. Init => Bounds
  BY InitBounds
<1>2. MBINInv /\ Bounds /\ [Next]_vars => Bounds'
  BY NextBounds
<1>3. MBINInv /\ Bounds => MBINTypeOK
  <2> SUFFICES ASSUME MBINInv, Bounds PROVE MBINTypeOK
    OBVIOUS
  <2>1. Types /\ Window /\ Honest
    BY DEF MBINInv
  <2>2. acked \subseteq sent
    <3>1. ASSUME NEW i \in acked PROVE i \in sent
      <4>1. i \in Ids /\ handled[i] = 1
        BY <2>1 DEF Types, Honest, Recorded
      <4>2. ~Unput(i)
        BY <4>1, OneIsNotZero DEF Unput
      <4> QED BY <2>1, <4>1, <4>2 DEF Window
    <3> QED BY <3>1
  <2>3. ASSUME NEW c \in Channels
        PROVE  /\ chan[c].supply \in 0 .. NChannels * Buffers
               /\ chan[c].toGuest \in Seq(Ids) /\ Len(chan[c].toGuest) <= QueueSpace
               /\ chan[c].toHost \in Seq(Ids) /\ Len(chan[c].toHost) <= QueueSpace
               /\ chan[c].returned \in 0 .. QueueSpace
               /\ guest[c].state \in {"none", "started", "closing"}
               /\ guest[c].free \in 0 .. AckBuffers
               /\ handler[c].id \in {0} \cup Ids
    <3>1. /\ Limits(c) /\ Stocked /\ QueueSpace \in Nat /\ AckBuffers \in Nat
          /\ NChannels * Buffers \in Nat
      BY MBINChannelAssumption DEF Bounds, MBINChannelAssumption
    <3>2. /\ chan[c] \in ChannelStates /\ guest[c].free \in Nat
          /\ chan[c].supply \in Nat /\ chan[c].returned \in Nat
          /\ Len(chan[c].toGuest) \in Nat /\ Len(chan[c].toHost) \in Nat
          /\ Load[c] = chan[c].supply + Len(chan[c].toGuest)
      BY <2>1, LoadIs
    <3>3. chan[c].supply <= NChannels * Buffers
      <4>1. Load[c] <= Cardinality(Tokens(Load)) /\ Cardinality(Tokens(Load)) \in Nat
        BY <2>1, <3>1, LoadIs, TokensOf, FS_CardinalityType DEF Stocked
      <4>2. Cardinality(Tokens(Load)) <= NChannels * Buffers
        BY <3>1, <4>1 DEF Stocked
      <4> QED BY <3>1, <3>2, <4>1, <4>2
    <3>4. guest[c].free <= AckBuffers /\ chan[c].returned <= QueueSpace
      <4>1. Carried(c) \in {0, 1}
        BY DEF Carried
      <4> QED BY <3>1, <3>2, <4>1, Budget, Room, SMTT(30) DEF Limits
    <3>5. chan[c].toGuest \in Seq(Ids) /\ chan[c].toHost \in Seq(Ids)
      BY <3>2 DEF ChannelStates
    <3>6. guest[c].state \in {"none", "started", "closing"} /\ handler[c].id \in {0} \cup Ids
      BY <2>1 DEF Types, HandlerStates
    <3>7. Len(chan[c].toGuest) <= QueueSpace /\ Len(chan[c].toHost) <= QueueSpace
      BY <3>1 DEF Limits
    <3> QED BY <3>1, <3>2, <3>3, <3>4, <3>5, <3>6, <3>7
  <2> QED BY <2>1, <2>2, <2>3 DEF MBINTypeOK, Types, Bounds, Datagram, SpyStates
<1> QED BY <1>1, <1>2, <1>3, MBINInvariance, PTL DEF Spec
=============================================================================
