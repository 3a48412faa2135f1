------------------------ MODULE MessageChannelsProofs ------------------------
(***************************************************************************)
(* The list of active message channels: its links never form a cycle, for  *)
(* every number of channels and whatever threads meet in it; and while no  *)
(* two have met, it holds the channels it should, and nobody follows freed *)
(* data.                                                                   *)
(***************************************************************************)
EXTENDS MessageChannels, SequenceTheorems, WellFoundedInduction, TLAPS

(* Channels that have been threaded. *)
Threaded(n) ==
    \/ n = None
    \/ guest[n] \in {"started", "closing"}
    \/ starter.pc \in {"activate", "install", "answer"} /\ n = starter.for

(* Lisp starts one channel at a time, and the next when the one before is  *)
(* closing.                                                                *)
OneByOne ==
    /\ \A c, d \in Channels : d < c /\ guest[c] # "none" => guest[d] = "closing"
    /\ commands # <<>> => /\ Len(commands) = 1 /\ guest[commands[1]] = "asked"
                          /\ starter.pc = "wait"
    /\ starter.pc # "wait" => commands = <<>> /\ guest[starter.for] = "asked"

(* Links, and those a thread is about to write, lead to threaded channels. *)
LinksThreaded ==
    /\ \A n \in Nodes : Threaded(next[n])
    /\ starter.pc \in {"find end", "link"} => starter.at = 0 \/ Threaded(starter.at)
    /\ \A c \in Channels : handler[c].pc = "unlink" =>
          Threaded(handler[c].succ) /\ handler[c].succ > handler[c].at

(* The invariant; ListEnds needs all of it. *)
Shape   == Ordered /\ OneByOne /\ LinksThreaded
ListInv == MessageTypeOK /\ Shape

(* Queues of commands. *)
LEMMA AppendType ==
  ASSUME NEW S, NEW s \in Seq(S), NEW x \in S
  PROVE  Append(s, x) \in Seq(S)
  OBVIOUS

LEMMA HeadTail ==
  ASSUME NEW S, NEW s \in Seq(S), s # <<>>
  PROVE  /\ Head(s) = s[1] /\ Head(s) \in S /\ Tail(s) \in Seq(S)
         /\ Len(s) = 1 => Tail(s) = <<>>
<1>1. Head(s) = s[1] /\ Head(s) \in S /\ Tail(s) \in Seq(S) /\ Len(Tail(s)) = Len(s) - 1
  BY HeadTailProperties
<1>2. Tail(s) # <<>> => Len(Tail(s)) # 0
  BY <1>1, EmptySeq
<1>3. QED BY <1>1, <1>2

(* A queue of one. *)
LEMMA Single ==
  ASSUME NEW x
  PROVE  Append(<<>>, x) = <<x>> /\ <<x>> # <<>> /\ Len(<<x>>) = 1 /\ <<x>>[1] = x
  OBVIOUS

USE DEF Channels, Nodes, None, Waiting

(* The initial state. *)
LEMMA InitInv == Init => ListInv
<1> USE MessageChannelsAssumption DEF MessageChannelsAssumption
<1> SUFFICES ASSUME Init PROVE ListInv
  OBVIOUS
<1>1. MessageTypeOK
  <2>1. handler \in [Channels -> [pc : {"wait", "deactivate", "reset", "clear", "find", "unlink",
                                       "free", "gone"},
                                 at : Nodes, succ : Channels \cup {None}]]
    BY DEF Init
  <2>2. chan \in [Channels -> [impulse : BOOLEAN, signal : BOOLEAN,
                              installed : BOOLEAN, freed : BOOLEAN]]
    BY DEF Init
  <2>3. commands \in Seq(Channels)
    BY DEF Init
  <2> QED BY <2>1, <2>2, <2>3 DEF Init, MessageTypeOK
<1>2. Ordered
  BY DEF Init, Ordered
<1>3. OneByOne
  BY DEF Init, OneByOne
<1>4. LinksThreaded
  BY DEF Init, LinksThreaded, Threaded
<1> QED BY <1>1, <1>2, <1>3, <1>4 DEF ListInv, Shape

(* Lisp's steps. *)
LEMMA StartInv ==
  ASSUME ListInv, NEW c \in Channels, Start(c)
  PROVE  Shape'
<1> USE MessageChannelsAssumption DEF MessageChannelsAssumption
<1>1. /\ guest[c] = "none" /\ guest' = [guest EXCEPT ![c] = "asked"]
      /\ commands' = Append(commands, c)
      /\ UNCHANGED <<next, active, chan, handler, starter, poller, died>>
  BY DEF Start
<1>2. \A d \in Channels : d < c => guest[d] = "closing"
  <2>1. SUFFICES ASSUME NEW d \in Channels, d < c PROVE guest[d] = "closing"
    OBVIOUS
  <2>2. c > 1 /\ c - 1 \in Channels /\ guest[c - 1] = "closing"
    BY <2>1 DEF Start
  <2>3. QED BY <2>1, <2>2 DEF ListInv, Shape, OneByOne
<1>3. \A d \in Channels : d > c => guest[d] = "none"
  BY <1>1 DEF ListInv, Shape, OneByOne
<1>4. \A d \in Channels : guest[d] # "asked"
  BY <1>1, <1>2, <1>3
<1>5. commands = <<>> /\ starter.pc = "wait"
  <2>1. commands = <<>>
    <3>1. SUFFICES ASSUME commands # <<>> PROVE FALSE
      OBVIOUS
    <3>2. commands \in Seq(Channels) /\ Len(commands) = 1 /\ guest[commands[1]] = "asked"
      BY <3>1 DEF ListInv, Shape, MessageTypeOK, OneByOne
    <3>3. commands[1] \in Channels
      BY <3>2
    <3> QED BY <3>2, <3>3, <1>4
  <2>2. starter.pc = "wait"
    BY <1>4 DEF ListInv, Shape, MessageTypeOK, OneByOne
  <2> QED BY <2>1, <2>2
<1>7. Ordered'
  BY <1>1 DEF ListInv, Shape, Ordered
<1>8. OneByOne'
  <2>1. commands' # <<>> /\ Len(commands') = 1 /\ commands'[1] = c
    BY <1>1, <1>5, Single, Zenon
  <2>2. \A b, d \in Channels : d < b /\ guest'[b] # "none" => guest'[d] = "closing"
    <3>1. SUFFICES ASSUME NEW b \in Channels, NEW d \in Channels, d < b, guest'[b] # "none"
                   PROVE  guest'[d] = "closing"
      OBVIOUS
    <3>2. guest \in [Channels -> {"none", "asked", "started", "closing"}]
      BY DEF ListInv, MessageTypeOK
    <3>3. CASE b = c
      BY <1>1, <1>2, <3>1, <3>2, <3>3
    <3>4. CASE b # c
      <4>1. guest[b] # "none" /\ b < c
        BY <1>1, <1>3, <3>1, <3>2, <3>4
      <4>2. guest[d] = "closing" /\ d # c
        BY <1>2, <3>1, <4>1
      <4>3. QED BY <1>1, <3>2, <4>2
    <3> QED BY <3>3, <3>4
  <2>3. guest'[c] = "asked" /\ starter'.pc = "wait"
    BY <1>1, <1>5 DEF ListInv, Shape, MessageTypeOK
  <2> QED BY <2>1, <2>2, <2>3 DEF OneByOne
<1>9. LinksThreaded'
  BY <1>1, <1>5 DEF ListInv, Shape, LinksThreaded, Threaded, MessageTypeOK
<1> QED BY <1>7, <1>8, <1>9 DEF Shape

(* What becomes of one channel's data or of one handler. *)
ChannelStates == [impulse : BOOLEAN, signal : BOOLEAN, installed : BOOLEAN, freed : BOOLEAN]
HandlerStates == [pc : {"wait", "deactivate", "reset", "clear", "find", "unlink", "free", "gone"},
                  at : Nodes, succ : Channels \cup {None}]

LEMMA ChannelTypes ==
  ASSUME MessageTypeOK, NEW c \in Channels, NEW b \in BOOLEAN
  PROVE  /\ [chan EXCEPT ![c].impulse = b] \in [Channels -> ChannelStates]
         /\ [chan EXCEPT ![c].signal = b] \in [Channels -> ChannelStates]
         /\ [chan EXCEPT ![c].installed = b] \in [Channels -> ChannelStates]
         /\ [chan EXCEPT ![c].freed = b] \in [Channels -> ChannelStates]
<1>1. chan \in [Channels -> ChannelStates]
  BY DEF MessageTypeOK, ChannelStates
<1>2. /\ [chan[c] EXCEPT !.impulse = b] \in ChannelStates
      /\ [chan[c] EXCEPT !.signal = b] \in ChannelStates
      /\ [chan[c] EXCEPT !.installed = b] \in ChannelStates
      /\ [chan[c] EXCEPT !.freed = b] \in ChannelStates
  BY <1>1 DEF ChannelStates
<1>3. QED BY <1>1, <1>2

(* The same of a handler that goes on. *)
LEMMA HandlerTypes ==
  ASSUME MessageTypeOK, NEW c \in Channels,
         NEW pc \in {"wait", "deactivate", "reset", "clear", "find", "unlink", "free", "gone"}
  PROVE  [handler EXCEPT ![c] = [handler[c] EXCEPT !.pc = pc]] \in [Channels -> HandlerStates]
<1>1. handler \in [Channels -> HandlerStates]
  BY DEF MessageTypeOK, HandlerStates
<1>2. [handler[c] EXCEPT !.pc = pc] \in HandlerStates
  BY <1>1 DEF HandlerStates
<1>3. QED BY <1>1, <1>2

(* Type correctness: one step for each action. *)
LEMMA TypeStep ==
  ASSUME MessageTypeOK, Step, UNCHANGED asleep, raced' \in BOOLEAN
  PROVE  MessageTypeOK'
<1> USE MessageChannelsAssumption DEF MessageChannelsAssumption
<1>1. ASSUME NEW n, Die(n) PROVE MessageTypeOK'
  BY <1>1 DEF MessageTypeOK, Die
<1>2. ASSUME NEW c \in Channels, Start(c) PROVE MessageTypeOK'
  <2>1. guest' \in [Channels -> {"none", "asked", "started", "closing"}]
    BY <1>2 DEF MessageTypeOK, Start
  <2>2. commands' \in Seq(Channels)
    BY <1>2, AppendType, Zenon DEF MessageTypeOK, Start
  <2>3. QED
    BY <1>2, <2>1, <2>2 DEF MessageTypeOK, Start
<1>3. ASSUME NEW c \in Channels, ShutDown(c) PROVE MessageTypeOK'
  <2>1. guest' \in [Channels -> {"none", "asked", "started", "closing"}]
    BY <1>3 DEF MessageTypeOK, ShutDown
  <2>2. chan' \in [Channels -> ChannelStates]
    BY <1>3, ChannelTypes DEF ShutDown
  <2>3. QED
    BY <1>3, <2>1, <2>2 DEF MessageTypeOK, ShutDown, ChannelStates
<1>4. ASSUME NEW c \in Channels, SendSignal(c) PROVE MessageTypeOK'
  BY <1>4, ZenonT(30) DEF MessageTypeOK, SendSignal
<1>5. CASE TakeCommand
  <2>1. Head(commands) \in Channels /\ commands' \in Seq(Channels)
    BY <1>5, HeadTail, Zenon DEF MessageTypeOK, TakeCommand
  <2>2. next' \in [Nodes -> Channels \cup {None}]
    BY <1>5, <2>1 DEF MessageTypeOK, TakeCommand
  <2>3. starter' = [pc |-> "find end", for |-> Head(commands), at |-> 0]
    BY <1>5 DEF TakeCommand, StarterIs
  <2>4. starter' \in [pc : {"wait", "find end", "link", "activate", "install", "answer"},
                      for : Nodes, at : Nodes]
        /\ starter'.for \in Channels
    BY <2>1, <2>3
  <2>5. UNCHANGED <<active, chan, guest, handler, poller, died>>
    BY <1>5 DEF TakeCommand, StarterIs
  <2>6. QED
    BY <2>1, <2>2, <2>4, <2>5 DEF MessageTypeOK
<1>6. CASE FindEnd
  <2>1. CASE Die(starter.at)
    BY <1>1, <2>1
  <2>2. CASE ~Die(starter.at)
    <3>1. UNCHANGED <<next, active, chan, guest, handler, commands, poller, died>>
      BY <1>6, <2>2 DEF FindEnd, StarterIs
    <3>2. /\ starter' \in [pc : {"wait", "find end", "link", "activate", "install", "answer"},
                            for : Nodes, at : Nodes]
          /\ starter'.for \in Channels
      <4>1. starter \in [pc : {"wait", "find end", "link", "activate", "install", "answer"},
                         for : Nodes, at : Nodes]
            /\ starter.for \in Channels /\ starter.at \in Nodes
            /\ next[starter.at] \in Channels \cup {None}
        BY <1>6, <2>2 DEF FindEnd, Die, Starter, MessageTypeOK
      <4>2. starter' = IF next[starter.at] = None THEN [starter EXCEPT !.pc = "link"]
                                                   ELSE [starter EXCEPT !.at = next[starter.at]]
        BY <1>6, <2>2 DEF FindEnd, StarterIs
      <4>3. CASE next[starter.at] = None
        BY <4>1, <4>2, <4>3
      <4>4. CASE next[starter.at] # None
        BY <4>1, <4>2, <4>4
      <4>5. QED BY <4>3, <4>4
    <3>3. QED
      BY <3>1, <3>2 DEF MessageTypeOK
  <2>3. QED BY <2>1, <2>2
<1>7. CASE Link
  <2>1. CASE Die(starter.at)
    BY <1>1, <2>1
  <2>2. CASE ~Die(starter.at)
    <3>1. UNCHANGED <<active, chan, guest, handler, commands, poller, died>>
      BY <1>7, <2>2 DEF Link, StarterIs
    <3>2. /\ starter' \in [pc : {"wait", "find end", "link", "activate", "install", "answer"},
                            for : Nodes, at : Nodes]
          /\ starter'.for \in Channels
      BY <1>7, <2>2 DEF Link, StarterIs, Starter, MessageTypeOK
    <3>3. next' \in [Nodes -> Channels \cup {None}]
      BY <1>7, <2>2 DEF Link, Starter, MessageTypeOK
    <3>4. QED
      BY <3>1, <3>2, <3>3 DEF MessageTypeOK
  <2>3. QED BY <2>1, <2>2
<1>8. CASE Activate
  BY <1>8 DEF MessageTypeOK, Activate, StarterIs, Starter
<1>9. CASE Install
  BY <1>9, ZenonT(30) DEF MessageTypeOK, Install, StarterIs, Starter
<1>10. CASE Answer
  BY <1>10 DEF MessageTypeOK, Answer, StarterIs, Starter
<1>11. CASE Poll
  BY <1>11 DEF MessageTypeOK, Poll, PollerGoes
<1>12. CASE PollChannel
  <2>1. CASE Die(poller)
    BY <1>1, <2>1
  <2>2. CASE ~Die(poller)
    <3>1. poller \in Nodes /\ poller' = next[poller]
          /\ UNCHANGED <<next, active, guest, handler, commands, starter, died>>
      BY <1>12, <2>2 DEF MessageTypeOK, PollChannel, PollerGoes
    <3>2. \/ chan' = chan
          \/ poller \in Channels /\ chan' = [chan EXCEPT ![poller].signal = TRUE]
      BY <1>12, <2>2 DEF PollChannel
    <3>3. chan' \in [Channels -> ChannelStates]
      <4>1. CASE chan' = chan
        BY <4>1 DEF MessageTypeOK, ChannelStates
      <4>2. CASE chan' # chan
        BY <3>2, <4>2, ChannelTypes
      <4>3. QED BY <4>1, <4>2
    <3>4. poller' \in Nodes \cup {None}
      BY <3>1 DEF MessageTypeOK
    <3>5. QED
      BY <3>1, <3>3, <3>4 DEF MessageTypeOK, ChannelStates
  <2>3. QED BY <2>1, <2>2
<1>13. ASSUME NEW c \in Channels, HandlerStep(c) PROVE MessageTypeOK'
  <2>1. CASE Signalled(c)
    <3>1. PICK pc \in {"deactivate", "wait"} : handler' = [handler EXCEPT ![c] = [handler[c] EXCEPT !.pc = pc]]
      BY <2>1 DEF Signalled, HandlerGoes, HandlerIs
    <3>2. UNCHANGED <<next, guest, commands, starter, poller, died>>
      BY <2>1 DEF Signalled, HandlerGoes, HandlerIs
    <3>3. chan' \in [Channels -> ChannelStates] /\ active' \in Channels \cup {None}
      BY <2>1, ChannelTypes DEF Signalled, MessageTypeOK, ChannelStates
    <3>4. handler' \in [Channels -> HandlerStates]
      BY <3>1, HandlerTypes
    <3>5. QED
      BY <3>2, <3>3, <3>4 DEF MessageTypeOK, ChannelStates, HandlerStates
  <2>2. CASE Deactivate(c)
    <3>1. PICK pc \in {"reset"} : handler' = [handler EXCEPT ![c] = [handler[c] EXCEPT !.pc = pc]]
      BY <2>2 DEF Deactivate, HandlerGoes, HandlerIs
    <3>2. UNCHANGED <<next, guest, commands, starter, poller, died>>
      BY <2>2 DEF Deactivate, HandlerGoes, HandlerIs
    <3>3. chan' \in [Channels -> ChannelStates] /\ active' \in Channels \cup {None}
      BY <2>2, ChannelTypes DEF Deactivate, MessageTypeOK, ChannelStates
    <3>4. handler' \in [Channels -> HandlerStates]
      BY <3>1, HandlerTypes
    <3>5. QED
      BY <3>2, <3>3, <3>4 DEF MessageTypeOK, ChannelStates, HandlerStates
  <2>3. CASE ResetQueues(c)
    <3>1. PICK pc \in {"clear"} : handler' = [handler EXCEPT ![c] = [handler[c] EXCEPT !.pc = pc]]
      BY <2>3 DEF ResetQueues, HandlerGoes, HandlerIs
    <3>2. UNCHANGED <<next, guest, commands, starter, poller, died>>
      BY <2>3 DEF ResetQueues, HandlerGoes, HandlerIs
    <3>3. chan' \in [Channels -> ChannelStates] /\ active' \in Channels \cup {None}
      BY <2>3, ChannelTypes DEF ResetQueues, MessageTypeOK, ChannelStates
    <3>4. handler' \in [Channels -> HandlerStates]
      BY <3>1, HandlerTypes
    <3>5. QED
      BY <3>2, <3>3, <3>4 DEF MessageTypeOK, ChannelStates, HandlerStates
  <2>4. CASE ClearImpulse(c)
    <3>1. PICK pc \in {"find"} : handler' = [handler EXCEPT ![c] = [handler[c] EXCEPT !.pc = pc]]
      BY <2>4 DEF ClearImpulse, HandlerGoes, HandlerIs
    <3>2. UNCHANGED <<next, guest, commands, starter, poller, died>>
      BY <2>4 DEF ClearImpulse, HandlerGoes, HandlerIs
    <3>3. chan' \in [Channels -> ChannelStates] /\ active' \in Channels \cup {None}
      BY <2>4, ChannelTypes DEF ClearImpulse, MessageTypeOK, ChannelStates
    <3>4. handler' \in [Channels -> HandlerStates]
      BY <3>1, HandlerTypes
    <3>5. QED
      BY <3>2, <3>3, <3>4 DEF MessageTypeOK, ChannelStates, HandlerStates
  <2>5. CASE Find(c)
    <3>1. CASE Die(handler[c].at)
      BY <1>1, <3>1
    <3>2. CASE ~Die(handler[c].at)
      <4>1. UNCHANGED <<next, active, chan, guest, commands, starter, poller, died>>
        BY <2>5, <3>2 DEF Find, HandlerIs
      <4>2. handler[c] \in HandlerStates /\ next[handler[c].at] \in Channels \cup {None}
            /\ next[c] \in Channels \cup {None}
        BY DEF MessageTypeOK, HandlerStates
      <4>3. PICK h \in HandlerStates : handler' = [handler EXCEPT ![c] = h]
        BY <2>5, <3>2, <4>2 DEF Find, HandlerIs, HandlerStates
      <4>4. handler' \in [Channels -> HandlerStates]
        BY <4>3 DEF MessageTypeOK, HandlerStates
      <4>5. QED BY <4>1, <4>4 DEF MessageTypeOK, HandlerStates
    <3>3. QED BY <3>1, <3>2
  <2>6. CASE Unlink(c)
    <3>1. CASE Die(handler[c].at)
      BY <1>1, <3>1
    <3>2. CASE ~Die(handler[c].at)
      <4>1. handler' = [handler EXCEPT ![c] = [handler[c] EXCEPT !.pc = "free"]]
            /\ next' = [next EXCEPT ![handler[c].at] = handler[c].succ, ![c] = None]
            /\ UNCHANGED <<active, chan, guest, commands, starter, poller, died>>
        BY <2>6, <3>2 DEF Unlink, HandlerGoes, HandlerIs
      <4>2. handler[c].succ \in Channels \cup {None}
        BY DEF MessageTypeOK
      <4>3. next' \in [Nodes -> Channels \cup {None}]
        BY <4>1, <4>2 DEF MessageTypeOK
      <4>4. handler' \in [Channels -> HandlerStates]
        BY <4>1, HandlerTypes
      <4>5. QED
        BY <4>1, <4>3, <4>4 DEF MessageTypeOK, HandlerStates
    <3>3. QED BY <3>1, <3>2
  <2>7. CASE Free(c)
    BY <2>7, ZenonT(30) DEF MessageTypeOK, Free, HandlerIs
  <2>8. QED
    BY <1>13, <2>1, <2>2, <2>3, <2>4, <2>5, <2>6, <2>7 DEF HandlerStep
<1>14. QED
  BY <1>2, <1>3, <1>4, <1>5, <1>6, <1>7, <1>8, <1>9, <1>10, <1>11, <1>12, <1>13
     DEF Step, StarterStep

(* A step that touches neither the links nor what Lisp and the starter do. *)
LEMMA QuietInv ==
  ASSUME ListInv, UNCHANGED <<next, guest, commands, starter>>,
         \A c \in Channels : handler'[c].pc = "unlink" => handler'[c] = handler[c]
  PROVE  Shape'
<1>1. Ordered' /\ OneByOne'
  BY DEF ListInv, Shape, Ordered, OneByOne
<1>2. LinksThreaded'
  BY DEF ListInv, Shape, LinksThreaded, Threaded
<1>3. QED BY <1>1, <1>2 DEF Shape

(* Nothing goes on after freed data was used. *)
LEMMA DieInv ==
  ASSUME ListInv, NEW n, Die(n)
  PROVE  Shape'
  BY QuietInv DEF Die

(* Lisp asks a channel to shut down. *)
LEMMA ShutDownInv ==
  ASSUME ListInv, NEW c \in Channels, ShutDown(c)
  PROVE  Shape'
<1>1. /\ guest[c] = "started" /\ guest' = [guest EXCEPT ![c] = "closing"]
      /\ UNCHANGED <<next, handler, commands, starter>>
  BY DEF ShutDown
<1>2. guest \in [Channels -> {"none", "asked", "started", "closing"}]
  BY DEF ListInv, MessageTypeOK
<1>3. \A d \in Channels : guest'[d] = IF d = c THEN "closing" ELSE guest[d]
  BY <1>1, <1>2
<1>4. Ordered'
  BY <1>1 DEF ListInv, Shape, Ordered
<1>5. OneByOne'
  <2>1. \A b, d \in Channels : d < b /\ guest'[b] # "none" => guest'[d] = "closing"
    BY <1>1, <1>3 DEF ListInv, Shape, OneByOne
  <2>2. commands' # <<>> => Len(commands') = 1 /\ guest'[commands'[1]] = "asked"
                           /\ starter'.pc = "wait"
    <3>1. SUFFICES ASSUME commands # <<>>
                   PROVE  Len(commands) = 1 /\ guest'[commands[1]] = "asked" /\ starter.pc = "wait"
      BY <1>1
    <3>2. commands[1] \in Channels
      <4>1. Head(commands) = commands[1] /\ Head(commands) \in Channels
        BY <3>1, HeadTail, Zenon DEF ListInv, MessageTypeOK
      <4>2. QED BY <4>1
    <3>3. Len(commands) = 1 /\ guest[commands[1]] = "asked" /\ starter.pc = "wait"
      BY <3>1 DEF ListInv, Shape, OneByOne
    <3>4. QED BY <1>1, <1>3, <3>2, <3>3
  <2>3. starter'.pc # "wait" => commands' = <<>> /\ guest'[starter'.for] = "asked"
    BY <1>1, <1>3 DEF ListInv, Shape, OneByOne, MessageTypeOK
  <2>4. QED BY <2>1, <2>2, <2>3 DEF OneByOne
<1>6. LinksThreaded'
  <2>1. \A n \in Channels \cup {None} : Threaded(n) => Threaded(n)'
    BY <1>1, <1>3 DEF Threaded
  <2>2. \A n \in Nodes : next[n] \in Channels \cup {None}
    BY DEF ListInv, MessageTypeOK
  <2>3. \A d \in Channels : handler[d].succ \in Channels \cup {None}
    BY DEF ListInv, MessageTypeOK
  <2>4. starter.at \in Nodes
    BY DEF ListInv, MessageTypeOK
  <2>5. QED BY <1>1, <2>1, <2>2, <2>3, <2>4 DEF ListInv, Shape, LinksThreaded
<1>7. QED BY <1>4, <1>5, <1>6 DEF Shape

(* The starter takes a command, looks for the end of the list, links the
   channel there, and makes it the active one. *)
LEMMA TakeCommandInv ==
  ASSUME ListInv, TakeCommand
  PROVE  Shape'
<1> USE MessageChannelsAssumption DEF MessageChannelsAssumption
<1> DEFINE c == Head(commands)
<1>1. /\ commands # <<>> /\ commands' = Tail(commands)
      /\ next' = [next EXCEPT ![c] = None]
      /\ starter' = [pc |-> "find end", for |-> c, at |-> 0]
      /\ UNCHANGED <<guest, handler>>
  BY DEF TakeCommand, StarterIs
<1>2. Len(commands) = 1 /\ guest[commands[1]] = "asked"
  BY <1>1 DEF ListInv, Shape, OneByOne
<1>3. c \in Channels /\ guest[c] = "asked" /\ commands' = <<>>
  <2>1. c = commands[1] /\ c \in Channels /\ Tail(commands) = <<>>
    BY <1>1, <1>2, HeadTail, Zenon DEF ListInv, MessageTypeOK
  <2>2. QED BY <1>1, <1>2, <2>1
<1> HIDE DEF c
<1>4. next \in [Nodes -> Channels \cup {None}]
  BY DEF ListInv, MessageTypeOK
<1>5. Ordered'
  <2>1. SUFFICES ASSUME NEW n \in Nodes PROVE next'[n] > n
    BY DEF Ordered
  <2>2. CASE n = c
    <3>1. next'[n] = None
      BY <1>1, <1>3, <1>4, <2>2
    <3>2. QED BY <1>3, <2>2, <3>1
  <2>3. CASE n # c
    BY <1>1, <1>4, <2>3 DEF ListInv, Shape, Ordered
  <2>4. QED BY <2>2, <2>3
<1>6. OneByOne'
  BY <1>1, <1>3 DEF ListInv, Shape, OneByOne
<1>7. LinksThreaded'
  <2>1. starter.pc = "wait"
    BY <1>1 DEF ListInv, Shape, OneByOne
  <2>2. \A n : Threaded(n) => Threaded(n)'
    BY <1>1, <2>1 DEF Threaded
  <2>3. \A n \in Nodes : Threaded(next'[n])
    BY <1>1, <1>3, <1>4 DEF ListInv, Shape, LinksThreaded, Threaded
  <2>4. QED BY <1>1, <2>2, <2>3 DEF ListInv, Shape, LinksThreaded
<1>8. QED BY <1>5, <1>6, <1>7 DEF Shape

LEMMA FindEndInv ==
  ASSUME ListInv, FindEnd
  PROVE  Shape'
<1>1. CASE Die(starter.at)
  BY <1>1, DieInv
<1>2. CASE ~Die(starter.at)
  <2>1. /\ starter.pc = "find end" /\ starter.at \in Nodes
        /\ next[starter.at] \in Channels \cup {None}
    BY <1>2 DEF FindEnd, Starter, ListInv, MessageTypeOK
  <2>2. /\ starter' = IF next[starter.at] = None THEN [starter EXCEPT !.pc = "link"]
                                                 ELSE [starter EXCEPT !.at = next[starter.at]]
        /\ UNCHANGED <<next, guest, commands, handler>>
    BY <1>2 DEF FindEnd, StarterIs
  <2>3. /\ starter'.pc \in {"find end", "link"} /\ starter'.for = starter.for
        /\ starter'.at = starter.at \/ Threaded(starter'.at)
    <3>1. starter \in [pc : {"wait", "find end", "link", "activate", "install", "answer"},
                       for : Nodes, at : Nodes]
      BY DEF ListInv, MessageTypeOK
    <3>2. Threaded(next[starter.at])
      BY <2>1 DEF ListInv, Shape, LinksThreaded
    <3>3. CASE next[starter.at] = None
      BY <2>1, <2>2, <3>1, <3>3
    <3>4. CASE next[starter.at] # None
      <4>1. starter' = [starter EXCEPT !.at = next[starter.at]]
        BY <2>2, <3>4
      <4>2. starter'.at = next[starter.at] /\ starter'.pc = starter.pc
            /\ starter'.for = starter.for
        BY <3>1, <4>1
      <4>3. QED BY <2>1, <3>2, <4>2, Zenon
    <3>5. QED BY <3>3, <3>4
  <2>4. \A n : Threaded(n) => Threaded(n)'
    BY <2>1, <2>2 DEF Threaded
  <2>5. Ordered' /\ OneByOne'
    BY <2>1, <2>2, <2>3 DEF ListInv, Shape, Ordered, OneByOne
  <2>6. LinksThreaded'
    BY <2>1, <2>2, <2>3, <2>4 DEF ListInv, Shape, LinksThreaded
  <2>7. QED BY <2>5, <2>6 DEF Shape
<1>3. QED BY <1>1, <1>2

LEMMA LinkInv ==
  ASSUME ListInv, Link
  PROVE  Shape'
<1> USE MessageChannelsAssumption DEF MessageChannelsAssumption
<1>1. CASE Die(starter.at)
  BY <1>1, DieInv
<1>2. CASE ~Die(starter.at)
  <2>1. /\ starter.pc = "link" /\ starter.at \in Nodes /\ starter.for \in Channels
        /\ next \in [Nodes -> Channels \cup {None}]
    BY <1>2 DEF Link, Starter, ListInv, MessageTypeOK
  <2>2. /\ next' = [next EXCEPT ![starter.at] = starter.for]
        /\ starter' = [starter EXCEPT !.pc = "activate"]
        /\ UNCHANGED <<guest, commands, handler>>
    BY <1>2 DEF Link, StarterIs
  <2>3. starter'.pc = "activate" /\ starter'.for = starter.for /\ starter'.at = starter.at
    BY <2>2 DEF ListInv, MessageTypeOK
  <2>4. starter.at < starter.for
    <3>1. CASE starter.at = 0
      BY <2>1, <3>1
    <3>2. CASE starter.at # 0
      <4>1. starter.at \in Channels /\ guest[starter.at] \in {"started", "closing"}
        BY <2>1, <3>2 DEF ListInv, Shape, LinksThreaded, Threaded
      <4>2. guest[starter.for] = "asked"
        BY <2>1 DEF ListInv, Shape, OneByOne
      <4>3. QED BY <2>1, <4>1, <4>2 DEF ListInv, Shape, OneByOne
    <3>3. QED BY <3>1, <3>2
  <2>5. Ordered'
    <3>1. SUFFICES ASSUME NEW n \in Nodes PROVE next'[n] > n
      BY DEF Ordered
    <3>2. CASE n = starter.at
      <4>1. next'[n] = starter.for
        BY <2>1, <2>2, <3>2
      <4>2. QED BY <2>1, <2>4, <3>2, <4>1
    <3>3. CASE n # starter.at
      BY <2>1, <2>2, <3>3 DEF ListInv, Shape, Ordered
    <3>4. QED BY <3>2, <3>3
  <2>6. OneByOne'
    BY <2>1, <2>2, <2>3 DEF ListInv, Shape, OneByOne
  <2>7. LinksThreaded'
    <3>1. \A n : Threaded(n) => Threaded(n)'
      BY <2>1, <2>2, <2>3 DEF Threaded
    <3>2. Threaded(starter.for)'
      BY <2>3 DEF Threaded
    <3>3. \A n \in Nodes : Threaded(next[n])'
      <4>1. SUFFICES ASSUME NEW n \in Nodes PROVE Threaded(next[n])'
        OBVIOUS
      <4>2. CASE n = starter.at
        BY <2>1, <2>2, <3>2, <4>2
      <4>3. CASE n # starter.at
        <5>1. next'[n] = next[n]
          BY <2>1, <2>2, <4>3
        <5>2. Threaded(next[n])
          BY DEF ListInv, Shape, LinksThreaded
        <5>3. QED BY <3>1, <5>1, <5>2
      <4>4. QED BY <4>2, <4>3
    <3>4. QED BY <2>2, <2>3, <3>1, <3>3 DEF ListInv, Shape, LinksThreaded
  <2>8. QED BY <2>5, <2>6, <2>7 DEF Shape
<1>3. QED BY <1>1, <1>2

LEMMA StarterGoesInv ==
  ASSUME ListInv, Activate \/ Install
  PROVE  Shape'
<1>1. /\ starter.pc \in {"activate", "install"} /\ starter'.pc \in {"install", "answer"}
      /\ starter'.for = starter.for
      /\ UNCHANGED <<next, guest, commands, handler>>
  BY DEF Activate, Install, Starter, StarterIs, ListInv, MessageTypeOK
<1>2. \A n : Threaded(n) => Threaded(n)'
  BY <1>1 DEF Threaded
<1>3. Ordered' /\ OneByOne'
  BY <1>1 DEF ListInv, Shape, Ordered, OneByOne
<1>4. LinksThreaded'
  BY <1>1, <1>2 DEF ListInv, Shape, LinksThreaded
<1>5. QED BY <1>3, <1>4 DEF Shape

LEMMA AnswerInv ==
  ASSUME ListInv, Answer
  PROVE  Shape'
<1>1. /\ starter.pc = "answer" /\ starter.for \in Channels
      /\ guest \in [Channels -> {"none", "asked", "started", "closing"}]
  BY DEF Answer, Starter, ListInv, MessageTypeOK
<1>2. /\ guest' = [guest EXCEPT ![starter.for] = "started"]
      /\ starter'.pc = "wait"
      /\ UNCHANGED <<next, commands, handler>>
  BY DEF Answer, StarterIs
<1>3. commands = <<>> /\ guest[starter.for] = "asked"
  BY <1>1 DEF ListInv, Shape, OneByOne
<1>4. \A d \in Channels : guest'[d] = IF d = starter.for THEN "started" ELSE guest[d]
  BY <1>1, <1>2
<1>5. Ordered'
  BY <1>2 DEF ListInv, Shape, Ordered
<1>6. OneByOne'
  <2>1. SUFFICES ASSUME NEW b \in Channels, NEW d \in Channels, d < b, guest'[b] # "none"
                 PROVE  guest'[d] = "closing"
    BY <1>2, <1>3 DEF OneByOne
  <2>2. guest[b] # "none"
    BY <1>3, <1>4, <2>1
  <2>3. guest[d] = "closing"
    BY <2>1, <2>2 DEF ListInv, Shape, OneByOne
  <2>4. QED BY <1>3, <1>4, <2>3
<1>7. LinksThreaded'
  <2>1. \A n \in Channels \cup {None} : Threaded(n) => Threaded(n)'
    BY <1>1, <1>2, <1>4 DEF Threaded
  <2>2. \A n \in Nodes : next[n] \in Channels \cup {None}
    BY DEF ListInv, MessageTypeOK
  <2>3. \A d \in Channels : handler[d].succ \in Channels \cup {None}
    BY DEF ListInv, MessageTypeOK
  <2>4. QED BY <1>2, <2>1, <2>2, <2>3 DEF ListInv, Shape, LinksThreaded
<1>8. QED BY <1>5, <1>6, <1>7 DEF Shape

(* The handler of a channel looks for it in the list, and takes it out. *)
LEMMA FindInv ==
  ASSUME ListInv, NEW c \in Channels, Find(c)
  PROVE  Shape'
<1> USE MessageChannelsAssumption DEF MessageChannelsAssumption
<1> DEFINE at == handler[c].at
<1>1. CASE Die(at)
  BY <1>1, DieInv
<1>2. CASE ~Die(at)
  <2>1. /\ handler \in [Channels -> HandlerStates] /\ at \in Nodes
        /\ next \in [Nodes -> Channels \cup {None}]
        /\ handler[c].pc = "find"
    BY DEF ListInv, MessageTypeOK, HandlerStates, Find, Handler
  <2>2. /\ handler' = [handler EXCEPT ![c] =
                         CASE next[at] = c    -> [handler[c] EXCEPT !.pc = "unlink", !.succ = next[c]]
                           [] next[at] = None -> [handler[c] EXCEPT !.pc = "free"]
                           [] OTHER           -> [handler[c] EXCEPT !.at = next[at]]]
        /\ UNCHANGED <<next, guest, commands, starter>>
    BY <1>2 DEF Find, HandlerIs
  <2>3. CASE next[at] = c
    <3>1. at < c /\ next[c] > c /\ Threaded(next[c])
      BY <2>1, <2>3 DEF ListInv, Shape, Ordered, LinksThreaded
    <3>2. handler' = [handler EXCEPT ![c] = [handler[c] EXCEPT !.pc = "unlink", !.succ = next[c]]]
      <4>1. next[at] # None
        BY <2>3
      <4>2. QED BY <2>2, <2>3, <4>1, Zenon
    <3>3. /\ handler'[c].at = at /\ handler'[c].succ = next[c]
          /\ \A d \in Channels : d # c => handler'[d] = handler[d]
      BY <2>1, <3>2 DEF HandlerStates
    <3>4. handler'[c].succ > handler'[c].at
      BY <2>1, <3>1, <3>3
    <3>5. Ordered' /\ OneByOne'
      BY <2>2 DEF ListInv, Shape, Ordered, OneByOne
    <3>6. \A n : Threaded(n) => Threaded(n)'
      BY <2>2 DEF Threaded
    <3>7. LinksThreaded'
      BY <2>2, <3>1, <3>3, <3>4, <3>6 DEF ListInv, Shape, LinksThreaded
    <3>8. QED BY <3>5, <3>7 DEF Shape
  <2>4. CASE next[at] # c
    <3>1. handler'[c].pc \in {"free", "find"} /\ \A d \in Channels : d # c => handler'[d] = handler[d]
      <4>1. CASE next[at] = None
        BY <2>1, <2>2, <2>4, <4>1 DEF HandlerStates
      <4>2. CASE next[at] # None
        BY <2>1, <2>2, <2>4, <4>2 DEF HandlerStates
      <4>3. QED BY <4>1, <4>2
    <3>2. \A d \in Channels : handler'[d].pc = "unlink" => handler'[d] = handler[d]
      BY <3>1
    <3>3. QED BY <2>2, <3>2, QuietInv
  <2>5. QED BY <2>3, <2>4
<1>3. QED BY <1>1, <1>2

LEMMA UnlinkInv ==
  ASSUME ListInv, NEW c \in Channels, Unlink(c)
  PROVE  Shape'
<1> USE MessageChannelsAssumption DEF MessageChannelsAssumption
<1> DEFINE at == handler[c].at
           succ == handler[c].succ
<1>1. CASE Die(at)
  BY <1>1, DieInv
<1>2. CASE ~Die(at)
  <2>1. /\ handler \in [Channels -> HandlerStates] /\ at \in Nodes
        /\ succ \in Channels \cup {None}
        /\ next \in [Nodes -> Channels \cup {None}]
        /\ handler[c].pc = "unlink"
    BY DEF ListInv, MessageTypeOK, HandlerStates, Unlink, Handler
  <2>2. /\ handler' = [handler EXCEPT ![c] = [handler[c] EXCEPT !.pc = "free"]]
        /\ next' = [next EXCEPT ![at] = succ, ![c] = None]
        /\ UNCHANGED <<guest, commands, starter>>
    BY <1>2 DEF Unlink, HandlerGoes, HandlerIs
  <2>3. /\ handler'[c].pc = "free"
        /\ \A d \in Channels : d # c => handler'[d] = handler[d]
    BY <2>1, <2>2 DEF HandlerStates
  <2>4. succ > at /\ Threaded(succ)
    BY <2>1 DEF ListInv, Shape, LinksThreaded
  <2>5. \A n \in Nodes : \/ n = c /\ next'[n] = None
                         \/ n # c /\ n = at /\ next'[n] = succ
                         \/ n # c /\ n # at /\ next'[n] = next[n]
    <3>1. TAKE n \in Nodes
    <3>2. next'[n] = IF n = c THEN None ELSE IF n = at THEN succ ELSE next[n]
      BY <2>1, <2>2
    <3>3. QED BY <3>2
  <2> HIDE DEF at, succ
  <2>6. Ordered'
    <3>1. SUFFICES ASSUME NEW n \in Nodes PROVE next'[n] > n
      BY DEF Ordered
    <3>2. CASE next'[n] = None /\ n = c
      BY <3>2
    <3>3. CASE next'[n] = succ /\ n = at
      BY <2>4, <3>3
    <3>4. CASE next'[n] = next[n]
      BY <3>4 DEF ListInv, Shape, Ordered
    <3>5. QED BY <2>5, <3>2, <3>3, <3>4
  <2>7. OneByOne'
    BY <2>2 DEF ListInv, Shape, OneByOne
  <2>8. LinksThreaded'
    <3>1. \A n : Threaded(n) => Threaded(n)'
      BY <2>2 DEF Threaded
    <3>2. Threaded(None)
      BY DEF Threaded
    <3>3. \A n \in Nodes : Threaded(next[n])'
      <4>1. SUFFICES ASSUME NEW n \in Nodes PROVE Threaded(next[n])'
        OBVIOUS
      <4>2. Threaded(next'[n])
        <5>1. Threaded(next[n])
          BY DEF ListInv, Shape, LinksThreaded
        <5>2. next'[n] \in {None, succ, next[n]}
          BY <2>5
        <5>3. QED BY <2>4, <3>2, <5>1, <5>2, Zenon
      <4>3. QED BY <3>1, <4>2, Zenon
    <3>4. QED BY <2>2, <2>3, <3>1, <3>3 DEF ListInv, Shape, LinksThreaded
  <2>9. QED BY <2>6, <2>7, <2>8 DEF Shape
<1>3. QED BY <1>1, <1>2

LEMMA HandlerStepInv ==
  ASSUME ListInv, NEW c \in Channels, HandlerStep(c)
  PROVE  Shape'
<1>1. handler \in [Channels -> HandlerStates]
  BY DEF ListInv, MessageTypeOK, HandlerStates
<1>2. ASSUME NEW h, h.pc # "unlink", HandlerIs(c, h), UNCHANGED next
      PROVE  Shape'
  <2>1. \A d \in Channels : handler'[d].pc = "unlink" => handler'[d] = handler[d]
    BY <1>1, <1>2 DEF HandlerIs
  <2>2. QED BY <1>2, <2>1, QuietInv DEF HandlerIs
<1>3. ASSUME NEW pc, pc # "unlink", HandlerGoes(c, pc), UNCHANGED next
      PROVE  Shape'
  <2>1. [handler[c] EXCEPT !.pc = pc].pc # "unlink"
    BY <1>1, <1>3 DEF HandlerStates
  <2>2. QED BY <1>2, <1>3, <2>1 DEF HandlerGoes
<1>4. CASE Signalled(c)
  <2>1. UNCHANGED next /\ \E pc \in {"deactivate", "wait"} : HandlerGoes(c, pc)
    BY <1>4 DEF Signalled
  <2>2. PICK pc \in {"deactivate", "wait"} : HandlerGoes(c, pc)
    BY <2>1
  <2>3. pc # "unlink"
    OBVIOUS
  <2>4. QED BY <1>3, <2>1, <2>2, <2>3
<1>5. CASE Deactivate(c) \/ ResetQueues(c) \/ ClearImpulse(c)
  <2>1. UNCHANGED next /\ \E pc \in {"reset", "clear", "find"} : HandlerGoes(c, pc)
    BY <1>5 DEF Deactivate, ResetQueues, ClearImpulse
  <2>2. PICK pc \in {"reset", "clear", "find"} : HandlerGoes(c, pc)
    BY <2>1
  <2>3. pc # "unlink"
    OBVIOUS
  <2>4. QED BY <1>3, <2>1, <2>2, <2>3
<1>6. CASE Free(c)
  BY <1>2, <1>6 DEF Free
<1>7. QED
  BY <1>4, <1>5, <1>6, FindInv, UnlinkInv DEF HandlerStep

(* The steps together. *)
LEMMA StepInv ==
  ASSUME ListInv, Step, UNCHANGED asleep, raced' = (raced \/ Racing')
  PROVE  ListInv'
<1>1. raced' \in BOOLEAN
  BY DEF Racing, ListInv, MessageTypeOK
<1>2. MessageTypeOK'
  BY <1>1, TypeStep DEF ListInv
<1>3. ASSUME Poll \/ PollChannel PROVE Shape'
  <2>1. UNCHANGED <<next, guest, commands, starter, handler>>
    BY <1>3 DEF Poll, PollChannel, PollerGoes, Die
  <2>2. QED BY <2>1, QuietInv
<1>4. ASSUME StarterStep PROVE Shape'
  BY <1>4, TakeCommandInv, FindEndInv, LinkInv, StarterGoesInv, AnswerInv DEF StarterStep
<1>5. ASSUME NEW c \in Channels, SendSignal(c)
      PROVE  Shape'
  <2>1. UNCHANGED <<next, guest, commands, starter, handler>>
    BY <1>5 DEF SendSignal
  <2>2. QED BY <2>1, QuietInv
<1>6. Shape'
  BY <1>1, <1>3, <1>4, <1>5, StartInv, ShutDownInv, HandlerStepInv DEF Step
<1>7. QED BY <1>2, <1>6 DEF ListInv

(* A thread that falls asleep or wakes. *)
LEMMA QuietStep ==
  ASSUME ListInv, UNCHANGED threads, asleep' \subseteq Channels,
         raced' = raced \/ raced' = (raced \/ Racing')
  PROVE  ListInv'
<1>1. raced' \in BOOLEAN
  BY DEF Racing, ListInv, MessageTypeOK
<1>2. MessageTypeOK'
  BY <1>1 DEF ListInv, MessageTypeOK, threads
<1>3. Shape'
  BY QuietInv DEF threads
<1>4. QED BY <1>2, <1>3 DEF ListInv

LEMMA WaitAsleep ==
  ASSUME MessageTypeOK, Wait
  PROVE  asleep' \subseteq Channels
BY DEF MessageTypeOK, Wait, Broadcast, Block

LEMMA Invariance == Spec => []ListInv
<1>1. ListInv /\ [Next]_vars => ListInv'
  <2>1. SUFFICES ASSUME ListInv, [Next]_vars PROVE ListInv'
    OBVIOUS
  <2>2. CASE Step /\ UNCHANGED asleep /\ raced' = (raced \/ Racing')
    BY <2>1, <2>2, StepInv
  <2>3. CASE Wait /\ UNCHANGED threads /\ raced' = (raced \/ Racing')
    BY <2>1, <2>3, WaitAsleep, QuietStep DEF ListInv
  <2>4. CASE UNCHANGED vars
    BY <2>1, <2>4, QuietStep DEF vars, ListInv, MessageTypeOK
  <2> QED BY <2>1, <2>2, <2>3, <2>4 DEF Next
<1>2. QED BY InitInv, <1>1, PTL DEF Spec

(* The threads of message_channels.c and spy.c keep to their states.       *)
THEOREM MessageTypeCorrect == Spec => []MessageTypeOK
<1>1. ListInv => MessageTypeOK
  BY DEF ListInv
<1>2. QED BY Invariance, <1>1, PTL

(* However the starting thread and the handlers meet in the list, no link  *)
(* of it leads back: PollMessageChannels (message_channels.c:57-81), which *)
(* walks it with signalLock held, and the searches of                      *)
(* ThreadActiveMessageChannel and UnthreadMessageChannel always end.       *)
THEOREM ListEnds == Spec => []Ordered
<1>1. ListInv => Ordered
  BY DEF ListInv, Shape
<1>2. QED BY Invariance, <1>1, PTL


(***************************************************************************)
(* The list holds what it should while no two threads meet in it.          *)
(***************************************************************************)
(* Channels that should be in the list, *)
Listed ==
    {c \in Channels :
        /\ \/ guest[c] \in {"started", "closing"}
           \/ starter.pc \in {"activate", "install", "answer"} /\ starter.for = c
        /\ handler[c].pc \notin {"free", "gone"}}
InList == {0} \cup Listed

(* which is each of them in turn and nothing else; *)
Chain ==
    /\ \A n \in InList : next[n] \in Listed \cup {None}
    /\ \A n \in InList : \A d \in Listed : d > n => d >= next[n]
    /\ \A n \in Nodes \ InList : next[n] = None

(* where the threads are that walk it. *)
PollerPlace  == poller \in InList \cup {None}
StarterPlace ==
    /\ starter.pc \in {"find end", "link"} => starter.at \in InList
    /\ starter.pc = "link" => next[starter.at] = None
HandlerPlace(c) ==
    /\ handler[c].pc \in {"find", "unlink"} => handler[c].at \in InList /\ handler[c].at < c
    /\ handler[c].pc = "unlink" => next[handler[c].at] = c /\ handler[c].succ = next[c]
Places == PollerPlace /\ StarterPlace /\ \A c \in Channels : HandlerPlace(c)

(* Of each channel, whoever meets: its handler goes on when Lisp has asked *)
(* it to, searches from the start, and frees the data last.                *)
Asked(c) ==
    /\ handler[c].pc # "wait" \/ chan[c].impulse => guest[c] = "closing"
    /\ handler[c].pc \in {"wait", "deactivate", "reset", "clear"} => handler[c].at = 0
    /\ chan[c].freed => handler[c].pc = "gone"

Apart   == ~died /\ ~Racing /\ Chain /\ Places
KeptInv == ListInv /\ (\A c \in Channels : Asked(c)) /\ (raced \/ Apart)

(* The initial state. *)
LEMMA KeptInit == Init => KeptInv
<1> SUFFICES ASSUME Init PROVE KeptInv
  OBVIOUS
<1>1. ListInv
  BY InitInv
<1>2. \A c \in Channels : Asked(c) /\ HandlerPlace(c)
  BY DEF Init, Asked, HandlerPlace
<1>3. Listed = {}
  BY DEF Init, Listed
<1>4. Chain
  BY <1>3 DEF Init, Chain, InList
<1>5. PollerPlace /\ StarterPlace
  BY DEF Init, PollerPlace, StarterPlace
<1>6. ~Racing
  BY MessageChannelsAssumption DEF Init, Racing, Changing, MessageChannelsAssumption
<1>7. ~died
  BY DEF Init
<1> QED BY <1>1, <1>2, <1>4, <1>5, <1>6, <1>7 DEF KeptInv, Apart, Places

(* A number of the list's channels before c that none comes after. *)
Smaller == {p \in Nat \X Nat : p[1] < p[2]}

LEMMA SmallerIs == IsWellFoundedOn(Smaller, Nat)
<1>1. OpToRel(<, Nat) = Smaller
  BY DEF OpToRel, Smaller
<1> QED BY <1>1, NatLessThanWellFounded

LEMMA LastBefore ==
  ASSUME NEW c \in Nat, NEW S, S \subseteq Nat, 0 \in S, c > 0
  PROVE  \E n \in S : n < c /\ \A m \in S : m < c => m <= n
<1> DEFINE T == {k \in Nat : \E n \in S : n < c /\ k = c - n}
<1>1. c \in T
  OBVIOUS
<1>2. T \subseteq Nat
  OBVIOUS
<1>3. PICK x \in T : \A y \in T : ~(<<y, x>> \in Smaller)
  <2> HIDE DEF T
  <2> QED BY <1>1, <1>2, SmallerIs, WFMin
<1>4. PICK n \in S : n < c /\ x = c - n
  OBVIOUS
<1>5. ASSUME NEW m \in S, m < c, ~(m <= n) PROVE FALSE
  <2>1. m \in Nat /\ n \in Nat
    OBVIOUS
  <2>2. c - m \in T /\ c - m < x /\ x \in Nat
    BY <1>4, <1>5, <2>1
  <2>3. c - m \in Nat
    BY <2>2
  <2>4. <<c - m, x>> \in Smaller
    BY <2>2, <2>3 DEF Smaller
  <2> QED BY <1>3, <2>2, <2>4
<1> QED BY <1>4, <1>5

(* While the list is a chain, the walk comes by its channels. *)
LEMMA WalkIsList ==
  ASSUME MessageTypeOK, Ordered, Chain
  PROVE  Walked = InList
<1>1. InList \subseteq Nodes /\ 0 \in InList
  BY DEF InList, Listed
<1>2. Walked \subseteq InList
  <2>1. LeadsOn(InList)
    BY <1>1 DEF LeadsOn, Chain, InList
  <2> QED BY <1>1, <2>1 DEF Walked
<1>3. ASSUME NEW S \in SUBSET Nodes, LeadsOn(S), NEW c \in Listed
      PROVE  c \in S
  <2>1. c \in Nat /\ c > 0 /\ c # None
    BY MessageChannelsAssumption DEF Listed, MessageChannelsAssumption
  <2>2. S \cap InList \subseteq Nat /\ 0 \in S \cap InList
    BY <1>1, <1>3 DEF LeadsOn
  <2>3. PICK n \in S \cap InList : n < c /\ \A m \in S \cap InList : m < c => m <= n
    BY <2>1, <2>2, LastBefore
  <2>4. n \in Nat /\ n \in Nodes
    BY <2>2, <1>1
  <2>5. next[n] \in Listed \cup {None} /\ c >= next[n]
    BY <2>3, <1>3 DEF Chain
  <2>6. next[n] > n
    BY <2>4 DEF Ordered
  <2>7. next[n] # None
    BY <2>1, <2>5, MessageChannelsAssumption DEF MessageChannelsAssumption, Listed
  <2>8. next[n] \in S \cap InList
    BY <1>3, <2>3, <2>5, <2>7 DEF LeadsOn, InList
  <2>9. next[n] \in Nat
    BY <2>2, <2>8
  <2>10. ~(next[n] < c)
    BY <2>3, <2>4, <2>6, <2>8, <2>9
  <2>11. next[n] = c
    BY <2>1, <2>5, <2>9, <2>10
  <2> QED BY <2>8, <2>11
<1>4. InList \subseteq Walked
  <2>1. SUFFICES ASSUME NEW n \in InList PROVE n \in Walked
    OBVIOUS
  <2>2. \A S \in SUBSET Nodes : LeadsOn(S) => n \in S
    BY <1>3 DEF InList, LeadsOn
  <2> QED BY <1>1, <2>2 DEF Walked
<1> QED BY <1>2, <1>4

(* A channel that Lisp uses is in the list, and no channel of the list is  *)
(* freed.                                                                  *)
LEMMA InListAlive ==
  ASSUME \A c \in Channels : Asked(c), NEW n \in InList \cup {None}
  PROVE  ~Freed(n)
  BY MessageChannelsAssumption DEF InList, Listed, Asked, Freed, MessageChannelsAssumption

LEMMA KeptIntact == KeptInv => ListIntact
<1> SUFFICES ASSUME KeptInv PROVE ListIntact
  OBVIOUS
<1>1. MessageTypeOK /\ Ordered
  BY DEF KeptInv, ListInv, Shape
<1>2. SUFFICES ASSUME ~raced
               PROVE  /\ ~died
                      /\ \A c \in Channels : guest[c] = "started" => c \in Walked
                      /\ \A n \in Walked : ~Freed(n)
  BY <1>1 DEF ListIntact
<1>3. Apart /\ \A c \in Channels : Asked(c)
  BY <1>2 DEF KeptInv
<1>4. Walked = InList
  BY <1>1, <1>3, WalkIsList DEF Apart
<1>5. \A c \in Channels : guest[c] = "started" => c \in InList
  BY <1>3 DEF Asked, InList, Listed
<1>6. \A n \in InList : ~Freed(n)
  BY <1>3, InListAlive
<1> QED BY <1>3, <1>4, <1>5, <1>6 DEF Apart


(***************************************************************************)
(* One step, after which no two threads have met.                          *)
(***************************************************************************)
(* A walk that stays where it was. *)
LEMMA PlacesKept ==
  ASSUME Apart, Listed \subseteq Listed', UNCHANGED next
  PROVE  /\ UNCHANGED poller => PollerPlace'
         /\ UNCHANGED starter => StarterPlace'
         /\ \A c \in Channels : UNCHANGED handler[c] => HandlerPlace(c)'
<1>1. InList \subseteq InList'
  BY DEF InList
<1>2. UNCHANGED poller => PollerPlace'
  BY <1>1 DEF Apart, Places, PollerPlace
<1>3. UNCHANGED starter => StarterPlace'
  BY <1>1 DEF Apart, Places, StarterPlace
<1>4. ASSUME NEW c \in Channels, UNCHANGED handler[c] PROVE HandlerPlace(c)'
  BY <1>1, <1>4 DEF Apart, Places, HandlerPlace
<1> QED BY <1>2, <1>3, <1>4

(* The chain, when neither it nor what it should have changes. *)
LEMMA ChainKept ==
  ASSUME Apart, Listed' = Listed, UNCHANGED next
  PROVE  Chain'
<1>1. InList' = InList
  BY DEF InList
<1> QED BY <1>1 DEF Apart, Chain

(* Nobody follows freed data. *)
LEMMA NobodyDies ==
  ASSUME KeptInv, Apart
  PROVE  /\ ~Die(poller)
         /\ starter.pc \in {"find end", "link"} => ~Die(starter.at)
         /\ \A c \in Channels : handler[c].pc \in {"find", "unlink"} => ~Die(handler[c].at)
<1>1. \A n \in InList \cup {None} : ~Die(n)
  BY InListAlive DEF KeptInv, Die
<1> QED BY <1>1 DEF Apart, Places, PollerPlace, StarterPlace, HandlerPlace

(* Steps of Lisp and of the polling thread. *)
LEMMA LispKept ==
  ASSUME KeptInv, NEW c \in Channels, Start(c) \/ ShutDown(c) \/ SendSignal(c)
  PROVE  /\ \A d \in Channels : Asked(d)'
         /\ Apart /\ ~Racing' => Apart'
<1>1. MessageTypeOK
  BY DEF KeptInv, ListInv
<1>2. UNCHANGED <<next, handler, starter, poller, died>>
  BY DEF Start, ShutDown, SendSignal
<1>3. \A d \in Channels : /\ guest'[d] # guest[d] =>
                               \/ guest[d] = "none" /\ guest'[d] = "asked"
                               \/ guest[d] = "started" /\ guest'[d] = "closing"
                          /\ chan'[d].freed = chan[d].freed
                          /\ chan'[d].impulse => chan[d].impulse \/ guest'[d] = "closing"
  <2>1. CASE Start(c)
    BY <1>1, <2>1 DEF Start, MessageTypeOK
  <2>2. CASE ShutDown(c)
    BY <1>1, <2>2 DEF ShutDown, MessageTypeOK
  <2>3. CASE SendSignal(c)
    BY <1>1, <2>3 DEF SendSignal, MessageTypeOK
  <2> QED BY <2>1, <2>2, <2>3
<1>4. \A d \in Channels : Asked(d)'
  BY <1>2, <1>3 DEF KeptInv, Asked
<1>5. Listed' = Listed
  BY <1>2, <1>3 DEF Listed
<1>6. Apart => Places' /\ Chain'
  BY <1>2, <1>5, PlacesKept, ChainKept DEF Places
<1> QED BY <1>2, <1>4, <1>6 DEF Apart

LEMMA PollKept ==
  ASSUME KeptInv, Poll \/ PollChannel
  PROVE  /\ \A d \in Channels : Asked(d)'
         /\ Apart /\ ~Racing' => Apart'
<1>1. MessageTypeOK
  BY DEF KeptInv, ListInv
<1>2. UNCHANGED <<next, handler, starter, guest>>
  BY DEF Poll, PollChannel, PollerGoes, Die
<1>3. \A d \in Channels : chan'[d].freed = chan[d].freed /\ chan'[d].impulse = chan[d].impulse
  <2>1. \/ chan' = chan
        \/ poller \in Channels /\ chan' = [chan EXCEPT ![poller].signal = TRUE]
    BY DEF Poll, PollChannel, Die
  <2>2. CASE chan' = chan
    BY <2>2
  <2>3. CASE chan' # chan
    <3>1. PICK c \in Channels : chan' = [chan EXCEPT ![c].signal = TRUE]
      BY <2>1, <2>3
    <3>2. chan \in [Channels -> ChannelStates]
      BY <1>1 DEF MessageTypeOK, ChannelStates
    <3> QED BY <3>1, <3>2 DEF ChannelStates
  <2> QED BY <2>2, <2>3
<1>4. \A d \in Channels : Asked(d)'
  BY <1>2, <1>3 DEF KeptInv, Asked
<1>5. Listed' = Listed /\ InList' = InList
  BY <1>2 DEF Listed, InList
<1>6. ASSUME Apart PROVE PollerPlace' /\ ~died'
  <2>1. CASE Poll
    BY <1>5, <1>6, <2>1 DEF Poll, PollerGoes, PollerPlace, InList, Apart
  <2>2. CASE PollChannel
    <3>1. poller \in InList
      BY <1>6, <2>2 DEF PollChannel, Apart, Places, PollerPlace
    <3>2. poller' = next[poller] /\ died' = died
      BY <1>6, <2>2, NobodyDies DEF PollChannel, PollerGoes
    <3> QED BY <1>5, <1>6, <3>1, <3>2 DEF Apart, Chain, PollerPlace, InList
  <2> QED BY <2>1, <2>2
<1>7. Apart => Places' /\ Chain'
  BY <1>2, <1>5, <1>6, PlacesKept, ChainKept DEF Places
<1> QED BY <1>4, <1>6, <1>7 DEF Apart


(* The starting thread. *)
LEMMA StarterAsked ==
  ASSUME KeptInv, StarterStep
  PROVE  \A d \in Channels : Asked(d)'
<1>1. MessageTypeOK
  BY DEF KeptInv, ListInv
<1>2. UNCHANGED handler
  BY DEF StarterStep, TakeCommand, FindEnd, Link, Activate, Install, Answer, StarterIs, Die
<1>3. \A d \in Channels : chan'[d].freed = chan[d].freed /\ chan'[d].impulse = chan[d].impulse
  <2>1. CASE Install
    <3>1. starter.for \in Channels /\ chan' = [chan EXCEPT ![starter.for].installed = TRUE]
      BY <1>1, <2>1 DEF Install, Starter, MessageTypeOK
    <3> QED BY <1>1, <3>1, ZenonT(30) DEF MessageTypeOK
  <2>2. CASE ~Install
    BY <2>2 DEF StarterStep, TakeCommand, FindEnd, Link, Activate, Answer, Die
  <2> QED BY <2>1, <2>2
<1>4. \A d \in Channels : guest[d] = "closing" => guest'[d] = "closing"
  <2>1. CASE Answer
    <3>1. starter.for \in Channels /\ guest[starter.for] = "asked"
      BY <1>1, <2>1 DEF Answer, Starter, MessageTypeOK, KeptInv, ListInv, Shape, OneByOne
    <3>2. guest' = [guest EXCEPT ![starter.for] = "started"]
      BY <2>1 DEF Answer
    <3> QED BY <1>1, <3>1, <3>2 DEF MessageTypeOK
  <2>2. CASE ~Answer
    BY <2>2 DEF StarterStep, TakeCommand, FindEnd, Link, Activate, Install, Die
  <2> QED BY <2>1, <2>2
<1> QED BY <1>2, <1>3, <1>4 DEF KeptInv, Asked

LEMMA TakeKept ==
  ASSUME KeptInv, Apart, TakeCommand
  PROVE  Apart' \/ Racing'
<1>1. MessageTypeOK /\ OneByOne
  BY DEF KeptInv, ListInv, Shape
<1>2. PICK c \in Channels : c = Head(commands) /\ guest[c] = "asked"
  <2>1. commands # <<>>
    BY DEF TakeCommand
  <2>2. Head(commands) = commands[1] /\ Head(commands) \in Channels
    BY <1>1, <2>1, HeadTail, Zenon DEF MessageTypeOK
  <2> QED BY <1>1, <2>1, <2>2 DEF OneByOne
<1>3. /\ next' = [next EXCEPT ![c] = None]
      /\ starter' = [pc |-> "find end", for |-> c, at |-> 0]
      /\ starter.pc = "wait"
      /\ UNCHANGED <<guest, handler, poller, died>>
  BY <1>2 DEF TakeCommand, StarterIs, Starter
<1>4. c \notin InList
  <2>1. c # 0 /\ starter.pc \notin {"activate", "install", "answer"}
    <3>1. c # 0
      OBVIOUS
    <3>2. starter.pc = "wait"
      BY <1>3
    <3> QED BY <3>1, <3>2
  <2>2. c \notin Listed
    BY <1>2, <2>1 DEF Listed
  <2> QED BY <2>1, <2>2 DEF InList
<1>5. next[c] = None
  BY <1>4 DEF Apart, Chain
<1>6. next' = next
  BY <1>1, <1>3, <1>5 DEF MessageTypeOK
<1>7. Listed' = Listed
  BY <1>3 DEF Listed
<1>8. StarterPlace'
  BY <1>3 DEF StarterPlace, InList
<1> QED BY <1>3, <1>6, <1>7, <1>8, PlacesKept, ChainKept DEF Apart, Places

LEMMA FindEndKept ==
  ASSUME KeptInv, Apart, FindEnd
  PROVE  Apart' \/ Racing'
<1>1. MessageTypeOK
  BY DEF KeptInv, ListInv
<1>2. /\ starter.pc = "find end" /\ starter.at \in InList
      /\ starter' = IF next[starter.at] = None THEN [starter EXCEPT !.pc = "link"]
                                               ELSE [starter EXCEPT !.at = next[starter.at]]
      /\ UNCHANGED <<next, guest, handler, poller, died>>
  BY NobodyDies DEF FindEnd, Starter, StarterIs, Apart, Places, StarterPlace
<1>3. starter \in [pc : {"wait", "find end", "link", "activate", "install", "answer"},
                   for : Nodes, at : Nodes]
  BY <1>1 DEF MessageTypeOK
<1>4. starter'.pc \in {"find end", "link"}
  BY <1>2, <1>3
<1>5. Listed' = Listed /\ InList' = InList
  BY <1>2, <1>4 DEF Listed, InList
<1>6. StarterPlace'
  <2>1. CASE next[starter.at] = None
    BY <1>2, <1>3, <1>5, <2>1 DEF StarterPlace
  <2>2. CASE next[starter.at] # None
    <3>1. starter'.pc = "find end" /\ starter'.at = next[starter.at]
      BY <1>2, <1>3, <2>2
    <3>2. next[starter.at] \in InList
      BY <1>2, <2>2 DEF Apart, Chain, InList
    <3> QED BY <1>5, <3>1, <3>2 DEF StarterPlace
  <2> QED BY <2>1, <2>2
<1> QED BY <1>2, <1>5, <1>6, PlacesKept, ChainKept DEF Apart, Places


(* The channel is linked to the end of the list. *)
LEMMA LinkKept ==
  ASSUME KeptInv, Apart, Link
  PROVE  Apart' \/ Racing'
<1> USE MessageChannelsAssumption DEF MessageChannelsAssumption
<1>1. MessageTypeOK /\ OneByOne
  BY DEF KeptInv, ListInv, Shape
<1>2. PICK c \in Channels : c = starter.for /\ guest[c] = "asked"
  BY <1>1 DEF Link, Starter, MessageTypeOK, OneByOne
<1>3. PICK at \in InList : at = starter.at /\ next[at] = None
  BY DEF Link, Starter, Apart, Places, StarterPlace
<1>4. /\ next' = [next EXCEPT ![at] = c]
      /\ starter' = [starter EXCEPT !.pc = "activate"]
      /\ starter.pc = "link"
      /\ UNCHANGED <<guest, handler, poller, died>>
  BY <1>2, <1>3, NobodyDies DEF Link, Starter, StarterIs
<1>5. starter'.pc = "activate" /\ starter'.for = c
  BY <1>1, <1>2, <1>4 DEF MessageTypeOK
<1>6. handler[c].pc = "wait"
  BY <1>2 DEF KeptInv, Asked
<1>7. Listed' = Listed \cup {c}
  <2>1. \A d \in Channels : d \in Listed' <=> d \in Listed \/ d = c
    BY <1>4, <1>5, <1>6 DEF Listed
  <2>2. Listed \subseteq Channels /\ Listed' \subseteq Channels
    BY DEF Listed
  <2> QED BY <2>1, <2>2
<1>8. InList' = InList \cup {c}
  BY <1>7 DEF InList
<1>9. c \notin InList /\ next[c] = None
  <2>1. c \notin Listed
    BY <1>2, <1>4 DEF Listed
  <2> QED BY <2>1 DEF InList, Apart, Chain
<1>10. at \in Nodes /\ c \in Nodes /\ at # c /\ next \in [Nodes -> Channels \cup {None}]
  BY <1>1, <1>9 DEF InList, Listed, MessageTypeOK
<1>11. next'[at] = c /\ \A n \in Nodes : n # at => next'[n] = next[n]
  BY <1>4, <1>10
<1>12. \A d \in Listed : d < c /\ ~(d > at)
  <2>1. SUFFICES ASSUME NEW d \in Listed PROVE d < c /\ ~(d > at)
    OBVIOUS
  <2>2. d \in Channels /\ guest[d] # "none" /\ d # c
    BY <1>4, <1>9, <2>1 DEF Listed, InList
  <2>3. d < c
    BY <1>1, <1>2, <2>2 DEF OneByOne
  <2>4. d > at => d >= None
    BY <1>3 DEF Apart, Chain
  <2> QED BY <1>10, <2>2, <2>3, <2>4
<1>13. Chain'
  <2>1. \A n \in InList' : next'[n] \in Listed' \cup {None}
    BY <1>7, <1>8, <1>9, <1>10, <1>11 DEF Apart, Chain, InList, Listed
  <2>2. ASSUME NEW n \in InList', NEW d \in Listed', d > n
        PROVE  d >= next'[n]
    <3>1. CASE n = at
      <4>1. d = c
        BY <1>7, <1>12, <2>2, <3>1
      <4> QED BY <1>11, <3>1, <4>1
    <3>2. CASE n = c
      <4>1. d \notin Listed
        BY <1>12, <2>2, <3>2 DEF Listed
      <4> QED BY <1>7, <2>2, <3>2, <4>1
    <3>3. CASE n # at /\ n # c
      <4>1. n \in InList /\ n \in Nodes /\ next'[n] = next[n]
        BY <1>8, <1>11, <3>3 DEF InList, Listed
      <4>2. CASE d \in Listed
        BY <2>2, <4>1, <4>2 DEF Apart, Chain
      <4>3. CASE d = c
        <5>1. n < at
          <6>1. CASE n = 0
            BY <1>10, <3>3, <6>1
          <6>2. CASE n # 0
            <7>1. n \in Listed /\ ~(n > at)
              BY <1>12, <4>1, <6>2 DEF InList
            <7> QED BY <1>10, <3>3, <4>1, <7>1
          <6> QED BY <6>1, <6>2
        <5>2. at \in Listed
          BY <1>10, <4>1, <5>1 DEF InList
        <5>3. at >= next[n] /\ at < c
          BY <4>1, <5>1, <5>2, <1>12 DEF Apart, Chain
        <5> QED BY <1>10, <4>1, <4>3, <5>3
      <4> QED BY <1>7, <4>2, <4>3
    <3> QED BY <3>1, <3>2, <3>3
  <2>3. \A n \in Nodes \ InList' : next'[n] = None
    BY <1>3, <1>8, <1>11 DEF Apart, Chain
  <2> QED BY <2>1, <2>2, <2>3 DEF Chain
<1>14. PollerPlace' /\ StarterPlace'
  BY <1>4, <1>5, <1>8 DEF Apart, Places, PollerPlace, StarterPlace
<1>15. \A d \in Channels : handler[d].pc \notin {"find", "unlink"}
  <2>1. 0 \in Changing /\ \A d \in Channels : d # 0
    BY <1>4 DEF Changing
  <2>2. \A m, n \in Changing : m = n
    BY DEF Apart, Racing
  <2> QED BY <2>1, <2>2 DEF Changing
<1>16. \A d \in Channels : HandlerPlace(d)'
  BY <1>4, <1>15 DEF HandlerPlace
<1> QED BY <1>4, <1>13, <1>14, <1>16 DEF Apart, Places

(* The starting thread's last steps do not look at the list. *)
LEMMA StartedKept ==
  ASSUME KeptInv, Apart, Activate \/ Install \/ Answer
  PROVE  Apart' \/ Racing'
<1>1. MessageTypeOK
  BY DEF KeptInv, ListInv
<1>2. UNCHANGED <<next, handler, poller, died>>
  BY DEF Activate, Install, Answer, StarterIs
<1>3. PICK c \in Channels : c = starter.for
  BY <1>1 DEF Activate, Install, Answer, Starter, MessageTypeOK
<1>4. \/ /\ starter.pc \in {"activate", "install"} /\ starter'.pc \in {"install", "answer"}
         /\ starter'.for = c /\ guest' = guest
      \/ /\ starter.pc = "answer" /\ starter'.pc = "wait"
         /\ guest' = [guest EXCEPT ![c] = "started"]
  <2>1. starter \in [pc : {"wait", "find end", "link", "activate", "install", "answer"},
                     for : Nodes, at : Nodes]
    BY <1>1 DEF MessageTypeOK
  <2>2. CASE Activate
    BY <1>3, <2>1, <2>2 DEF Activate, Starter, StarterIs
  <2>3. CASE Install
    BY <1>3, <2>1, <2>3 DEF Install, Starter, StarterIs
  <2>4. CASE Answer
    BY <1>3, <2>1, <2>4 DEF Answer, Starter, StarterIs
  <2> QED BY <2>2, <2>3, <2>4
<1>5. Listed' = Listed
  <2>1. CASE starter.pc \in {"activate", "install"}
    BY <1>2, <1>3, <1>4, <2>1 DEF Listed
  <2>2. CASE starter.pc = "answer"
    <3>1. \A d \in Channels : guest'[d] = IF d = c THEN "started" ELSE guest[d]
      BY <1>1, <1>4, <2>2 DEF MessageTypeOK
    <3> QED BY <1>2, <1>3, <1>4, <2>2, <3>1 DEF Listed
  <2> QED BY <1>4, <2>1, <2>2
<1>6. StarterPlace'
  BY <1>4 DEF StarterPlace
<1> QED BY <1>2, <1>5, <1>6, PlacesKept, ChainKept DEF Apart, Places


(* A handler that goes on, *)
LEMMA HandlerAsked ==
  ASSUME KeptInv, NEW c \in Channels, NEW h, handler' = [handler EXCEPT ![c] = h],
         UNCHANGED guest,
         h.pc # "wait" => guest[c] = "closing",
         h.pc \in {"wait", "deactivate", "reset", "clear"} => h.at = 0,
         handler[c].pc # "gone" \/ h.pc = "gone",
         \A d \in Channels : /\ chan'[d].impulse => chan[d].impulse
                             /\ chan'[d].freed => chan[d].freed \/ (d = c /\ h.pc = "gone")
  PROVE  \A d \in Channels : Asked(d)'
<1>1. \A d \in Channels : handler'[d] = IF d = c THEN h ELSE handler[d]
  BY DEF KeptInv, ListInv, MessageTypeOK
<1>2. SUFFICES ASSUME NEW d \in Channels PROVE Asked(d)'
  OBVIOUS
<1>3. Asked(d)
  BY DEF KeptInv
<1>4. CASE d = c
  <2>1. handler'[d] = h
    BY <1>1, <1>4
  <2> QED BY <1>3, <1>4, <2>1 DEF Asked
<1>5. CASE d # c
  <2>1. handler'[d] = handler[d]
    BY <1>1, <1>5
  <2> QED BY <1>3, <1>5, <2>1 DEF Asked
<1> QED BY <1>4, <1>5

(* and leaves the list alone. *)
LEMMA HandlerApart ==
  ASSUME KeptInv, Apart, NEW c \in Channels, NEW h, handler' = [handler EXCEPT ![c] = h],
         UNCHANGED <<next, guest, starter, poller, died>>,
         handler[c].pc \in {"free", "gone"} <=> h.pc \in {"free", "gone"},
         h.pc \in {"find", "unlink"} => h.at \in InList /\ h.at < c,
         h.pc = "unlink" => next[h.at] = c /\ h.succ = next[c]
  PROVE  Apart' \/ Racing'
<1>1. \A d \in Channels : handler'[d] = IF d = c THEN h ELSE handler[d]
  BY DEF KeptInv, ListInv, MessageTypeOK
<1>2. Listed' = Listed
  <2>1. \A d \in Channels : handler'[d].pc \in {"free", "gone"} <=> handler[d].pc \in {"free", "gone"}
    BY <1>1
  <2> QED BY <2>1 DEF Listed
<1>3. InList' = InList
  BY <1>2 DEF InList
<1>4. ASSUME NEW d \in Channels PROVE HandlerPlace(d)'
  <2>1. CASE d = c
    <3>1. handler'[d] = h
      BY <1>1, <2>1
    <3> QED BY <1>3, <2>1, <3>1 DEF HandlerPlace
  <2>2. CASE d # c
    <3>1. handler'[d] = handler[d]
      BY <1>1, <2>2
    <3> QED BY <1>2, <3>1, PlacesKept
  <2> QED BY <2>1, <2>2
<1> QED BY <1>2, <1>4, PlacesKept, ChainKept DEF Apart, Places

(* It is called, and goes on with shutting down. *)
LEMMA CalledKept ==
  ASSUME KeptInv, NEW c \in Channels,
         Signalled(c) \/ Deactivate(c) \/ ResetQueues(c) \/ ClearImpulse(c)
  PROVE  /\ \A d \in Channels : Asked(d)'
         /\ Apart => Apart' \/ Racing'
<1>1. handler \in [Channels -> HandlerStates] /\ chan \in [Channels -> ChannelStates]
  BY DEF KeptInv, ListInv, MessageTypeOK, HandlerStates, ChannelStates
<1>2. /\ handler[c].pc \in {"wait", "deactivate", "reset", "clear"}
      /\ UNCHANGED <<next, guest, starter, poller, died>>
  BY DEF Signalled, Deactivate, ResetQueues, ClearImpulse, HandlerGoes, HandlerIs, Handler
<1>3. handler[c].at = 0 /\ (handler[c].pc # "wait" \/ chan[c].impulse => guest[c] = "closing")
  BY <1>2 DEF KeptInv, Asked
<1>4. PICK pc \in {"wait", "deactivate", "reset", "clear", "find"} :
         /\ handler' = [handler EXCEPT ![c] = [handler[c] EXCEPT !.pc = pc]]
         /\ pc # "wait" => guest[c] = "closing"
  <2>1. CASE Signalled(c)
    BY <1>3, <2>1 DEF Signalled, HandlerGoes, HandlerIs
  <2>2. CASE Deactivate(c)
    BY <1>3, <2>2 DEF Deactivate, HandlerGoes, HandlerIs, Handler
  <2>3. CASE ResetQueues(c)
    BY <1>3, <2>3 DEF ResetQueues, HandlerGoes, HandlerIs, Handler
  <2>4. CASE ClearImpulse(c)
    BY <1>3, <2>4 DEF ClearImpulse, HandlerGoes, HandlerIs, Handler
  <2> QED BY <2>1, <2>2, <2>3, <2>4
<1> DEFINE h == [handler[c] EXCEPT !.pc = pc]
<1>5. h.pc = pc /\ h.at = 0
  BY <1>1, <1>3 DEF HandlerStates
<1>6. handler' = [handler EXCEPT ![c] = h]
  BY <1>4
<1> HIDE DEF h
<1>7. \A d \in Channels : chan'[d].freed = chan[d].freed /\ (chan'[d].impulse => chan[d].impulse)
  <2>1. CASE Signalled(c)
    BY <1>1, <2>1 DEF Signalled, ChannelStates
  <2>2. CASE Deactivate(c)
    BY <2>2 DEF Deactivate
  <2>3. CASE ResetQueues(c)
    BY <1>1, <2>3 DEF ResetQueues, ChannelStates
  <2>4. CASE ClearImpulse(c)
    BY <1>1, <2>4 DEF ClearImpulse, ChannelStates
  <2> QED BY <2>1, <2>2, <2>3, <2>4
<1>8. \A d \in Channels : Asked(d)'
  <2>1. h.pc # "wait" => guest[c] = "closing"
    BY <1>4, <1>5
  <2>2. handler[c].pc # "gone"
    BY <1>2
  <2>3. h.pc \in {"wait", "deactivate", "reset", "clear"} => h.at = 0
    BY <1>5
  <2>4. \A d \in Channels : /\ chan'[d].impulse => chan[d].impulse
                            /\ chan'[d].freed => chan[d].freed \/ (d = c /\ h.pc = "gone")
    BY <1>7, Zenon
  <2>5. UNCHANGED guest
    BY <1>2
  <2>6. handler[c].pc # "gone" \/ h.pc = "gone"
    BY <2>2
  <2> QED BY <1>6, <2>1, <2>3, <2>4, <2>5, <2>6, HandlerAsked
<1>9. ASSUME Apart PROVE Apart' \/ Racing'
  <2>1. handler[c].pc \notin {"free", "gone"} /\ h.pc \notin {"free", "gone", "unlink"}
    BY <1>2, <1>5
  <2>2. h.at \in InList /\ h.at < c
    BY <1>5, MessageChannelsAssumption DEF InList, MessageChannelsAssumption
  <2> QED BY <1>2, <1>6, <1>9, <2>1, <2>2, HandlerApart
<1> QED BY <1>8, <1>9


(* It searches the list for its channel, *)
LEMMA FindKept ==
  ASSUME KeptInv, NEW c \in Channels, Find(c)
  PROVE  /\ \A d \in Channels : Asked(d)'
         /\ Apart => Apart' \/ Racing'
<1> DEFINE at == handler[c].at
<1>1. /\ handler \in [Channels -> HandlerStates] /\ next \in [Nodes -> Channels \cup {None}]
      /\ handler[c].pc = "find" /\ guest[c] = "closing"
  BY DEF KeptInv, ListInv, MessageTypeOK, HandlerStates, Find, Handler, Asked
<1>2. CASE Die(at)
  <2>1. \A d \in Channels : Asked(d)'
    BY <1>2 DEF Die, KeptInv, Asked
  <2>2. ~Apart
    BY <1>1, <1>2, NobodyDies
  <2> QED BY <2>1, <2>2
<1>3. CASE ~Die(at)
  <2>1. UNCHANGED <<next, chan, guest, starter, poller, died>>
    BY <1>3 DEF Find, HandlerIs
  <2>2. PICK h \in HandlerStates :
          /\ handler' = [handler EXCEPT ![c] = h]
          /\ \/ next[at] = c /\ h.pc = "unlink" /\ h.at = at /\ h.succ = next[c]
             \/ next[at] = None /\ h.pc = "free"
             \/ next[at] \notin {c, None} /\ h.pc = "find" /\ h.at = next[at]
    <3>1. handler' = [handler EXCEPT ![c] =
                         CASE next[at] = c    -> [handler[c] EXCEPT !.pc = "unlink", !.succ = next[c]]
                           [] next[at] = None -> [handler[c] EXCEPT !.pc = "free"]
                           [] OTHER           -> [handler[c] EXCEPT !.at = next[at]]]
      BY <1>3 DEF Find, HandlerIs
    <3>2. handler[c] \in HandlerStates /\ next[at] \in Channels \cup {None}
          /\ next[c] \in Channels \cup {None}
      BY <1>1 DEF HandlerStates
    <3>3. CASE next[at] = c
      <4> DEFINE h == [handler[c] EXCEPT !.pc = "unlink", !.succ = next[c]]
      <4>1. h \in HandlerStates /\ h.pc = "unlink" /\ h.at = at /\ h.succ = next[c]
        BY <3>2 DEF HandlerStates
      <4>2. handler' = [handler EXCEPT ![c] = h]
        <5>1. next[at] # None
          BY <3>3, MessageChannelsAssumption DEF MessageChannelsAssumption
        <5> QED BY <3>1, <3>3, <5>1, Zenon
      <4> QED BY <3>3, <4>1, <4>2
    <3>4. CASE next[at] = None
      <4> DEFINE h == [handler[c] EXCEPT !.pc = "free"]
      <4>1. h \in HandlerStates /\ h.pc = "free"
        BY <3>2 DEF HandlerStates
      <4>2. handler' = [handler EXCEPT ![c] = h]
        BY <3>1, <3>4, MessageChannelsAssumption DEF MessageChannelsAssumption
      <4> QED BY <3>4, <4>1, <4>2
    <3>5. CASE next[at] \notin {c, None}
      <4> DEFINE h == [handler[c] EXCEPT !.at = next[at]]
      <4>1. h \in HandlerStates /\ h.pc = "find" /\ h.at = next[at]
        BY <1>1, <3>2, <3>5 DEF HandlerStates
      <4>2. handler' = [handler EXCEPT ![c] = h]
        BY <3>1, <3>5
      <4> QED BY <3>5, <4>1, <4>2
    <3> QED BY <3>3, <3>4, <3>5
  <2>3. \A d \in Channels : Asked(d)'
    <3>1. h.pc \notin {"wait", "deactivate", "reset", "clear"}
      BY <2>2
    <3>2. \A d \in Channels : /\ chan'[d].impulse => chan[d].impulse
                              /\ chan'[d].freed => chan[d].freed \/ (d = c /\ h.pc = "gone")
      <4>1. chan' = chan
        BY <2>1
      <4> QED BY <4>1
    <3>3. UNCHANGED guest /\ handler[c].pc # "gone"
      BY <1>1, <2>1
    <3> QED BY <1>1, <2>2, <3>1, <3>2, <3>3, HandlerAsked
  <2>4. ASSUME Apart PROVE Apart' \/ Racing'
    <3>1. at \in InList /\ at < c /\ c \in Listed
      BY <1>1, <2>4 DEF Apart, Places, HandlerPlace, Listed
    <3>2. next[at] \in Listed \cup {None} /\ c >= next[at]
      BY <2>4, <3>1 DEF Apart, Chain
    <3>3. next[at] # None
      BY <3>2, MessageChannelsAssumption DEF MessageChannelsAssumption
    <3>4. h.pc \in {"find", "unlink"} /\ h.at \in InList /\ h.at < c
      <4>1. CASE next[at] = c
        BY <2>2, <3>1, <3>3, <4>1
      <4>2. CASE next[at] # c
        <5>1. h.pc = "find" /\ h.at = next[at]
          BY <2>2, <3>3, <4>2
        <5>2. next[at] \in InList /\ next[at] \in Nat
          BY <3>2, <3>3 DEF InList, Listed
        <5> QED BY <3>2, <4>2, <5>1, <5>2
      <4> QED BY <4>1, <4>2
    <3>5. h.pc = "unlink" => next[h.at] = c /\ h.succ = next[c]
      BY <2>2
    <3>6. handler[c].pc \notin {"free", "gone"} /\ h.pc \notin {"free", "gone"}
      BY <1>1, <3>4
    <3> QED BY <2>1, <2>2, <2>4, <3>4, <3>5, <3>6, HandlerApart
  <2> QED BY <2>3, <2>4
<1> QED BY <1>2, <1>3


(* takes it out, *)
LEMMA UnlinkKept ==
  ASSUME KeptInv, NEW c \in Channels, Unlink(c)
  PROVE  /\ \A d \in Channels : Asked(d)'
         /\ Apart => Apart' \/ Racing'
<1> USE MessageChannelsAssumption DEF MessageChannelsAssumption
<1> DEFINE at == handler[c].at
           succ == handler[c].succ
           h == [handler[c] EXCEPT !.pc = "free"]
<1>1. /\ handler \in [Channels -> HandlerStates] /\ next \in [Nodes -> Channels \cup {None}]
      /\ handler[c].pc = "unlink" /\ guest[c] = "closing" /\ Ordered
  BY DEF KeptInv, ListInv, Shape, MessageTypeOK, HandlerStates, Unlink, Handler, Asked
<1>2. CASE Die(at)
  <2>1. \A d \in Channels : Asked(d)'
    BY <1>2 DEF Die, KeptInv, Asked
  <2>2. ~Apart
    BY <1>1, <1>2, NobodyDies
  <2> QED BY <2>1, <2>2
<1>3. CASE ~Die(at)
  <2>1. /\ handler' = [handler EXCEPT ![c] = h]
        /\ next' = [next EXCEPT ![at] = succ, ![c] = None]
        /\ UNCHANGED <<chan, guest, starter, poller, died>>
    BY <1>3 DEF Unlink, HandlerGoes, HandlerIs
  <2>2. h.pc = "free"
    BY <1>1 DEF HandlerStates
  <2> HIDE DEF h
  <2>3. \A d \in Channels : Asked(d)'
    <3>1. h.pc \notin {"wait", "deactivate", "reset", "clear"}
      BY <2>2
    <3>2. \A d \in Channels : /\ chan'[d].impulse => chan[d].impulse
                              /\ chan'[d].freed => chan[d].freed \/ (d = c /\ h.pc = "gone")
      <4>1. chan' = chan
        BY <2>1
      <4> QED BY <4>1
    <3>3. UNCHANGED guest /\ handler[c].pc # "gone"
      BY <1>1, <2>1
    <3> QED BY <1>1, <2>1, <3>1, <3>2, <3>3, HandlerAsked
  <2>4. ASSUME Apart PROVE Apart' \/ Racing'
    <3>1. /\ at \in InList /\ at < c /\ at \in Nodes
          /\ c \in Listed /\ next[at] = c /\ succ = next[c]
      BY <1>1, <2>4 DEF Apart, Places, HandlerPlace, Listed, InList
    <3>2. succ \in Listed \cup {None} /\ succ > c
      BY <1>1, <2>4, <3>1 DEF Apart, Chain, InList, Ordered
    <3> HIDE DEF at, succ
    <3>3. \A n \in Nodes : next'[n] = IF n = c THEN None ELSE IF n = at THEN succ ELSE next[n]
      BY <1>1, <2>1, <3>1
    <3>4. \A d \in Channels : handler'[d] = IF d = c THEN h ELSE handler[d]
      BY <1>1, <2>1
    <3>5. Listed' = Listed \ {c}
      <4>1. \A d \in Channels : d \in Listed' <=> d \in Listed /\ d # c
        BY <2>1, <2>2, <3>4 DEF Listed
      <4>2. Listed \subseteq Channels /\ Listed' \subseteq Channels
        BY DEF Listed
      <4> QED BY <4>1, <4>2
    <3>6. InList' = InList \ {c}
      BY <3>5 DEF InList
    <3>7. Chain'
      <4>1. ASSUME NEW n \in InList', NEW d \in Listed \cup {None}, next[n] = d, n # at
            PROVE  d # c
        <5>1. n \in InList /\ n # c /\ n \in Nat /\ c \in Nat /\ at \in Nat
          BY <3>1, <3>6 DEF InList, Listed
        <5>2. SUFFICES ASSUME d = c PROVE FALSE
          OBVIOUS
        <5>3. n < c
          BY <1>1, <4>1, <5>1, <5>2 DEF Ordered, InList, Listed
        <5>4. CASE n < at
          <6>1. at \in Listed
            BY <3>1, <5>1, <5>4 DEF InList
          <6>2. at >= c
            BY <2>4, <4>1, <5>1, <5>2, <5>4, <6>1 DEF Apart, Chain
          <6> QED BY <3>1, <5>1, <6>2
        <5>5. CASE n > at
          <6>1. n \in Listed
            BY <5>1, <5>5 DEF InList
          <6>2. n >= c
            BY <2>4, <3>1, <5>5, <6>1 DEF Apart, Chain
          <6> QED BY <5>1, <5>3, <6>2
        <5> QED BY <4>1, <5>1, <5>4, <5>5
      <4>2. \A n \in InList' : /\ n \in InList /\ n \in Nodes /\ n # c
                               /\ next'[n] = IF n = at THEN succ ELSE next[n]
        BY <3>3, <3>6 DEF InList, Listed
      <4>3. ASSUME NEW n \in InList' PROVE next'[n] \in Listed' \cup {None}
        <5>1. CASE n = at
          BY <3>2, <3>5, <4>2, <5>1 DEF Listed
        <5>2. CASE n # at
          <6>1. next'[n] = next[n] /\ next[n] \in Listed \cup {None}
            BY <2>4, <4>2, <5>2 DEF Apart, Chain
          <6>2. next[n] # c
            BY <4>1, <5>2, <6>1
          <6> QED BY <3>5, <6>1, <6>2
        <5> QED BY <5>1, <5>2
      <4>4. ASSUME NEW n \in InList', NEW d \in Listed', d > n PROVE d >= next'[n]
        <5>1. d \in Listed /\ d # c /\ d \in Nat /\ c \in Nat
          BY <3>5 DEF Listed
        <5>2. CASE n = at
          <6>1. d >= c
            BY <2>4, <3>1, <4>4, <5>1, <5>2 DEF Apart, Chain
          <6>2. d > c
            BY <5>1, <6>1
          <6>3. d >= next[c]
            BY <2>4, <3>1, <5>1, <6>2 DEF Apart, Chain, InList
          <6> QED BY <3>1, <4>2, <5>2, <6>3
        <5>3. CASE n # at
          BY <2>4, <4>2, <4>4, <5>1, <5>3 DEF Apart, Chain
        <5> QED BY <5>2, <5>3
      <4>5. ASSUME NEW n \in Nodes \ InList' PROVE next'[n] = None
        <5>1. n # at
          BY <3>1, <3>6, <4>5 DEF Listed
        <5>2. n = c \/ n \notin InList
          BY <3>6, <4>5
        <5> QED BY <2>4, <3>3, <4>5, <5>1, <5>2 DEF Apart, Chain
      <4> QED BY <4>3, <4>4, <4>5 DEF Chain
    <3>8. c \in Changing
      BY <1>1 DEF Changing
    <3>9. \A m \in Changing : m = c
      BY <2>4, <3>8 DEF Apart, Racing
    <3>10. PollerPlace'
      <4>1. poller # c
        BY <1>1, <2>4 DEF Apart, Racing
      <4> QED BY <2>1, <2>4, <3>6, <4>1 DEF Apart, Places, PollerPlace
    <3>11. StarterPlace'
      <4>1. starter.pc \notin {"find end", "link"}
        <5>1. starter.pc \in {"find end", "link"} => 0 \in Changing
          BY DEF Changing
        <5>2. 0 \notin Changing
          BY <3>9
        <5> QED BY <5>1, <5>2
      <4> QED BY <2>1, <4>1 DEF StarterPlace
    <3>12. \A d \in Channels : HandlerPlace(d)'
      <4>1. \A d \in Channels : d # c => handler[d].pc \notin {"find", "unlink"}
        BY <3>9 DEF Changing
      <4>2. \A d \in Channels : handler'[d].pc \notin {"find", "unlink"}
        BY <2>2, <3>4, <4>1
      <4> QED BY <4>2 DEF HandlerPlace
    <3> QED BY <2>1, <2>4, <3>7, <3>10, <3>11, <3>12 DEF Apart, Places
  <2> QED BY <2>3, <2>4
<1> QED BY <1>2, <1>3

(* and frees its data. *)
LEMMA FreeKept ==
  ASSUME KeptInv, NEW c \in Channels, Free(c)
  PROVE  /\ \A d \in Channels : Asked(d)'
         /\ Apart => Apart' \/ Racing'
<1> DEFINE h == [Waiting EXCEPT !.pc = "gone"]
<1>1. /\ handler \in [Channels -> HandlerStates] /\ chan \in [Channels -> ChannelStates]
      /\ handler[c].pc = "free" /\ guest[c] = "closing"
  BY DEF KeptInv, ListInv, MessageTypeOK, HandlerStates, ChannelStates, Free, Handler, Asked
<1>2. /\ handler' = [handler EXCEPT ![c] = h]
      /\ chan' = [chan EXCEPT ![c].freed = TRUE]
      /\ UNCHANGED <<next, guest, starter, poller, died>>
  BY DEF Free, HandlerIs
<1>3. h.pc = "gone"
  OBVIOUS
<1> HIDE DEF h
<1>4. \A d \in Channels : /\ chan'[d].impulse => chan[d].impulse
                          /\ chan'[d].freed => chan[d].freed \/ (d = c /\ h.pc = "gone")
  BY <1>1, <1>2, <1>3 DEF ChannelStates
<1>5. \A d \in Channels : Asked(d)'
  BY <1>1, <1>2, <1>3, <1>4, HandlerAsked
<1>6. Apart => Apart' \/ Racing'
  BY <1>1, <1>2, <1>3, HandlerApart
<1> QED BY <1>5, <1>6

(* The steps together. *)
LEMMA KeptStep ==
  ASSUME KeptInv, Step, UNCHANGED asleep, raced' = (raced \/ Racing')
  PROVE  KeptInv'
<1>1. ListInv'
  BY StepInv DEF KeptInv
<1>3. /\ \A d \in Channels : Asked(d)'
      /\ Apart /\ ~Racing' => Apart'
  <2>1. ASSUME NEW c \in Channels, HandlerStep(c)
        PROVE  /\ \A d \in Channels : Asked(d)'
               /\ Apart /\ ~Racing' => Apart'
    BY <2>1, CalledKept, FindKept, UnlinkKept, FreeKept DEF HandlerStep
  <2>2. ASSUME StarterStep
        PROVE  /\ \A d \in Channels : Asked(d)'
               /\ Apart /\ ~Racing' => Apart'
    BY <2>2, StarterAsked, TakeKept, FindEndKept, LinkKept, StartedKept DEF StarterStep
  <2> QED BY <2>1, <2>2, LispKept, PollKept DEF Step
<1>4. raced \in BOOLEAN
  BY DEF KeptInv, ListInv, MessageTypeOK
<1>5. raced' \/ Apart'
  BY <1>3, <1>4 DEF KeptInv
<1> QED BY <1>1, <1>3, <1>5 DEF KeptInv

(* A handler's thread that falls asleep or wakes changes nothing of it. *)
LEMMA KeptQuiet ==
  ASSUME KeptInv, UNCHANGED threads, asleep' \subseteq Channels,
         raced' = raced \/ raced' = (raced \/ Racing')
  PROVE  KeptInv'
<1>1. ListInv'
  BY QuietStep DEF KeptInv
<1>2. \A d \in Channels : Asked(d)'
  BY DEF threads, KeptInv, Asked
<1>3. Listed' = Listed /\ InList' = InList
  BY DEF threads, Listed, InList
<1>4. Apart => Apart'
  BY <1>3, PlacesKept, ChainKept DEF threads, Apart, Places, Racing, Changing
<1>5. raced \in BOOLEAN /\ (raced' \/ raced' = raced)
  BY DEF Racing, KeptInv, ListInv, MessageTypeOK
<1> QED BY <1>1, <1>2, <1>4, <1>5 DEF KeptInv

(* While no two threads are in the list at once it holds every channel     *)
(* Lisp may use ("Poll all active message channels",                       *)
(* message_channels.c:57), none whose data UnthreadMessageChannel's caller *)
(* has freed, and nobody follows freed data; its links always lead on.     *)
THEOREM ListKept == Spec => []ListIntact
<1>1. KeptInv /\ [Next]_vars => KeptInv'
  <2>1. SUFFICES ASSUME KeptInv, [Next]_vars PROVE KeptInv'
    OBVIOUS
  <2>2. CASE Step /\ UNCHANGED asleep /\ raced' = (raced \/ Racing')
    BY <2>1, <2>2, KeptStep
  <2>3. CASE Wait /\ UNCHANGED threads /\ raced' = (raced \/ Racing')
    BY <2>1, <2>3, WaitAsleep, KeptQuiet DEF KeptInv, ListInv
  <2>4. CASE UNCHANGED vars
    BY <2>1, <2>4, KeptQuiet DEF vars, KeptInv, ListInv, MessageTypeOK
  <2> QED BY <2>1, <2>2, <2>3, <2>4 DEF Next
<1>2. QED BY KeptInit, <1>1, KeptIntact, PTL DEF Spec

==============================================================================
