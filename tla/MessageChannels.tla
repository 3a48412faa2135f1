--------------------------- MODULE MessageChannels ---------------------------
(***************************************************************************)
(* life-support/message_channels.c: starting message channels, the list of *)
(* active ones that the polling thread walks for impulses, and shutting    *)
(* one down (SendMBINBuffers in environment/spy.c).                        *)
(*                                                                         *)
(* The handler of the command channel, the handler of each MBIN channel    *)
(* and the polling thread share the list without a lock: a step is a       *)
(* statement that reads or writes a link.  Channels are numbered in the    *)
(* order Lisp starts them; 0 is the command channel, where the list begins.*)
(* What MBIN channels carry is MBINChannel.tla's.                          *)
(***************************************************************************)
EXTENDS Naturals, Sequences

CONSTANT NChannels   \* MBIN channels Lisp starts, one after the other

ASSUME MessageChannelsAssumption == NChannels \in Nat \ {0}

Channels == 1 .. NChannels
None     == NChannels + 1    \* NULL
Nodes    == {0} \cup Channels

VARIABLES next,      \* nextActiveChannel of each channel's data
          active,    \* activeMBINChannel
          chan,      \* each MBIN channel: impulse, signal, handler installed, data freed
          guest,     \* what Lisp has asked of each
          handler,   \* the thread of each MBIN channel's signal
          commands,  \* StartMBIN commands not taken
          starter,   \* the thread of the command channel's signal
          poller,    \* the channel the polling thread looks at
          asleep,    \* the MBIN channels whose thread is in pthread_cond_wait
          died,      \* freed memory was used
          raced      \* two threads were in the list at once (history)

threads == <<next, active, chan, guest, handler, commands, starter, poller, died>>
vars    == <<threads, asleep, raced>>

MessageTypeOK ==
    /\ next \in [Nodes -> Channels \cup {None}]
    /\ active \in Channels \cup {None}
    /\ chan \in [Channels -> [impulse : BOOLEAN, signal : BOOLEAN,
                              installed : BOOLEAN, freed : BOOLEAN]]
    /\ guest \in [Channels -> {"none", "asked", "started", "closing"}]
    /\ handler \in [Channels -> [pc : {"wait", "deactivate", "reset", "clear", "find", "unlink",
                                      "free", "gone"},
                                at : Nodes, succ : Channels \cup {None}]]
    /\ commands \in Seq(Channels)
    /\ starter \in [pc : {"wait", "find end", "link", "activate", "install", "answer"},
                   for : Nodes, at : Nodes]
    /\ starter.pc # "wait" => starter.for \in Channels
    /\ poller \in Nodes \cup {None}
    /\ asleep \subseteq Channels
    /\ died \in BOOLEAN /\ raced \in BOOLEAN

Waiting == [pc |-> "wait", at |-> 0, succ |-> None]

Init ==
    /\ next = [n \in Nodes |-> None]
    /\ active = None
    /\ chan = [c \in Channels |-> [impulse |-> FALSE, signal |-> FALSE,
                                   installed |-> FALSE, freed |-> FALSE]]
    /\ guest = [c \in Channels |-> "none"]
    /\ handler = [c \in Channels |-> Waiting]
    /\ commands = <<>>
    /\ starter = [pc |-> "wait", for |-> 0, at |-> 0]
    /\ poller = None
    /\ asleep = {}
    /\ died = FALSE
    /\ raced = FALSE

(* Following a link of data that was freed ends the process. *)
Freed(n) == n \in Channels /\ chan[n].freed
Die(n) ==
    /\ Freed(n)
    /\ died' = TRUE
    /\ UNCHANGED <<next, active, chan, guest, handler, commands, starter, poller>>

(***************************************************************************)
(* Lisp starts a channel when it has asked the one before to shut down: it *)
(* is told of a start, but not of the end of a shut down.                  *)
(***************************************************************************)
Start(c) ==
    /\ ~died
    /\ guest[c] = "none" /\ (c > 1 => guest[c - 1] = "closing")
    /\ guest' = [guest EXCEPT ![c] = "asked"]
    /\ commands' = Append(commands, c)
    /\ UNCHANGED <<next, active, chan, handler, starter, poller, died>>

ShutDown(c) ==
    /\ ~died
    /\ guest[c] = "started"
    /\ guest' = [guest EXCEPT ![c] = "closing"]
    /\ chan' = [chan EXCEPT ![c].impulse = TRUE]
    /\ UNCHANGED <<next, active, handler, commands, starter, poller, died>>

(* An acknowledgement put on the channel's queue. *)
SendSignal(c) ==
    /\ ~died
    /\ guest[c] = "started" /\ chan[c].installed
    /\ chan' = [chan EXCEPT ![c].signal = TRUE]
    /\ UNCHANGED <<next, active, guest, handler, commands, starter, poller, died>>

(***************************************************************************)
(* ExecuteGuestCommands: StartMBIN, with ThreadActiveMessageChannel.       *)
(***************************************************************************)
Starter(pc) == ~died /\ starter.pc = pc
StarterIs(s) ==
    /\ starter' = s
    /\ UNCHANGED <<handler, poller, died>>

TakeCommand ==
    /\ Starter("wait") /\ commands # <<>>
    /\ commands' = Tail(commands)
    /\ next' = [next EXCEPT ![Head(commands)] = None]
    /\ StarterIs([pc |-> "find end", for |-> Head(commands), at |-> 0])
    /\ UNCHANGED <<active, chan, guest>>
FindEnd ==
    /\ Starter("find end")
    /\ \/ Die(starter.at)
       \/ /\ ~Freed(starter.at)
          /\ StarterIs(IF next[starter.at] = None THEN [starter EXCEPT !.pc = "link"]
                                                  ELSE [starter EXCEPT !.at = next[starter.at]])
          /\ UNCHANGED <<commands, next, active, chan, guest>>
Link ==
    /\ Starter("link")
    /\ \/ Die(starter.at)
       \/ /\ ~Freed(starter.at)
          /\ next' = [next EXCEPT ![starter.at] = starter.for]
          /\ StarterIs([starter EXCEPT !.pc = "activate"])
          /\ UNCHANGED <<commands, active, chan, guest>>
Activate ==
    /\ Starter("activate")
    /\ active' = starter.for
    /\ StarterIs([starter EXCEPT !.pc = "install"])
    /\ UNCHANGED <<commands, next, chan, guest>>
Install ==
    /\ Starter("install")
    /\ chan' = [chan EXCEPT ![starter.for].installed = TRUE]
    /\ StarterIs([starter EXCEPT !.pc = "answer"])
    /\ UNCHANGED <<commands, next, active, guest>>
Answer ==
    /\ Starter("answer")
    /\ guest' = [guest EXCEPT ![starter.for] = "started"]
    /\ StarterIs([pc |-> "wait", for |-> 0, at |-> 0])
    /\ UNCHANGED <<commands, next, active, chan>>

StarterStep == TakeCommand \/ FindEnd \/ Link \/ Activate \/ Install \/ Answer

(***************************************************************************)
(* PollMessageChannels.                                                    *)
(***************************************************************************)
PollerGoes(to) ==
    /\ poller' = to
    /\ UNCHANGED <<next, active, guest, handler, commands, starter, died>>

Poll == ~died /\ poller = None /\ PollerGoes(0) /\ UNCHANGED chan

(* Mutant: the impulse is only looked at before the signal has a handler. *)
PollUninstalled ==
    /\ ~died /\ poller # None
    /\ \/ Die(poller)
       \/ /\ ~Freed(poller)
          /\ chan' = IF poller \in Channels /\ chan[poller].impulse /\ ~chan[poller].installed
                     THEN [chan EXCEPT ![poller].signal = TRUE] ELSE chan
          /\ PollerGoes(next[poller])
PollChannel ==
    /\ ~died /\ poller # None
    /\ \/ Die(poller)
       \/ /\ ~Freed(poller)
          /\ chan' = IF poller \in Channels /\ chan[poller].impulse /\ chan[poller].installed
                     THEN [chan EXCEPT ![poller].signal = TRUE] ELSE chan
          /\ PollerGoes(next[poller])

(***************************************************************************)
(* SignalHandlerTopLevel waits for a broadcast when its bit is not set.    *)
(* PollMessageChannels makes none: those that come are of other signals,   *)
(* which Lisp sends or the polling thread raises again, and of no thread   *)
(* here.                                                                   *)
(***************************************************************************)
Handler(c, pc) == ~died /\ c \notin asleep /\ handler[c].pc = pc

Block(c) ==
    /\ Handler(c, "wait") /\ chan[c].installed /\ ~chan[c].signal
    /\ asleep' = asleep \cup {c}

Broadcast ==
    /\ ~died
    /\ asleep # {} /\ asleep' = {}

(***************************************************************************)
(* SendMBINBuffers given the impulse to shut down, with                    *)
(* UnthreadMessageChannel.                                                 *)
(***************************************************************************)
HandlerIs(c, h) ==
    /\ handler' = [handler EXCEPT ![c] = h]
    /\ UNCHANGED <<guest, commands, starter, poller, died>>
HandlerGoes(c, pc) == HandlerIs(c, [handler[c] EXCEPT !.pc = pc])

Signalled(c) ==
    /\ Handler(c, "wait") /\ chan[c].signal
    /\ chan' = [chan EXCEPT ![c].signal = FALSE]
    /\ HandlerGoes(c, IF chan[c].impulse THEN "deactivate" ELSE "wait")
    /\ UNCHANGED <<next, active>>

(* Whichever channel is active. *)
Deactivate(c) ==
    /\ Handler(c, "deactivate")
    /\ active' = None
    /\ HandlerGoes(c, "reset")
    /\ UNCHANGED <<next, chan>>

(* The queues are Lisp's: with the incoming one goes the handler. *)
ResetQueues(c) ==
    /\ Handler(c, "reset")
    /\ chan' = [chan EXCEPT ![c].installed = FALSE]
    /\ HandlerGoes(c, "clear")
    /\ UNCHANGED <<next, active>>

ClearImpulse(c) ==
    /\ Handler(c, "clear")
    /\ chan' = [chan EXCEPT ![c].impulse = FALSE]
    /\ HandlerGoes(c, "find")
    /\ UNCHANGED <<next, active>>

(* The successor is read, and written where c was linked from. *)
Find(c) ==
    /\ Handler(c, "find")
    /\ LET at == handler[c].at
       IN  \/ Die(at)
           \/ /\ ~Freed(at)
              /\ HandlerIs(c, CASE next[at] = c    -> [handler[c] EXCEPT !.pc = "unlink", !.succ = next[c]]
                                [] next[at] = None -> [handler[c] EXCEPT !.pc = "free"]
                                [] OTHER           -> [handler[c] EXCEPT !.at = next[at]])
              /\ UNCHANGED <<next, active, chan>>
(* Mutant: what follows c is not linked to what is before it. *)
UnlinkRest(c) ==
    /\ Handler(c, "unlink")
    /\ LET at == handler[c].at
       IN  \/ Die(at)
           \/ /\ ~Freed(at)
              /\ next' = [next EXCEPT ![at] = None, ![c] = None]
              /\ HandlerGoes(c, "free")
              /\ UNCHANGED <<active, chan>>
Unlink(c) ==
    /\ Handler(c, "unlink")
    /\ LET at == handler[c].at
       IN  \/ Die(at)
           \/ /\ ~Freed(at)
              /\ next' = [next EXCEPT ![at] = handler[c].succ, ![c] = None]
              /\ HandlerGoes(c, "free")
              /\ UNCHANGED <<active, chan>>
Free(c) ==
    /\ Handler(c, "free")
    /\ chan' = [chan EXCEPT ![c].freed = TRUE]
    /\ HandlerIs(c, [Waiting EXCEPT !.pc = "gone"])
    /\ UNCHANGED <<next, active>>

HandlerStep(c) ==
    Signalled(c) \/ Deactivate(c) \/ ResetQueues(c) \/ ClearImpulse(c) \/ Find(c) \/ Unlink(c)
    \/ Free(c)

(* Two threads change the list, or the polling thread is at a channel that *)
(* is being taken out.                                                     *)
Changing ==
    (IF starter.pc \in {"find end", "link"} THEN {0} ELSE {})
    \cup {c \in Channels : handler[c].pc \in {"find", "unlink"}}
Racing ==
    \/ \E m, n \in Changing : m # n
    \/ poller \in Channels /\ handler[poller].pc \in {"find", "unlink", "free"}

Step ==
    \/ \E c \in Channels : Start(c) \/ ShutDown(c) \/ SendSignal(c) \/ HandlerStep(c)
    \/ StarterStep \/ Poll \/ PollChannel

Wait == Broadcast \/ \E c \in Channels : Block(c)

Next ==
    /\ (Step /\ UNCHANGED asleep) \/ (Wait /\ UNCHANGED threads)
    /\ raced' = (raced \/ Racing')

(* Every thread that does not wait goes on.  That a broadcast comes is not *)
(* assumed, nor that the command channel's handler hears of a command.     *)
Fairness ==
    /\ WF_threads(FindEnd \/ Link \/ Activate \/ Install \/ Answer)
    /\ WF_threads(Poll \/ PollChannel)
    /\ \A c \in Channels : WF_threads(HandlerStep(c))

Spec == Init /\ [][Next]_vars /\ Fairness

(* Where a walk of the links comes by: what every set has that holds the   *)
(* command channel and, with each of its channels, the next.               *)
LeadsOn(S) == 0 \in S /\ \A n \in S : next[n] # None => next[n] \in S
Walked == {n \in Nodes : \A S \in SUBSET Nodes : LeadsOn(S) => n \in S}

(* Each link leads to a channel started later, so that no walk of the list *)
(* goes round: the polling thread walks it with signalLock held            *)
(* (message_channels.c:68, polling.c:170), whoever changes it meanwhile.   *)
Ordered == \A n \in Nodes : next[n] > n

(* The list's links lead on, and while no two threads are in it at once,   *)
(* it holds every channel Lisp may use ("Poll all active message channels",*)
(* message_channels.c:57) and none whose data is freed, and no freed data  *)
(* is followed.  Nothing in the code keeps the threads apart.              *)
ListIntact ==
    /\ Ordered
    /\ raced \/ /\ ~died
                /\ \A c \in Channels : guest[c] = "started" => c \in Walked
                /\ \A n \in Walked : ~Freed(n)

(* A channel to be shut down that no walk comes by, and whose handler was  *)
(* not told: it is not polled any more, as two threads met in the list.    *)
Lost(c) == guest[c] = "closing" /\ handler[c].pc = "wait" /\ c \notin Walked

(* Lisp's request to shut a channel down is served to the end (the impulse,*)
(* message_channels.c:74 and spy.c:482), unless the channel is lost to the *)
(* list, freed data was followed, or the channel's thread waits for ever:  *)
(* the poll that sets its bit does not wake it (message_channels.c:75), so *)
(* that it hears of the request with a broadcast for some other signal.    *)
ShutDownServed ==
    \A c \in Channels :
        guest[c] = "closing" ~> (chan[c].freed \/ died \/ Lost(c) \/ [](c \in asleep))
=============================================================================
