----------------------------- MODULE DiskChannel -----------------------------
(***************************************************************************)
(* One disk channel (life-support/disks.c) on top of the signal machinery  *)
(* of Signals: the guest's commands and the statuses it gets back, DiskLife*)
(* running in the channel's handler thread, AttachDiskChannel and Detach-  *)
(* DiskChannel on the emulator thread, and the reset of the channel by the *)
(* polling thread (ProcessResetRequest, ResetCommArea, ResetDiskChannel).  *)
(*                                                                         *)
(* The two EmbQueues are Rings: DiskLife's EmbQueueTakeWord and EmbQueue-  *)
(* PutWord and the reset are separate loads and stores of their indexes,   *)
(* since nothing keeps a reset out of a take or a put.  Their elements are *)
(* numbered in the order the guest puts them.  inhibitDisk has no writer   *)
(* in the program and is left FALSE.                                       *)
(***************************************************************************)
EXTENDS Signals, Ring

CONSTANTS Disk,          \* the channel
          Cmds,          \* commands the guest uses
          ReadOnly,      \* flags.read_only
          GuestCreated,  \* the channel is above the host buffer: Lisp made it
          CommandSpace, StatusSpace,          \* room in the two queues
          MaxCommands, MaxAttaches, MaxResets \* bounds on the guest

ASSUME DiskAssumption ==
    /\ NSignals = 1 /\ Channel = {Disk}
    /\ Cmds \subseteq {"read", "write", "reset", "init", "other"}
    /\ ReadOnly \in BOOLEAN /\ GuestCreated \in BOOLEAN
    /\ {CommandSpace, StatusSpace, MaxCommands, MaxAttaches} \subseteq Nat \ {0}
    /\ MaxResets \in Nat

Handler == 0  \* the signal of the only channel

VARIABLES
  command_queue, status_queue, \* Rings
  issued, received,    \* numbers of the last command put and of the last status taken
  state,               \* HostState: which DiskChannelState the channel has, 0 for none
  open, error_pending, \* of each DiskChannelState: fd # -1, error_pending
  linked,              \* the channel is in channel_table
  aPC,                 \* place in AttachDiskChannel
  dPC, dState, dCommand, \* place in DiskLife, its diskState, the command it holds
  dStatus,             \* the status DiskLife is about to return
  dIndex,              \* the index EmbQueueTakeWord or EmbQueuePutWord has loaded
  reset_request, rPC,  \* a Lisp reset is asked for; place in ResetDiskChannel
  resets,              \* history: resets asked for
  torn,                \* history: a reset overlapped a take or a put of the same queue
  log                  \* history: outcomes and channel resets, in order of time

signals == <<masks, signalLock, table, emulator, polling, handlers, history>>
queues  == <<command_queue, status_queue, issued, received>>
states  == <<state, open, error_pending, linked, aPC>>
life    == <<dPC, dState, dCommand, dStatus, dIndex>>
reset   == <<reset_request, rPC, resets>>
diskVars == <<signals, queues, states, life, reset, torn, log>>

States == 1 .. MaxAttaches
Status == {"won", "abort", "erofs", "enxio", "eio"}
None == [id |-> 0, cmd |-> "none"]        \* 0 in a slot of the command queue
NoStatus == [id |-> 0, status |-> "none"] \* and of the status queue

DiskInit ==
    /\ Init
    /\ command_queue = NewQueue(CommandSpace, None)
    /\ status_queue = NewQueue(StatusSpace, NoStatus)
    /\ issued = 0 /\ received = 0
    /\ state = 0 /\ linked = FALSE /\ aPC = "idle"
    /\ open = [g \in States |-> FALSE]
    /\ error_pending = [g \in States |-> FALSE]
    /\ dPC = "start" /\ dState = 0 /\ dCommand = None /\ dStatus = "none"
    /\ dIndex = 0
    /\ reset_request = FALSE /\ rPC = "none" /\ resets = 0
    /\ torn = FALSE /\ log = <<>>

-----------------------------------------------------------------------------
(* The guest (its code is external) and the coprocessor calls it makes.    *)
(* All run on the emulator thread, between two calls, and the guest waits  *)
(* for a reset that it asked for.                                          *)

AtGuest == ePC = "run" /\ aPC = "idle" /\ ~reset_request

(* Put a command; if the queue had been empty, signal it.                  *)
PutCommand(cmd) ==
    /\ AtGuest
    /\ state # 0 /\ issued < MaxCommands
    /\ EmbQueueSpace(command_queue) > 0
    /\ command_queue' = Put(command_queue, [id |-> issued + 1, cmd |-> cmd])
    /\ issued' = issued + 1
    /\ IF EmbQueueFilled(command_queue) = 0 /\ queueSignal[Disk] # -1
       THEN GuestRaise(Disk) ELSE UNCHANGED signals
    /\ UNCHANGED <<status_queue, received, states, life, reset, log>>

(* Take a status; a pointer to nothing is none. *)
TakeStatus ==
    /\ AtGuest
    /\ EmbQueueFilled(status_queue) > 0
    /\ received' = IF First(status_queue) = NoStatus THEN received
                   ELSE First(status_queue).id
    /\ status_queue' = Take(status_queue)
    /\ UNCHANGED <<signals, command_queue, issued, states, life, reset, log>>

(* Lisp starts and asks for a complete reset. *)
RequestReset ==
    /\ AtGuest
    /\ resets < MaxResets
    /\ reset_request' = TRUE /\ resets' = resets + 1
    /\ UNCHANGED <<signals, queues, states, life, rPC, log>>

(* AttachDiskChannel: a fresh DiskChannelState becomes the channel's ...   *)
AttachState ==
    /\ AtGuest
    /\ queueSignal[Disk] = -1 /\ ~linked /\ state < MaxAttaches
    /\ state' = state + 1
    /\ aPC' = "opening"
    /\ UNCHANGED <<signals, queues, open, error_pending, linked, life, reset, log>>

(* ... its file cannot be opened, which ends the call, ...                 *)
AttachFails ==
    /\ aPC = "opening"
    /\ aPC' = "idle"
    /\ UNCHANGED <<signals, queues, state, open, error_pending, linked, life, reset,
                   log>>

(* ... or is open: the channel is linked and its handler installed.        *)
AttachOpen ==
    /\ aPC = "opening"
    /\ InstallFunction(Disk)
    /\ open' = [open EXCEPT ![state] = TRUE]
    /\ linked' = TRUE /\ aPC' = "idle"
    /\ UNCHANGED <<queues, state, error_pending, life, reset, log>>

(* DetachDiskChannel: remove the handler, ... *)
DetachRemove ==
    /\ AtGuest
    /\ RemoveFunction(Disk)
    /\ UNCHANGED <<queues, states, life, reset, log>>

(* The end of both calls stores the queue's signal; DetachDiskChannel      *)
(* stores -1, then closes the file and unlinks the channel, which nothing  *)
(* tells apart from one step.                                              *)
AttachDetachEnd ==
    /\ StoreQueueSignal
    /\ IF eSignal = -1
       THEN /\ open' = [open EXCEPT ![state] = FALSE]
            /\ linked' = FALSE
       ELSE UNCHANGED <<open, linked>>
    /\ UNCHANGED <<queues, state, error_pending, aPC, life, reset, log>>

(* The steps of Signals that the channel's own state takes no part in.     *)
EmulatorSignals ==
    /\ \/ GuestStore \/ SendInterruptToLifeSupport
       \/ InstallArgument \/ RemoveArgument
    /\ UNCHANGED <<queues, states, life, reset, log>>

HandlerSignals ==
    /\ \/ HandlerCheck(Handler) \/ HandlerBlock(Handler) \/ HandlerClear(Handler)
       \/ HandlerLoadFunction(Handler) \/ HandlerLoadArgument(Handler)
       \/ SignalLater(Handler)
    /\ UNCHANGED <<queues, states, life, reset, log>>

-----------------------------------------------------------------------------
(* DiskLife, called in the handler thread with the channel.  A call with   *)
(* the NULL argument ends the program.                                     *)

InDiskLife == /\ hPC[Handler] = "call" /\ hFunction[Handler] = "real"
              /\ hArgument[Handler] = Disk

(* NullSignalHandler. *)
NullSignalHandler ==
    /\ hFunction[Handler] = "null"
    /\ HandlerReturn(Handler)
    /\ UNCHANGED <<queues, states, life, reset, log>>

DiskLifeStart ==
    /\ InDiskLife /\ dPC = "start"
    /\ dState' = state
    /\ dPC' = "loop"
    /\ UNCHANGED <<signals, queues, states, dCommand, dStatus, dIndex, reset, log>>

(* No more commands: return. *)
DiskLifeReturn ==
    /\ InDiskLife /\ dPC = "loop"
    /\ EmbQueueFilled(command_queue) = 0
    /\ HandlerReturn(Handler)
    /\ dPC' = "start" /\ dState' = 0
    /\ UNCHANGED <<queues, states, dCommand, dStatus, dIndex, reset, log>>

DiskLifeFilled ==
    /\ InDiskLife /\ dPC = "loop"
    /\ EmbQueueFilled(command_queue) # 0
    /\ dPC' = "space"
    /\ UNCHANGED <<signals, queues, states, dState, dCommand, dStatus, dIndex, reset,
                   log>>

(* Mutant: the call gives up without asking to be invoked again. *)
DiskLifeGivesUp ==
    /\ InDiskLife /\ dPC = "space"
    /\ EmbQueueSpace(status_queue) = 0
    /\ HandlerReturn(Handler)
    /\ dPC' = "start" /\ dState' = 0
    /\ UNCHANGED <<queues, states, dCommand, dStatus, dIndex, reset, log>>

(* No room for a status: SignalLater, and return. *)
DiskLifeDefer ==
    /\ InDiskLife /\ dPC = "space"
    /\ EmbQueueSpace(status_queue) = 0
    /\ HandlerDefer(Handler)
    /\ dPC' = "start" /\ dState' = 0
    /\ UNCHANGED <<queues, states, dCommand, dStatus, dIndex, reset, log>>

(* Mutant: the room for the status is not looked at. *)
DiskLifeTestCommandOnly ==
    /\ InDiskLife /\ dPC = "space"
    /\ dPC' = "take"
    /\ UNCHANGED <<signals, queues, states, dState, dCommand, dStatus, dIndex, reset,
                   log>>

DiskLifeSpace ==
    /\ InDiskLife /\ dPC = "space"
    /\ EmbQueueSpace(status_queue) # 0
    /\ dPC' = "take"
    /\ UNCHANGED <<signals, queues, states, dState, dCommand, dStatus, dIndex, reset,
                   log>>

(* EmbQueueTakeWord: load the put index, ...                               *)
TakeLoadPut ==
    /\ InDiskLife /\ dPC = "take"
    /\ dIndex' = command_queue.put_index
    /\ dPC' = "compare"
    /\ UNCHANGED <<signals, queues, states, dState, dCommand, dStatus, reset, log>>

(* ... load the take index and answer 0 if they are equal: a reset has     *)
(* emptied the queue, ...                                                  *)
TakeCompare ==
    /\ InDiskLife /\ dPC = "compare"
    /\ IF dIndex = command_queue.take_index
       THEN dPC' = "loop" /\ dIndex' = 0
       ELSE dPC' = "copy" /\ dIndex' = command_queue.take_index
    /\ UNCHANGED <<signals, queues, states, dState, dCommand, dStatus, reset, log>>

(* ... copy the element ... *)
TakeCopy ==
    /\ InDiskLife /\ dPC = "copy"
    /\ dCommand' = command_queue.element[dIndex]
    /\ dPC' = "taken"
    /\ UNCHANGED <<signals, queues, states, dState, dStatus, dIndex, reset, log>>

(* Mutant: the increment of the take index is lost. *)
TakeStoreKeeps ==
    /\ InDiskLife /\ dPC = "taken"
    /\ dIndex' = 0
    /\ dPC' = IF dCommand = None THEN "loop" ELSE "switch"
    /\ UNCHANGED <<signals, queues, states, dState, dCommand, dStatus, reset, log>>

(* ... and store the incremented take index.  DiskLife skips a 0.          *)
TakeStore ==
    /\ InDiskLife /\ dPC = "taken"
    /\ command_queue' = StoreTakeIndex(command_queue, After(command_queue, dIndex))
    /\ dIndex' = 0
    /\ dPC' = IF dCommand = None THEN "loop" ELSE "switch"
    /\ UNCHANGED <<signals, status_queue, issued, received, states, dState, dCommand,
                   dStatus, reset, log>>

Outcome(status) == [cmd |-> dCommand.cmd, status |-> status, state |-> dState]

(* The switch on the command: what is answered without touching the file,  *)
(* or "io" when DoDiskIO has to find out.                                  *)
Verdict ==
    CASE dCommand.cmd \in {"reset", "init"} -> "won"
      [] dCommand.cmd = "other"             -> "enxio"
      [] dCommand.cmd \in {"read", "write"} ->
            IF dCommand.cmd = "write" /\ ReadOnly THEN "erofs"
            ELSE IF error_pending[dState] THEN "abort"
            ELSE IF open[dState] THEN "io" ELSE "enxio"

DiskLifeSwitch ==
    /\ InDiskLife /\ dPC = "switch"
    /\ IF Verdict = "io"
       THEN dPC' = "io" /\ UNCHANGED <<dStatus, error_pending, log>>
       ELSE /\ dPC' = "put" /\ dStatus' = Verdict
            /\ log' = Append(log, Outcome(Verdict))
            /\ error_pending' = [error_pending EXCEPT ![dState] =
                                   @ /\ dCommand.cmd \notin {"reset", "init"}]
    /\ UNCHANGED <<signals, queues, state, open, linked, aPC, dState, dCommand, dIndex,
                   reset>>

(* DoDiskIO succeeds, or fails: out of the partition's bounds, an error of *)
(* the host, a short transfer, or a file closed under it.                  *)
Transfer(status, pending) ==
    /\ InDiskLife /\ dPC = "io"
    /\ dPC' = "put" /\ dStatus' = status
    /\ log' = Append(log, Outcome(status))
    /\ error_pending' = [error_pending EXCEPT ![dState] = pending]
    /\ UNCHANGED <<signals, queues, state, open, linked, aPC, dState, dCommand, dIndex,
                   reset>>

TransferWins ==
    /\ dPC = "io" /\ open[dState]
    /\ Transfer("won", error_pending[dState])

(* Mutant: a failed transfer leaves the channel as it was. *)
TransferFailsQuietly == Transfer("eio", error_pending[dState])

TransferFails == Transfer("eio", TRUE)

(* EmbQueuePutWord on the status queue: load the put index and fill the    *)
(* slot, ...                                                               *)
PutFill ==
    /\ InDiskLife /\ dPC = "put"
    /\ status_queue' = Filling(status_queue, [id |-> dCommand.id, status |-> dStatus])
    /\ dIndex' = status_queue.put_index
    /\ dPC' = "full"
    /\ UNCHANGED <<signals, command_queue, issued, received, states, dState, dCommand,
                   dStatus, reset, log>>

(* ... wait while the queue is full ... *)
PutWait ==
    /\ InDiskLife /\ dPC = "full"
    /\ After(status_queue, dIndex) # status_queue.take_index
    /\ dPC' = "store"
    /\ UNCHANGED <<signals, queues, states, dState, dCommand, dStatus, dIndex, reset,
                   log>>

(* ... and store the incremented put index. *)
PutStore ==
    /\ InDiskLife /\ dPC = "store"
    /\ status_queue' = StorePutIndex(status_queue, After(status_queue, dIndex))
    /\ dIndex' = 0
    /\ dPC' = "loop" /\ dCommand' = None /\ dStatus' = "none"
    /\ UNCHANGED <<signals, command_queue, issued, received, states, dState, reset,
                   log>>

DiskLife ==
    \/ NullSignalHandler
    \/ DiskLifeStart \/ DiskLifeReturn \/ DiskLifeFilled \/ DiskLifeDefer \/ DiskLifeSpace
    \/ TakeLoadPut \/ TakeCompare \/ TakeCopy \/ TakeStore
    \/ DiskLifeSwitch \/ TransferWins \/ TransferFails
    \/ PutFill \/ PutWait \/ PutStore

-----------------------------------------------------------------------------
(* The polling thread *)

(* The tick of IvoryLifePolling when no reset is asked for. *)
PollSignals ==
    /\ (~reset_request /\ PollTick) \/ PollStore
    /\ UNCHANGED <<queues, states, life, reset, log>>

(* Otherwise ProcessResetRequest runs, with signalLock held, and resets a  *)
(* linked channel: ResetIncomingQueue stores zeroes in the indexes of the  *)
(* command queue, ...                                                      *)
ResetCommandPut ==
    /\ reset_request /\ rPC = "none" /\ pPC = "sleep"
    /\ signalLock = NULL
    /\ IF linked
       THEN /\ signalLock' = Polling
            /\ command_queue' = StorePutIndex(command_queue, 0)
            /\ rPC' = "command"
            /\ UNCHANGED reset_request
       ELSE /\ reset_request' = FALSE
            /\ UNCHANGED <<signalLock, command_queue, rPC>>
    /\ UNCHANGED <<masks, table, emulator, polling, handlers, history, status_queue,
                   issued, received, states, life, resets, log>>

ResetCommandTake ==
    /\ rPC = "command"
    /\ command_queue' = StoreTakeIndex(command_queue, 0)
    /\ rPC' = "remove"
    /\ UNCHANGED <<signals, status_queue, issued, received, states, life,
                   reset_request, resets, log>>

(* ... and, of a queue that Lisp created, removes the signal handler:      *)
(* RemoveSignalHandler locks signalLock, which is not recursive, again.    *)
(* Then ResetOutgoingQueue does the same to the status queue, ...          *)
ResetStatusPut ==
    /\ rPC = "remove"
    /\ GuestCreated => signalLock = NULL
    /\ status_queue' = StorePutIndex(status_queue, 0)
    /\ rPC' = "status"
    /\ UNCHANGED <<signals, command_queue, issued, received, states, life,
                   reset_request, resets, log>>

ResetStatusTake ==
    /\ rPC = "status"
    /\ status_queue' = StoreTakeIndex(status_queue, 0)
    /\ rPC' = "error"
    /\ UNCHANGED <<signals, command_queue, issued, received, states, life,
                   reset_request, resets, log>>

(* ... the error is cleared and a file that Lisp attached is closed.       *)
ResetError ==
    /\ rPC = "error"
    /\ error_pending' = [error_pending EXCEPT ![state] = FALSE]
    /\ open' = [open EXCEPT ![state] = @ /\ ~GuestCreated]
    /\ log' = Append(log, [cmd |-> "reset", status |-> "won", state |-> state])
    /\ reset_request' = FALSE /\ rPC' = "none"
    /\ signalLock' = NULL
    /\ UNCHANGED <<masks, table, emulator, polling, handlers, history, queues, state,
                   linked, aPC, life, resets>>

PollDisk ==
    \/ PollSignals
    \/ ResetCommandPut \/ ResetCommandTake \/ ResetStatusPut \/ ResetStatusTake
    \/ ResetError

-----------------------------------------------------------------------------
(* DiskLife is between the first load and the store of a take or a put and *)
(* the reset between its two stores of the same queue's indexes.           *)
Overlap ==
    \/ rPC = "command" /\ dPC \in {"compare", "copy", "taken"}
    \/ rPC = "status" /\ dPC \in {"full", "store"}

DiskStep ==
    \/ \E cmd \in Cmds : PutCommand(cmd)
    \/ TakeStatus \/ RequestReset
    \/ AttachState \/ AttachFails \/ AttachOpen \/ DetachRemove \/ AttachDetachEnd
    \/ EmulatorSignals \/ HandlerSignals \/ DiskLife \/ PollDisk

(* A step, with `torn' brought up to date. *)
Watched(step) == step /\ torn' = (torn \/ Overlap')

DiskNext == Watched(DiskStep)

DiskSpec == DiskInit /\ [][DiskNext]_diskVars

(* Every thread is scheduled and gets signalLock in the end; the guest     *)
(* takes its statuses.                                                     *)
DiskFairness ==
    /\ WF_diskVars(Watched(AttachFails \/ AttachOpen \/ EmulatorSignals \/ AttachDetachEnd))
    /\ SF_diskVars(Watched(HandlerSignals \/ DiskLife))
    /\ SF_diskVars(Watched(PollDisk))
    /\ SF_diskVars(Watched(TakeStatus))

DiskFairSpec == DiskSpec /\ DiskFairness
-----------------------------------------------------------------------------
(* Properties *)

Command == [id : 1 .. MaxCommands, cmd : Cmds]
Answer  == [id : 1 .. MaxCommands, status : Status]

(* Every variable has its type. *)
DiskTypeOK ==
    /\ TypeOK
    /\ command_queue \in RingOf(CommandSpace, Command \cup {None})
    /\ status_queue \in RingOf(StatusSpace, Answer \cup {NoStatus})
    /\ received \in 0 .. issued /\ issued \in 0 .. MaxCommands
    /\ state \in 0 .. MaxAttaches /\ linked \in BOOLEAN
    /\ open \in [States -> BOOLEAN] /\ error_pending \in [States -> BOOLEAN]
    /\ aPC \in {"idle", "opening"}
    /\ dPC \in {"start", "loop", "space", "take", "compare", "copy", "taken", "switch",
                "io", "put", "full", "store"}
    /\ dState \in 0 .. state /\ dCommand \in Command \cup {None}
    /\ dStatus \in Status \cup {"none"} /\ dIndex \in Nat
    /\ reset_request \in BOOLEAN /\ rPC \in {"none", "command", "remove", "status", "error"}
    /\ resets \in 0 .. MaxResets /\ torn \in BOOLEAN

(* The contents of the queues, oldest first; none once a reset has begun   *)
(* on them.                                                                *)
commands == IF rPC = "command" THEN <<>> ELSE Elements(command_queue)
statuses == IF rPC = "status" THEN <<>> ELSE Elements(status_queue)

Holding == dPC \in {"switch", "io", "put", "full", "store"}
InHand == IF Holding THEN <<dCommand>> ELSE <<>>

(* The guest gets its statuses in the order of its commands, each once,    *)
(* and, as long as nothing was reset, none is missing: whatever detaching, *)
(* attaching again and deferring does, the commands on their way are the   *)
(* ones put and not yet answered.  A reset that overlaps a take or a put   *)
(* of DiskLife's is the exception: the store of the index that ends the    *)
(* take or the put then brings back old elements.                          *)
AnsweredInOrder ==
    LET onTheWay == statuses \o InHand \o commands
    IN  \/ torn
        \/ /\ resets = 0
           /\ Len(onTheWay) = issued - received
           /\ \A i \in 1 .. Len(onTheWay) : onTheWay[i].id = received + i
        \/ /\ resets # 0
           /\ \A i \in 1 .. Len(onTheWay) :
                /\ onTheWay[i].id \in received + 1 .. issued
                /\ i > 1 => onTheWay[i - 1].id < onTheWay[i].id

(* DiskLife tests the status queue for space before it takes a command, so *)
(* that the loop of its EmbQueuePutWord never waits: no other call of      *)
(* DiskLife, old or new, has used the room meanwhile.  A put that a reset  *)
(* overlaps can find the take index, which is zero then, equal to its own  *)
(* next index: it waits until the guest takes a status, which it cannot    *)
(* while both indexes are zero.                                            *)
StatusPutNeverWaits ==
    dPC = "full" => torn \/ After(status_queue, dIndex) # status_queue.take_index

(* "Flush until reset": after a transfer of an attachment failed, no       *)
(* transfer of the same attachment wins until the guest's reset command or *)
(* a channel reset comes between.                                          *)
FlushUntilReset ==
    \A i, j \in DOMAIN log :
        /\ i < j /\ log[i].state = log[j].state
        /\ log[i].status = "eio"
        /\ log[j].status = "won" /\ log[j].cmd \in {"read", "write"}
        => \E k \in i .. j : log[k].cmd \in {"reset", "init"}

(* "Can't do I/O now -- Ask to be invoked again on the next clock tick": a *)
(* command that an invocation of DiskLife has seen is answered, however    *)
(* often DiskLife has to defer itself, unless the channel is detached or   *)
(* reset first, or was reset during a take or a put.  (Not so before       *)
(* AttachDiskChannel has stored the queue's signal: DiskLife then gives    *)
(* SignalLater the number -1.)                                             *)
SeenIsAnswered ==
    \A n \in 1 .. MaxCommands :
        (InDiskLife /\ queueSignal[Disk] # -1 /\ \E i \in DOMAIN commands : commands[i].id = n)
            ~> (received >= n \/ ~linked \/ reset_request \/ torn)

(* A complete reset of the communications area closes the file of a disk   *)
(* channel that Lisp created and is over some time.                        *)
ResetCompletes == reset_request ~> ~reset_request
=============================================================================
