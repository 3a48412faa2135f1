# Virtual Lisp Machine: verification project

Specifications of the Virtual Lisp Machine (VLM), the C program that runs Symbolics
Open Genera: a Lisp machine emulator (`src/c-emulator`) and the host threads that serve
its devices (`src/life-support`). TLC checks the specifications on small instances,
and TLAPS proves theorems about all of them (the queue and its refinement, signals, disk and
network channels, the interval timer, frames, message channels, the MBIN protocol and the
data instructions) for every value of their constants.

1. [The system](#1-the-system): components, their state, how they interact
2. [The plan](#2-the-plan): modules, order, what composes what
3. [The modules](#3-the-modules): how each corresponds to the code, what it leaves out
4. [The runs](#4-the-runs): what each shows, bounds, fairness
5. [What the code does otherwise than it says](#5-findings)
6. [The proofs](#6-the-proofs)
7. [What is not modelled](#7-not-modelled)

## 1. The system

CMake builds one program, `genera_c`. Its **emulator thread** runs the Lisp machine's
instructions. Around it run the **Life Support** threads: a *polling* thread, an
*interval timer* thread, one *handler* thread for each of up to 32 guest-to-host
signals, a *receiver* for each network interface, and the X11 threads of console and
cold load. Lisp (the *guest*) and Life Support share the *communications area*
(`embed.h`), which holds the queues, the channels and the signal masks. The guest
reads and writes it with plain memory accesses, which no lock on the host orders.

"Guest" below means Lisp code, which is not in the repository. It is modelled from
how the code uses it (the map calls this external) and only as far as the interface.

| component | state | operations | interacts with | hard | correct when |
|---|---|---|---|---|---|
| **Queues** `queues.c` | `put_index`, `take_index`, the elements, `signal` | put, take, space, filled, reset | one putter and one taker, one of them usually the guest; a put into an empty queue raises its signal | no lock, no barrier; full queue makes the putter spin; reset while in use | each element is taken once, intact, in order; the taker is not left asleep on a full queue |
| **Signals** `signals.c` | masks `guest_to_host`, `live`, `reawaken`; `signalLock` and its condition; handler table | install, remove, raise, handle, `SignalLater`, `EmbSendSignal`, `WaitForLifeSupport` | guest raises; handler threads call device code; polling raises deferred ones again | masks updated without the lock by two parties; table read without the lock; unlocked broadcast | no signal or deferral is lost; a removed handler is not called (for long) |
| **Polling and timer** `polling.c` | `pollingSleep`, `pollTime`; `clockTime`, `clockLock`; the reset request | wake deferred handlers, periodic wakeup, answer resets, timed wait | all channels; `SetIntervalTimer` of the emulator | timeout racing a new timeout; lock taken twice | what is programmed is signalled; resets complete |
| **Disk channels** `disks.c` | `DiskChannelState` (fd, `error_pending`, transfer buffer), two queues | attach, detach, grow, `DiskLife`, reset | handler thread, emulator thread (attach, detach), polling thread (reset) | handler running across detach, attach, reset; deferral when no status fits; errors pending | each command answered once, in order; after an error all are aborted until a reset |
| **Network channels** `network-linux.c` | four queues of packet buffers; socket | transmit, receive, return of buffers, reset | handler thread, receiver thread, guest, polling thread | buffers circulate through four queues; restart of Lisp meanwhile; no room to give one back | no buffer lost or duplicated; deferral does not strand a packet |
| **Message channels** `message_channels.c` | list of active channels, a command queue and handler for each, `setReset` | start, thread, poll, unthread, free | guest commands on the handlers' threads, the polling thread, the MBIN sender | the list is walked and changed by three kinds of thread without a lock | a threaded channel is polled, no freed one is followed, a shut down ends |
| **MBIN** `spy.c` | `activeMBINChannel`, `mbinHistory` (ids and acked flags), two queues of buffers | receive, record, acknowledge, retransmit, shut down | remote debugger over UDP, guest | lost, repeated and late packets; shut down and a new channel meanwhile | each packet handled at most once, acknowledged only when handled |
| **Console** `console.c` | opening state, X connection, requests | open, close, input, output | guest, X server | requests while opening; failure of X | requests are answered once |
| **Cold load** `cold_load.c` | screen, history ring, progress notes | draw, keyboard, replay | guest, X server | ring limits | the history is kept in order |
| **Initialization** `initialization.c` | communications area, all locks | set up, tear down | every component | order of threads' start and end | no thread runs before its state exists |
| **Emulator: instructions** `emulator.c` | `fp`, `lp`, `sp`, `control`, `continuation`, `CatchBlockPointer`, binding stack; stack cache | instruction dispatch: calls, returns, bindings, catch blocks | memory, traps, `suspend` | traps in the middle of an instruction, which is executed again; multi-frame returns; unwind-protect | a caller gets back its registers and the values; bindings and catch blocks are undone exactly |
| **Emulator: traps** `traps.c` | the trap's frame | pre-trap, post-trap | instructions | operands and pc to restart from | transparent to what is trapped |
| **Emulator: data instructions** `emulator.c` | the words up to `restartsp`, the guest's memory | lists, fixnum arithmetic, shifts, bytes of words | memory cycles, traps | a trap in the middle, after which the instruction is begun again; overflow at each boundary | as if executed at once; exact, or an exception |
| **Emulator: memory** `memory.c` | page attributes, data and tag spaces | fault, map, read and write with cycle types | `SIGSEGV` handler, guest's pager | faults | memory traps at the right accesses |
| **Coprocessor registers** `externals.c` (other build), `initialization.c`, `dispatch.c` | registers | read and write | calls into Life Support | none | correct dispatch |
| **World tools** `world_tools.c` | load maps, worlds | load, merge, save | files | overlaps of load maps; IDS parents | later entries win |
| **Utilities, main** | options | parsing, start | none | none | none |

The calls `AttachDiskChannel`, `SetIntervalTimer` and `WaitForLifeSupport`, which run on
the emulator thread, are reached through the coprocessor's registers in `externals.c`
20-155. That file belongs to the GNUmakefile's build, as does `spy.c`: the CMake build has
`environment/introspection.c` in its place, whose SendMBINBuffers is the same but for
the transmission. The CMake build has the same Life Support. The lists in `PROJECT.json` have each component's status and each hazard's line.

## 2. The plan

Order: first what every device stands on, then the devices, then the emulator's
control instructions.

| # | modules | state |
|---|---|---|
| 1 | `FifoQueue` (abstract), `EmbQueue` implements it | done, proved |
| 2 | `Signals`: handler threads, masks, polling's tick | done, safety proved |
| 3 | `DiskChannel` = `Signals` + a disk + its reset | done, safety proved |
| 4 | `IntervalTimer`: host-to-guest signals and the timer | done, safety proved |
| 5 | `NetworkChannel` = `Signals` + an interface + a restart of Lisp | done, safety proved |
| 6 | `Frames`: calls, returns, bindings, catch blocks, traps | done, safety proved but for the values (`ReturnedIntact`) |
| 7 | `Arithmetic` (pure), `Instructions` on it: lists through forwarding words and traps, fixnum arithmetic, LDB and DPB | done, safety proved: types, arithmetic, operations on bits, lists |
| 8 | `MBINService` (abstract), `MBINChannel` implements it | done, proved |
| 9 | `MessageChannels`: the list of channels and who walks it | done, safety proved |
| 10 | a proof of `WordsRight` of `Instructions`: bits of shifted words, of words put together, of sums of bits | done |
| 11 | `StackCache`: scrolling, the copying of pages, traps that scroll; `Frames` on top of it | left |
| 12 | `Arrays`: array registers and their event count; the other byte fields; block registers | left |
| 13 | `ColdLoad` history ring; `ConsoleOpening`; merging of load maps as an algorithm with a reference definition | left |
| 14 | `Ring`: queues as indexes and slots, so that a reset comes between the loads and stores of a take or a put, in `DiskChannel` and `NetworkChannel` | done, proved |

Abstract specifications: `FifoQueue`, `MBINService`, and the definitions of what an
instruction on lists leaves (`Answer`, `MemoryAfter` in `Instructions`). Left: an unbounded
stack for the stack cache. No module that is or will be proved about declares
a RECURSIVE operator.

## 3. The modules

### FifoQueue and EmbQueue

`FifoQueue` is what a queue promises: an element is offered, is enqueued, is at the
head, is dequeued. `EmbQueue` is `queues.c`: the putter's `EmbQueuePut` (38-84),
`PutWord`, `PutByte` (113-150) and the taker's `Take`, `TakeWord`, `TakeByte` (154-233),
each load or store of a shared word a step:

| action | code |
|---|---|
| `BeginPut`, `WriteElement`, `EndSpin`, `StorePut` | element into the slot; increment; spin while full; store `put_index` |
| `TestEmpty`, `SendSignal` | "If the queue had been empty, send a signal" |
| `BeginTake`, `CopyElement`, `StoreTake` | test for empty, copy, store `take_index` |
| `Wake` | the handler thread, woken by the signal (signals.c:261-285) |
| `DrainPut`, `DrainTake` (external) | the processor writes a buffered store to memory |

`queues.c` has no barrier, so the module is parameterised by the memory model: `SC`, or
`TSO` for x86-64, on which an index store may be buffered while later loads proceed.
The element store itself is not buffered: a store buffer is FIFO, so the element is in
memory before the index that publishes it, and `NoDataRace` says nobody looks earlier.
`ImplementsFifo` refines `FifoQueue` with the elements between the indexes as contents,
counting stores still buffered.

### Signals

Masks are sets of signal numbers, `signalLock` is its holder. A host update of a mask is
a load and a store (`HandlerClear`'s mask is computed in one step and stored in the
next, as in `PollTick` and `PollStore`), and so is the guest's (`GuestRaise`, `GuestStore`), which no lock orders. A handler thread goes through
`HandlerCheck` (test under the lock), `HandlerBlock` (wait), `HandlerClear`,
`HandlerLoadFunction`, `HandlerLoadArgument` (without the lock) and
`HandlerReturn` or `HandlerDefer`, the two ways the handler can end. `RemoveFunction` and `RemoveArgument`,
`InstallFunction`, `InstallArgument` and `StoreQueueSignal` are the emulator thread's.
`pollTime` and `sleepTime` follow `IvoryLifePolling`'s nanoseconds, in quarters of a second.

Closing the file and unlinking the channel are merged with the queue signal's store
(they touch nothing else here). Spurious wakeups of `pthread_cond_wait` are left out:
the code tests again after each wait, so that one is a `HandlerCheck` more.

`owed`, `dropped` and `late` are history: who is owed a call after `SignalLater`, whose bit the
guest's store has dropped, and how often a removed handler was called since. A dropped bit is
not set again until the guest signals the queue, so `DeferredNotLost` and `DeferredIsRetried`
exempt it: they are about the host's own updates. `SignalLater` with the signal -1 has no effect
(x86-64 shifts modulo 32, which gives the bit of signal 31, of no handler as long as not all 32 are installed).

### Ring

The queues of the two channel modules: `put_index`, `take_index` and the slots, which keep what
was put in them. The host's takes and puts, and the resets, are put together from its loads
and stores by the modules with the threads; the guest's take or put is one step (`Put`, `Take`): the
guest waits for the reset it has asked for. Stores are seen at once here (what a store
buffer does is `EmbQueue`'s), and the two loads of EmbQueueFilled or EmbQueueSpace are one step: a reset
between them makes a handler defer or go round its loop once more, which is all they decide.

### DiskChannel

EXTENDS `Signals` with one channel and instantiates its handler with `DiskLife`:
`DiskLifeStart` reads the channel's state once (226-234), `DiskLifeFilled` and `DiskLifeSpace` look for a
command and room for a status, else `DiskLifeReturn` or `DiskLifeDefer`; `TakeLoadPut`, `TakeCompare`,
`TakeCopy` and `TakeStore` are EmbQueueTakeWord, `DiskLifeSwitch` the verdict by state,
`error_pending`, read-only and command, `TransferWins` and `TransferFails` DoDiskIO, `PutFill`, `PutWait`
and `PutStore` EmbQueuePutWord. `AttachState`, `AttachOpen`, `AttachFails`, `DetachRemove`,
`AttachDetachEnd` are attach and detach around the actions of `Signals`: `AttachOpen` takes
`InstallFunction`, and `InstallArgument` and the store of the queue's signal follow as steps of their own. The polling
thread's reset, with `signalLock` held, stores one index at a time (`ResetCommandPut` ... `ResetStatusTake`),
with the handler's removal in between for channels that Lisp created. `NullSignalHandler` ends the program.

Nothing keeps a reset out of a take or a put of DiskLife's. Where it overlaps one
of the same queue, the store of the index that ends the take or the put brings back elements the reset
had dropped, or skips new ones, and a put whose next index is the zeroed `take_index` spins in
queues.c:106 until the guest takes a status, which it cannot while both indexes are zero. `torn` is
history: an overlap has happened. `AnsweredInOrder` and `StatusPutNeverWaits` hold until then, through any
reset that does not overlap, and TLC violates both without the exemption; the model goes on after it, so that
`DiskTypeOK` and `FlushUntilReset` hold of torn channels too. Which sectors are read is not modelled: a
transfer succeeds, or fails.

### NetworkChannel

EXTENDS `Signals` and `Ring` likewise. Each buffer is in the guest's free list, a queue or a
thread's hands, tagged with the incarnation of Lisp that sent it round. The transmitter
(`TransmitReturn ... TransmitPut`) runs in the handler thread, the receiver
(`ReceivePacket ... ReceivePut`) in its own, and tests the *supply* queue for space as the code
does. `TransmitCopy`, `TransmitTake` and `ReceiveCopy`, `ReceiveTake` are the load and the store of a take,
`TransmitFill`, `TransmitPut` and `ReceiveFill`, `ReceivePut` those of a put. `ResetTransmitPut`,
`ResetTransmitTake` ... `ResetReceiveTake` zero the eight indexes one after the other while the two
threads go on. A channel whose reset has overlapped a take or a put of the same queue (`torn`) is not followed any
further: what becomes of its buffers is what `DiskChannel` shows of commands. That a host thread's put into the
return or the receive queue signals the guest is the business of `IntervalTimer`.

### IntervalTimer

`SetIntervalTimer`, `IntervalTimerDriver` (239-281), `EmbSendSignal` as the load of the mask, its store, and
`suspend` with the wakeup (`SendLoad`, `SendBit`, `SendWake`; between the first two the guest's own unlocked store
may come, and taken bits come back), `WaitForLifeSupport`, and the emulator's way of noticing
`suspend` (`TakeBreak`, `ClearSuspend`, `GuestBreak`). `suspend` is a Boolean: in this build no line stores
its other values but a halt, which ends the program, and nothing asks for SIGIO. `WaitForLifeSupport` also looks at FEP
mode, which is either here. Time is not counted: a timed wait may end at any
moment, and a timeout is known by the number of the call that set it.

### Frames

The control instructions of `emulator.c` and the two kinds of trap of `traps.c`. The stack
is a sequence of words up to `restartsp`, with the words that matter: saved pcs, saved
control registers, catch blocks and values, each value distinguishable.

| action | code |
|---|---|
| `StartCall`, `FinishCall`, `LocateLocals` | 3616-3778, 3894 |
| `BindLocativeToValue`, `BindLocative`, `Unbind` | 4189-4238, 607-628 |
| `CatchOpen`, `FetchCatchClose`, `UnbindOne`, `CatchCloseEnd` | 4288-4331 |
| `FetchUnbindN`, `UnbindOne`, `UnbindNEnd` | 4240-4256 |
| `FetchReturn`, `ReturnUncatch`, `ReturnUnbind`, `LeaveFrame` | 3900-4090 |
| `ReturnUnwind`, `HandleUnwindProtect`, `Jump` | 5636-5662, 5367 |
| `PreTrap`, `PostTrap` | `TakePreTrap`, `TakePostTrap` |

An instruction that can be interrupted half-way (`Interruptible`) is fetched, begun, and
goes on one memory access or frame at a time; `PreTrap` may come between, drops what was
done since `restartsp`, runs the handler as a call, and the instruction is begun again.
`acts` is history: for each activation, what it has open and what its caller had. So is `spoiled`:
the returns (by their `restartsp`) that were given up when they had overwritten the values they begin with again.
`ReturnedIntact` exempts these (section 5).
An Unbind that fails is an illegal operand in UNBIND-N, CATCH-CLOSE and HandleUnwindProtect; a return's loop ignores
its result (emulator.c:4040), but tests the bit that Unbind tests, so it cannot fail there.

Abstractions, all of `Frames`:

- The stack cache is taken to be the whole stack (planned: `StackCache`).
- The guest's code is well nested, and the pushes of an instruction's operands are merged
  with it. The outermost function only calls. A function returns with no call started.
- Trap modes, the trap vector, FINISH-CALL's apply variants, ENTRY-REST instructions,
  RETURN-KLUDGE, trap-on-exit, preemption and deep binding are left out.
- `longjmp` is taken to keep the sequencer's locals, as they are in memory in a build
  without optimisation flags, which is what CMake's default is.
- `Intact` stops following a guest whose bindings were undone once too often (by the
  flaws of section 5), because its code from there on is anybody's guess. This is why
  `frames` has CHECK_DEADLOCK FALSE.

### Arithmetic and Instructions

`Arithmetic` has the fixnum instructions of `emulator.c` as operators from two operands to
the set of outcomes: values, an exception for the guest's handler, an illegal operand. A
fixnum is a word of W bits; where the code wraps, so does the operator (`Wrap`), and a shift
by the width or more, undefined in C, has every outcome.

`Instructions` executes one instruction: `Fetch`, then a step for each word it reads (one
turn of MemoryReadInternal's loop) and for each test between.

| action | code |
|---|---|
| `BeginCar` ... `BeginSearch`, `LoopStep`, `Test*` | the instructions, 1095-1406 |
| `CarRead`, `CdrRead`, `RestRead`, `KeyRead`, `ValueRead`, `Store` | CarInternal, CdrInternal, StoreContentsInternal, 270-358 |
| `FollowForward`, `TransportTrap`, `MonitorTrap`, `ErrorTrap` | MemoryReadInternal by type and cycle, 232-265 |
| `PageFault`, `SequenceBreak` | the SIGSEGV handler, the loops' look at `suspend` |
| `ArithmeticStep`, `CountStep`, `FieldStep` | one instruction on words, 1860-2884 |
| `Handle` (external) | the guest's transporter, monitor handler or pager; the instruction is begun again |

An operand is popped ("pop") or addressed in place ("local"). Words above N are oldspace.
The reference is executed at once: `Settled` is the memory once everything has been
transported and nothing is monitored, `Home` where a word is after its forwards, `Search`
the first cons that is sought (`Here` what one cons says, `Onward` which is the next; after as many
conses as there are words it has come round in a circle). `Answer` and `MemoryAfter` are stated on these alone.
A stack and a memory to begin with are what a running Lisp has (`StartsAssumption`): on the
stack only words a read can have delivered (`Live`), one NIL, no list that runs out of the memory.
`ResultRight` exempts an instruction that was trapped after it had overwritten an operand
(`spilled`, section 5).

### MBINService and MBINChannel

`MBINService` promises that a packet is handled at most once, and acknowledged to the
debugger only when it was handled. `MBINChannel` is the protocol: the debugger (external) sends
packets of a window and sends them again; UDP (external) loses, repeats and reorders; the spy's
thread takes a packet through `TestActive`, `TestHistory`, `AcknowledgeSeen` or
`TestQueues`, `TakeBuffer`, `PutPacket`, `MarkId`, `MarkNotAcked`; Lisp (external) handles buffers,
returns them, shuts the channel down and starts another; SendMBINBuffers records and
transmits acknowledgements (`TakeAck`, `RecordId`, `RecordAcked`, `Transmit`,
`ReturnBuffer`) or takes the channel down (`Deactivate`, `ResetQueues`). `died` says that the
process followed a null channel. A history entry is its packet's number modulo HistorySize.
`AckedUnlessForgotten` exempts the packets whose acknowledgement the history does not tell of
(`Forgotten`, section 5) and a channel that is shut down. Two assumptions are not enforced by the C code: the
debugger keeps a window of HistorySize packets and has no copy of an entry's earlier packet under way any more when it
sends the next (`Send`); and a shut down's `ResetQueues` (spy.c:486-490) is one step. The spy's thread may take and put before and
after it, between any two of its statements; that a take or a put of its is overlapped by the reset of the same queue is not
modelled here (what comes of that is `torn` in `DiskChannel`).

### MessageChannels

The list of channels with each load and store of a link a step: `FindEnd` and `Link`
(ThreadActiveMessageChannel), `PollChannel` (PollMessageChannels), `Find` and `Unlink`
(UnthreadMessageChannel), `Free`. Following the link of a freed channel ends the process (`Die`). `raced` is history: two
threads have been changing the list, or polling was at a channel being taken out. Nothing in the
code rules it out (section 5); until then `ListIntact` claims the whole list, and
`ShutDownServed` the end of a shut down. `Ordered` (proved) is claimed whatever they do. A handler whose bit is
not set waits (`Block`, `asleep`) for a broadcast; the poll that sets the bit makes none
(message_channels.c:75), and the polling thread broadcasts only when a deferred handler is due, since the periodic
wakeup never is (`signals_rewake`). Broadcasts for other signals may come (`Broadcast`) and are not assumed to:
`ShutDownServed` names the channel whose thread waits for ever, `[](c \in asleep)`, and one that was lost to the list
(`Lost`), as exceptions.

## 4. The runs

| run | shows | distinct states |
|---|---|---|
| `queue` | no data race, FIFO, under both memory models; no lost signal and delivery under SC | 10,924 |
| `queue_tso` | violation: lost signal under TSO | |
| `signals` | deferred handlers are kept and called; at most one late call | 568,389 |
| `signals_rewake` | violation: the periodic wakeup never comes | |
| `disk` | commands answered once and in order and a status put never spins, until a reset overlaps a take or a put; errors flush until reset, a seen command is answered | 526,748 |
| `disk_reset` | violation: reset of a channel Lisp made hangs | |
| `network` | until a reset overlaps a take or a put: every buffer in one place, one stale buffer a thread after a restart, puts never spin, a seen packet is sent | 415,596 |
| `timer` | a pending signal is noticed and taken; the last timeout programmed is signalled at its own end, or was programmed while another expired | 24,873 |
| `frames` | returns restore, leave nothing open, and give the values unless given up with these overwritten; catch bit and cells honest | 5,138,044 |
| `instructions` | list instructions end as if executed at once; arithmetic, shifts and bytes are those of the integers and of rows of bits; a fetched instruction ends | 318,801 |
| `mbin` | the protocol implements the service; a packet handled is acknowledged at last | 292,763 |
| `channels` | the list holds the channels in use and no freed one; a shut down is served unless its thread waits for ever | 321,282 |

**Bounds.** A ring of 3 slots and 2 elements (one of them what fresh memory holds) has a queue that is
empty, half full, full and wrapped, and puts and takes that go on for ever. Two signals
and two channels let a signal number be reused by another channel. The disk has one
channel, two commands, room for one status, two attaches and one reset: the
least with a command waiting behind another one's status, an attachment outlived by
`DiskLife`, and an error before and after a reset. The network has a buffer of each kind, room for one
in each queue, and one restart, so that both threads may hold a buffer, or be in a take or a put, when a queue is reset;
the theorems have any number. The timer has two other senders
and three timeouts, so that one is replaced while another expires. `Frames` has three
frames, two things open at once, two bindings of one variable, one trap, returns of no value and of three, and 13 words;
three frames are the least with a return through one, and three values the least
which such a return can overwrite and be given up (section 5).
`Instructions` has words of four bits, every pair of them as operands, and every byte a
word of this size has; six words of memory with four bases of cdr-coded lists, each word of
them forwarded or monitored in turn, with and without oldspace: 896 initial states; two page
faults or breaks (MaxTraps) are enough for one before and one after a word is
overwritten. MBIN has two packets, a history of one entry, so that the second replaces the first,
two channels, one buffer a queue and two acknowledgement buffers, so that an acknowledgement may be late
and another channel's. Three packets and a history of two were checked by hand for
one channel (171,774 states, with liveness) and for two (10,988,100, safety only). The list has
three channels, the least with one in the middle between two that are changed.

**Fairness** is each thread's own, never of two threads together.

- Weak fairness for a thread that has work: the emulator's Life Support calls, the putter
  and the taker, the store buffers (x86-64 drains them).
- Strong fairness where a thread contends for a lock (`signalLock`, `wakeupLock`): the
  others hold it for a few instructions only and then sleep or block, so a waiter gets it.
- Timed waits expire. The emulator reaches a branch, where it looks at `suspend`.
- The guest takes statuses and returned buffers (`TakeStatus`, `GuestTakeReturned`), without
  which a deferring handler defers for ever. Nobody is obliged to put, send, attach, program
  or reset anything.
- In `channels` every thread that does not wait goes on; that a broadcast comes is not assumed. In `signals`, `disk` and
  `network` a handler wakes by the broadcast that its own signal, or the tick's waking of a deferred handler, makes.
  `mbin` takes the broadcast of a signal that Lisp sends for granted; that it can be lost is what `signals_rewake` shows.
- UDP does not lose every copy (strong fairness of `Receive` and `Acknowledged`), and the
  debugger sends again what was not acknowledged.
- Nothing makes the emulator take page faults or sequence breaks, which MaxTraps ends.
- No transfer is assumed to succeed, nor any signal to be raised twice.

**Deadlock** is checked in `signals`, `network` and `timer`. It is not where the system may really
stop: `queue`, where under TSO a lost signal leaves a full queue and a sleeping taker; `disk`, where
the guest has issued all its commands, or NullSignalHandler has ended the program;
`frames`, where `Intact` ends what is followed; `instructions`, where the one instruction is
done; `mbin` and `channels`, where the process has died or Lisp has no more to ask.

`SeenIsAnswered` leaves out one window: a handler that runs after `InstallSignalHandler`
and before the queue's `signal` is stored (disks.c:139) defers itself with signal -1 and is
not called again until the guest puts another command. No text says it should be.

## 5. Findings

Each is a run that ends in a violation; `PROJECT.json` quotes the text it contradicts.

- **queue_tso** (queues.c:113). Index store and load of the other index are not ordered on
  x86-64. Putter and taker may both miss: the taker sleeps, no signal is sent.
- **signals_rewake** (polling.c:222). `pollTime` accumulates `pollingSleep.tv_nsec`, which
  is zero by then: the periodic wakeup for lost interrupts never happens. Deferred handlers are
  unaffected (`DeferredIsRetried`).
- **disk_reset** (queues.c:414). The polling thread resets with `signalLock` held; for
  a queue Lisp made, `RemoveSignalHandler` locks it again.

Found with the models, without a run of their own (add the named definition to the run's cfg):

- A timeout set between the expiry and the relock of `clockLock` is overwritten with -1
  (polling.c:274), against polling.c:285-287. `NewTimeoutNoted` exempts exactly these (`overwritten`, without which TLC
  finds the case): what it promises of them is the clock signal of the old timeout, which comes too early.
- CATCH-CLOSE, and HandleUnwindProtect, store a control register read before `Unbind` cleared
  its bit (emulator.c:4307; `BindingsHonest`). The frame's return then undoes one of the
  caller's bindings.
- RETURN-MULTIPLE through a frame with disposition Return overwrites the values it would need when
  it is begun again (emulator.c:4074; `ReturnedIntact` without its exemption `spoiled`, with three
  values): with a sequence break, memory trap or unwind-protect in between, the caller gets others.
- UNBIND-N trapped in its second Unbind is begun again with the full count
  (emulator.c:4252) and undoes too many.
- CAR and CDR of a popped operand, and RGETF, read into the operand's own word before a trap is
  ruled out (emulator.c:236, comment at 798). Begun again after it, they take what was read for
  the operand (`AsIfAtOnce`).
- ASH to the left compares only the sign and zero afterwards (emulator.c:2371): bits that overflow
  are lost where `emulator/Emulator-14-Logical_Instructions_functions.lisp:39` takes the
  exception.
- ROUND with operands of different signs leaves a remainder greater than half the divisor
  (emulator.c:2177; the exemption in `DivisionRight`).
- MBIN forgets an acknowledgement that comes between the buffer's put and `MarkNotAcked`
  (spy.c:413), and a packet recorded but not acknowledged before a shut down: its
  retransmissions are dropped. An id of 0 is what an empty entry holds.
- A shut down between the spy's test and its use of `activeMBINChannel` follows a null pointer or
  puts the buffer in a queue of the next channel; Deactivate clears `activeMBINChannel` when
  it is already another's (spy.c:485, message_channels.c:203).
- Threads that meet in the list of channels lose a channel or follow freed data
  (message_channels.c:57), and PollMessageChannels sets a signal without a broadcast
  (message_channels.c:75; the last disjunct of `ShutDownServed`): the impulse to shut down waits for a signal of
  another channel.
- A reset that overlaps a take or a put of the same queue brings back old elements, skips new ones, or
  leaves the put spinning (queues.c:106, 202, 411-412, 425-426; `AnsweredInOrder`, `StatusPutNeverWaits`,
  `BuffersAccounted`, `OneStaleBuffer`, `PutNeverWaits` without their exemption `torn`).
- The guest's store of `guest_to_host_signals` drops bits the host sets between its load and its store, a
  deferred handler's among them (signals.c:262, `dropped`): the handler runs again when the guest next signals
  its queue.
- NetworkChannelReceiver tests for *space* in the supply queue where it means *filled*
  (network-linux.c:644): once the guest has supplied a full queue, nothing is received.

Seen while reading, outside the models:

- The fast array instructions test the index against the cached length before they compare
  the event count (emulator.c:3162, 3203): an index that became valid when the array grew is
  taken for illegal. The assembly emulator compares the count first
  (`emulator/3-Commonly_Used_1-functions.lisp:334`).
- InstanceLocImmediate goes to ExecuteInstanceSet (emulator.c:4503), AllocateStructureBlockImmediate
  to ExecuteAllocateListBlock (4644), ALUFunctionAdder falls through (693).
- DivideBignumStep does not test for a zero divisor and shifts by the word's width (2590).
- ResetMessageChannel frees data that the spy's thread may be using (message_channels.c:179).

## 6. The proofs

Assumptions are those on the constants, `QueueAssumption`, `SignalsAssumption`, `DiskAssumption`,
`NetworkAssumption`, `TimerAssumption`, `FramesAssumption` (a stack with room for the first
frame, and bounds that are numbers), `MessageChannelsAssumption`, `MBINChannelAssumption`,
`ArithmeticAssumption`, `InstructionsAssumption` (the stack and the memory an instruction
begins with hold words) and `StartsAssumption` (of the words on that stack none is a forward or
null, NIL is one word, and the memory's last word ends its list), which TLC evaluates in the runs. Nothing else is assumed.

Where a fact has to be shown of every number, the induction is written out: the set of the
numbers it does not hold of has no least member. `Least` and `Greatest` (FramesProofs), `Induction`
(InstructionsProofs) and `LastBefore` (MessageChannelsProofs) are the lemmas for it.

**EmbProofs** (`TypeCorrect`, `RaceFree`, `SignalReliableSC`, `RingImplementsFifo`; of the timer
`TimerTypeCorrect`, `SignalNoticed`). `NoDataRace` is not
inductive: that the putter's slot is not the taker's follows only from what each knows of
the other's index. `IndInv` adds `BufferInv` (no buffered stores under SC), `RoomInv` (the
putter's view of the ring never holds more than QueueSize - 1 elements, one less while it is
about to store its index), `TakeInv` (the taker's view never passes `put_index`) and `LocalInv`
(`original_put` is where the putter's view was when the call began). `SlotRange`,
`RingRange`, `RingAdvance`, `SlotInc` and `SlotDistance` are the arithmetic of the ring.
`SignalReliableSC` is inductive together with `IndInv`.

For `RingImplementsFifo`, `RefInv` is `IndInv` and `ElementInv`: from
the copying of the element until the index is stored, its slot holds it. One lemma per
action shows that its step is an abstract step (`BeginPutOffers`, `StorePutEnqueues`,
`CopyElementDequeues`) or a stutter (`WriteElementStutters`, `StoreTakeStutters`,
`DrainStutters`, `OthersStutter`). It holds for every size and under both memory models, so
what the other modules say of a queue may be said of the sequence of its elements (`Elements`). Of `IntervalTimer`, `PendingIsNoticed` is
inductive given the type invariant.

**SignalsProofs** (`SignalsTypeCorrect`, `OneLateCall`, `DeferredKept`). `OneLateCall`
strengthens to `LateInv`: without a live handler there is no real function in the table
to load, and one loaded while it was live has not been called late yet. `DeferredKept`
strengthens to `DeferInv`: `LockInv` (who holds the lock and what it is doing), `TimeInv`
(`pollTime` stays 0, so every tick looks at the deferred signals), `MaskInv` (the mask
that a thread has computed and not stored yet keeps every deferred signal that the guest has not dropped) and the
property itself. Without `MaskInv` a load-and-store pair could drop a signal.

**NetworkProofs** (`NetworkInvariance`, `NetworkTypeCorrect`, `NetworkBuffersAccounted`,
`NetworkOneStale`, `NetworkPutNeverWaits`). Both directions are one circuit, from the guest's
hands through a queue, a thread's hands and a queue back (`Circulate`): its state has its types,
nothing in it is of a Lisp to come (`Past`), a buffer of the running Lisp is nowhere twice
(`Apart`) and is somewhere (`Within`). One lemma a kind of step (`GuestPuts`, `GuestTakes`,
`ThreadTakes`, `ThreadPuts`, `LispRestarts`, `QueueReset`) serves both directions. `NetInv` has two
halves: `Shape`, types that hold of a torn channel as well, and `Followed`, until a reset overlaps a take or a
put. `Followed` adds to the two circuits when a thread has a buffer, and that the guest has all its buffers while a
reset is asked for (`Placed`), without which emptying a queue would lose one; what the
reset has left of the Lisps before at each of its steps (`Renewed`): once the transmit queue is
emptied, the transmitter takes no old buffer any more, so the one it may hold is the last; and that the
index and the element a thread has loaded are still the queue's (`Ringed`), which is what an overlap breaks. A queue
whose put index a reset has zeroed counts as empty from there on.
`OnePlace` and `OneStale` count on the concatenation of the way. The signals underneath keep
their types by the lemmas of SignalsProofs.

**DiskProofs** (`DiskTypeCorrect`, `DiskAnsweredInOrder`, `DiskStatusPutNeverWaits`,
`DiskFlushUntilReset`). `DiskInv` is inductive. `Attached` says which states the emulator thread and the
signal's function may hold, `Handed` and `Resetting` what DiskLife and the reset have in
hand at each of their steps. For the order, `Ordered` says that the numbers of the statuses,
of the command in hand and of the commands rise from one to the next, and `Complete` that they do so without a gap unless
something was reset; `Ringed` says that what DiskLife has loaded of its queues is still so and the room it saw still
there. These three hold until a reset overlaps a take or a put (`Followed`); the
property, which looks at the concatenation of the three, follows by `Joined`. For the
flush, `Flushing` adds to `FlushUntilReset` that an attachment without a pending error has had
no failure since its reset (`Flushed`), and that a transfer is only tried by one without. The
signals underneath keep their types by the lemmas of SignalsProofs.

**FramesProofs** (`CellsCurrent`, `StackWellFormed`, `FramesTypeCorrect`, `CatchesHonest`,
`CallersRestored`, `FramesCleanedUp`). For the special variables, `BindInv` is `CellsAreCurrent` and
`ShapeInv` (the binding stack is a sequence, there is a cell for each variable). Only two actions' parts matter,
`BindLocativeToValue` and `Unbind`; `GivesSame` and `GivesOther` say that what the first n
bindings give a variable depends on those that bind it. No bound of the model is
used, nor what the control register says, so the theorem is not touched by
the findings about that register.

For the control stack the inductive invariant is `StackInv`: `Typed`, `FramesOK`, `OpOK` and
`BindsOK`. `FramesOK` says one thing of every activation, whether it is running, waits for a
callee or was trapped: with `R(d)` the registers its callee saved of it (the processor's own for the
last), its frame begins with the words that its return takes its caller's registers from
(`FrameOK`); each thing that its code has open has its words on the stack, and these
hold what the registers are once it is closed (`StartOK`, `CatchOK`, `CleanupOK`); and
the registers are right for all that is open (`RightAt`): the continuation for the last
started call, `CatchBlockPointer` and the catch bit for the innermost catch block, the pc for what it executes. The clauses
for the n-th item speak of the items before it only, so that closing one leaves just what the clauses of
the rest say. `Above` and `Passing` keep the frames apart and let a return with disposition
Return go on in the caller. Neither the trap nor the return can be proved from less: the trap begins an
activation in any state, and a return takes all the registers from the stack. `BindsOK` is the
half of the binding bit that holds: a frame with bindings has its bit set. The other half does not
(section 5), so nothing here says it.

`Here` and `ActSame` reduce a step to the clauses of the current activation where it keeps
the words below; `Reopen`, `Entered`, `Activated` and `Leaves` are the steps that open and
close, enter and leave. `FramesTypeOK` and `CatchHonest` follow from `StackInv`, the latter
by going down the activations to the innermost that has a catch block (`ChainedAll`). The action
properties follow from `OnlyLeaves`, only `LeaveFrame` takes a frame away, and from what it
finds there (`ReturnFinds`, `LeaveFrameIs`).

**MessageChannelsProofs** (`MessageTypeCorrect`, `ListEnds`, `ListKept`). A walk of the list ends because
links lead only forwards in the order of threading. `Ordered` alone is not inductive:
`ListInv` adds that links lead only to channels that were threaded (`LinksThreaded`), and that
Lisp starts one channel at a time (`OneByOne`), so that the one being threaded is the last. For
`ListIntact`, `KeptInv` adds, until two threads meet, that the links run through exactly the
channels that were started and not taken out again, in their order (`Chain`), and where each thread is in the list
(`Places`). `WalkIsList` shows that what a walk meets (`Walked`, the least set the links do
not lead out of) is then that list, so no freed channel is on it and none in use is missing.

**MBINProofs** (`MBINTypeCorrect`, `MBINInvariance`, `MBINImplementsService`). `MBINInv` is inductive:
`Window` (the debugger's window keeps two packets of one history entry apart), `Distinct` and
`Once` (a packet is on its way to Lisp, or back, once), `Remembered` (what was put is in the
history while a copy of it may still come) and `Honest` (a packet is marked acknowledged
only when its acknowledgement was recorded). Between `MarkId` and `MarkNotAcked` the acked flag
is that of the packet before, which `Honest` allows while the spy is marking (`Marking`).
`RecordGap`, two packets with one entry are a window apart, is what makes an entry's reuse safe. The refinement's steps are one lemma an action, as for the queue.
That no queue holds more than its room, of `MBINTypeOK`, is a count of the buffers, each of
which is in one place.

**InstructionsProofs** (`InstructionsTypeCorrect`, `ExactForEveryWord`, `DivisionForEveryWord`,
`WordsForEveryWord`, `ResultForEveryMemory`). The run has words of four
bits and a few memories; the theorems have every width and every memory. `OneRemainder` says a remainder is the only one of its kind,
`WrapIs` what wrapping does to a number one turn of the word away, `Division` what C's quotient
leaves. On these, each operator's outcome is one lemma (`AddExact` ... `DivisionOutcome`).
The invariant, `NumbersInv`, says that an instruction on numbers, once fetched, still finds
the words it was fetched on (`Ready`): it is never trapped half-way, whatever the
instructions on lists do; so its one step has the operands the properties speak of.
`InstructionsTypeOK` has an invariant of its own, `TypesInv`: what an instruction has read, will
store and may overwrite at each of its steps (`Registers`, `Reading`, `Trapped`). It needs every outcome of the arithmetic,
shifts and bytes to be a number (`OutcomeIs`), and hence that the powers of two are
(`PowersOfTwo`). For bits, `Through` and `Nested` say what dividing and wrapping by two powers after one another is; on them
`LdbBits` and `DpbBits` say each bit of a byte taken or put, `Exchanged` that the two parts a rotation
exchanges are exchanged back, and `LshShifts`, `AshShifts`, `SumsOfWords` and `TwoWords` what the
other outcomes are modulo the word. `WordsInv` adds to `NumbersInv` that an LDB or DPB still finds its
operands and its byte.
That an instruction on lists does what it would have done at once (`ResultRight`) rests on `ResultInv`.
The property speaks only of an instruction that has ended, so the invariant says of each step on the way
that what is read next is what is wanted at once. `Heads`: the word at `vma`, once its forwards are
followed, is the word looked for; a transport, a monitor handler or a page fault changes where it
is found and not what it is (`HandledSettled`: the settled memory stays as it was at first).
`Known`: what has been read is what the reference reads there. `AtLoop`: the conses a search has passed are a
set none of which is what is sought, each led on from, and what is left to find is what is found from
here with as many fewer conses to go as the set has members. If the search comes to a cons of the set it has come round
and goes on for ever (`SearchGoesOn`, `SearchStops`); otherwise the set has grown, so that the
reference's count of N conses is enough (`Counted`).
Forwards may be circular too: `HomeIs` says that a word's home is the home of the
word it is forwarded to, which is all that is used of a circle. `Broken` says that an instruction
which reads nothing at a place it needs has no answer at once either. The operands are in place until an
instruction ends (`Kept1`), but for those of an instruction given up half-way, which the property exempts. TLC
checked `ResultInv` on random memories of three words before it was proved.

Model-checked only: liveness (`Delivered`, `DeferredIsRetried`, `SeenIsAnswered`,
`SeenIsTransmitted`, `PendingIsTaken`, `NewTimeoutNoted`, `Completion`, `AckedUnlessForgotten`,
`ShutDownServed`), which TLAPS cannot prove under fairness; and `ReturnedIntact` of `Frames`, for which what
an interrupted return has copied would have to be followed through the frames it has left. Every other invariant and action property that a passing run checks is
stated by a theorem, of the constants' every value.

## 7. Not modelled

The modelled lines are few among the repository's 208,000: some 150,000 of those are generated
(`src/stub`), and much of the rest is back ends for other processors and systems, translators, file
formats and X11.

- **Cold load, console, memory maps, world tools**: their X11 and file input and output will
  stay out; the history ring, the console's opening and the merging of load maps are left.
- **Initialization**: straight-line; its order is the modules' initial states.
- **Disk**: growing a partition, sizes and addresses of a transfer (`page + count` in 32
  bits, disks.c:307), reuse of a file descriptor number after detach.
- **Network**: set-up of interfaces, packet filter, ARP, termination.
- **Queues**: PutBytes ... TakeWords, which nothing calls; resets under TSO.
- **Message channels and the spy**: ResetMessageChannel, the debugger's commands on memory and
  registers, TerminateSpy.
- **Emulator**: arrays, the byte fields of characters and of words in memory, block registers,
  floating point, bignum division, generic functions, predicates and branches, subprimitives, the
  instruction cache and the stack cache. The bignum steps MultiplyDouble, AddBignumStep,
  SubBignumStep and LshcBignumStep are not implemented in `emulator.c`. The assembly
  emulators for other processors, their generators and translators are another program.
- **Back ends** the build leaves out (`signals-ptw.c`, `network-osf.c`, ...).
