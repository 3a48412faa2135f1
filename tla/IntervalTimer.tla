---------------------------- MODULE IntervalTimer ----------------------------
(***************************************************************************)
(* Host-to-guest signals: the interval timer of life-support/polling.c,    *)
(* EmbSendSignal and WaitForLifeSupport of signals.c, and the emulator's   *)
(* `suspend' variable.  Threads: the emulator, which programs the timer,   *)
(* idles in WaitForLifeSupport and takes sequence breaks, the interval     *)
(* timer thread, and any other Life Support thread that sends a signal.    *)
(*                                                                         *)
(* What is done under clockLock or wakeupLock alone is one step; tests and *)
(* stores made without a lock are steps of their own.  Time is not         *)
(* counted: a timed wait may time out at any moment.  A timeout is told    *)
(* from the others by the number of the SetIntervalTimer call that set it; *)
(* the guest's value is an unsigned Integer, so it is never negative.      *)
(* `suspend' is a Boolean: the interrupt is the one value that is stored   *)
(* while the machine runs.  Nothing asks for the SIGIO that would make it  *)
(* SuspendSpy (emulator.c:73), no line stores SuspendLowPriority or        *)
(* SuspendReset, and HaltMachine ends the program.                         *)
(***************************************************************************)
EXTENDS Integers

CONSTANTS Senders,    \* other threads that call EmbSendSignal
          Clock,      \* the signal in clock_signal
          MaxTimeouts \* bound on SetIntervalTimer calls

ASSUME TimerAssumption == Clock \notin Senders /\ MaxTimeouts \in Nat \ {0}

Signal == Senders \cup {Clock}  \* each other thread sends a signal of its own

VARIABLES
  clockTime,   \* -1, or the number of the timeout it was set to
  tPC,         \* the timer thread: place in IntervalTimerDriver
  tTimeout,    \* the timeout its timed wait runs for
  host_to_guest_signals, suspend,
  loaded,      \* the mask as the thread in EmbSendSignal has loaded it
  ePC,         \* the emulator thread: running the guest, or its place in a call
  sPC,         \* [Senders -> place in EmbSendSignal]
  programmed,  \* SetIntervalTimer calls so far
  early,       \* history: the last timeout programmed before the thread started
  overwritten, \* history: timeouts programmed when the one before had expired
  sent         \* history: <<m, n>>: the clock signal was sent for the end of
               \* timeout m when n was the last one programmed

timer  == <<clockTime, tPC, tTimeout>>
wakeup == <<host_to_guest_signals, loaded, suspend, ePC>>
past   == <<programmed, early, overwritten, sent>>
timerVars   == <<timer, wakeup, sPC, past>>

TimerInit ==
    /\ clockTime = 0   \* fresh memory
    /\ tPC = "start" /\ tTimeout = 0
    /\ host_to_guest_signals = {} /\ loaded = {} /\ suspend = FALSE
    /\ ePC = "run" /\ sPC = [s \in Senders |-> "idle"]
    /\ programmed = 0 /\ early = 0 /\ overwritten = {} /\ sent = {}

-----------------------------------------------------------------------------
(* wakeupLock keeps the threads in EmbSendSignal apart, not the guest,     *)
(* which takes signals without it.                                         *)
WakeupLockFree == tPC \notin {"bit", "send"} /\ \A s \in Senders : sPC[s] = "idle"

(* EmbSendSignal(signal), under wakeupLock: load the mask, ...             *)
SendLoad ==
    /\ loaded' = host_to_guest_signals
    /\ UNCHANGED <<host_to_guest_signals, suspend, ePC>>

(* ... store it with the signal's bit (bits the guest has taken since come *)
(* back) ...                                                               *)
SendBit(signal) ==
    /\ host_to_guest_signals' = loaded \cup {signal}
    /\ loaded' = {}
    /\ UNCHANGED <<suspend, ePC>>

(* ... and interrupt the emulator and wake it if it waits on wakeupSignal. *)
(* WaitForLifeSupport takes wakeupLock only to wait, which gives it up.    *)
SendWake ==
    /\ suspend' = TRUE
    /\ ePC' = IF ePC = "wait" THEN "run" ELSE ePC
    /\ UNCHANGED <<host_to_guest_signals, loaded>>

-----------------------------------------------------------------------------
(* IntervalTimerDriver.  Between TimerTest and the wait, and from a wakeup *)
(* to the next wait, clockLock is held.                                    *)

ClockLockFree == tPC \in {"start", "wait", "timed", "woken", "expired"}

(* Its first store is not under clockLock. *)
TimerStart ==
    /\ tPC = "start"
    /\ clockTime' = -1
    /\ tPC' = "woken"
    /\ early' = programmed
    /\ UNCHANGED <<tTimeout, wakeup, sPC, programmed, overwritten, sent>>

(* Wait until the timeout, or, with none, indefinitely. *)
TimerWait ==
    IF clockTime >= 0
    THEN tPC' = "timed" /\ tTimeout' = clockTime
    ELSE tPC' = "wait" /\ UNCHANGED tTimeout

(* Mutant: wait indefinitely whatever clockTime is. *)
TimerRelockForgetful ==
    /\ tPC = "woken"
    /\ tPC' = "wait"
    /\ UNCHANGED <<tTimeout, clockTime, wakeup, sPC, past>>

(* Get clockLock, at first or out of a wait that was signalled, and wait.  *)
TimerRelock ==
    /\ tPC = "woken"
    /\ TimerWait
    /\ UNCHANGED <<clockTime, wakeup, sPC, past>>

(* The timed wait times out; clockLock is still to be got. *)
TimerExpire ==
    /\ tPC = "timed"
    /\ tPC' = "expired"
    /\ UNCHANGED <<clockTime, tTimeout, wakeup, sPC, past>>

(* ETIMEDOUT, with clockLock: send the clock signal, ... *)
TimerSend ==
    /\ tPC = "expired"
    /\ WakeupLockFree
    /\ SendLoad
    /\ tPC' = "bit"
    /\ UNCHANGED <<clockTime, tTimeout, sPC, past>>

TimerBit ==
    /\ tPC = "bit"
    /\ SendBit(Clock)
    /\ tPC' = "send"
    /\ UNCHANGED <<clockTime, tTimeout, sPC, past>>

TimerWake ==
    /\ tPC = "send"
    /\ SendWake
    /\ sent' = sent \cup {<<tTimeout, programmed>>}
    /\ tPC' = "clear"
    /\ UNCHANGED <<clockTime, tTimeout, sPC, programmed, early, overwritten>>

(* ... clear the timeout, whichever it is by now, and wait again. *)
TimerClear ==
    /\ tPC = "clear"
    /\ clockTime' = -1
    /\ tPC' = "wait"
    /\ UNCHANGED <<tTimeout, wakeup, sPC, past>>

TimerStep ==
    \/ TimerStart \/ TimerRelock \/ TimerExpire
    \/ TimerSend \/ TimerBit \/ TimerWake \/ TimerClear

-----------------------------------------------------------------------------
(* Another thread sends its signal. *)
SenderSend(s) ==
    /\ sPC[s] = "idle"
    /\ WakeupLockFree
    /\ SendLoad
    /\ sPC' = [sPC EXCEPT ![s] = "bit"]
    /\ UNCHANGED <<timer, past>>

SenderBit(s) ==
    /\ sPC[s] = "bit"
    /\ SendBit(s)
    /\ sPC' = [sPC EXCEPT ![s] = "send"]
    /\ UNCHANGED <<timer, past>>

(* Mutant: the emulator is not interrupted, only woken. *)
SenderWakeOnly(s) ==
    /\ sPC[s] = "send"
    /\ ePC' = IF ePC = "wait" THEN "run" ELSE ePC
    /\ sPC' = [sPC EXCEPT ![s] = "idle"]
    /\ UNCHANGED <<host_to_guest_signals, loaded, suspend, timer, past>>

SenderWake(s) ==
    /\ sPC[s] = "send"
    /\ SendWake
    /\ sPC' = [sPC EXCEPT ![s] = "idle"]
    /\ UNCHANGED <<timer, past>>

-----------------------------------------------------------------------------
(* The emulator thread *)

(* Mutant: the timeout is converted to nanoseconds here as well. *)
SetIntervalTimerNanoseconds ==
    /\ ePC = "run" /\ programmed < MaxTimeouts
    /\ ClockLockFree
    /\ programmed' = programmed + 1
    /\ clockTime' = 1000 * (programmed + 1)
    /\ tPC' = IF tPC \in {"wait", "timed"} THEN "woken" ELSE tPC
    /\ UNCHANGED <<tTimeout, wakeup, sPC, early, overwritten, sent>>

(* SetIntervalTimer, under clockLock: the timeout replaces the previous    *)
(* one and a waiting timer thread is signalled.                            *)
SetIntervalTimer ==
    /\ ePC = "run" /\ programmed < MaxTimeouts
    /\ ClockLockFree
    /\ programmed' = programmed + 1
    /\ clockTime' = programmed + 1
    /\ tPC' = IF tPC \in {"wait", "timed"} THEN "woken" ELSE tPC
    /\ overwritten' = IF tPC = "expired" THEN overwritten \cup {programmed + 1} ELSE overwritten
    /\ UNCHANGED <<tTimeout, wakeup, sPC, early, sent>>

(* WaitForLifeSupport: with signals pending it interrupts the emulator     *)
(* itself, unless the guest, in either mode here, is in FEP mode ...       *)
WaitCheck ==
    /\ ePC = "run"
    /\ \E fepMode \in BOOLEAN :
          IF host_to_guest_signals # {} /\ ~fepMode
          THEN suspend' = TRUE /\ UNCHANGED ePC
          ELSE ePC' = "waitLock" /\ UNCHANGED suspend
    /\ UNCHANGED <<host_to_guest_signals, loaded, timer, sPC, past>>

(* ... else it locks wakeupLock and waits on wakeupSignal ...              *)
WaitBlock ==
    /\ ePC = "waitLock"
    /\ WakeupLockFree
    /\ ePC' = "wait"
    /\ UNCHANGED <<host_to_guest_signals, loaded, suspend, timer, sPC, past>>

(* Mutant: pthread_cond_wait. *)
WaitForEver == FALSE /\ UNCHANGED timerVars

(* ... for five seconds at most. *)
WaitTimeout ==
    /\ ePC = "wait"
    /\ ePC' = "run"
    /\ UNCHANGED <<host_to_guest_signals, loaded, suspend, timer, sPC, past>>

(* AllowSequenceBreaks, ProcessSuspend: a break is taken at a branch. *)
TakeBreak ==
    /\ ePC = "run" /\ suspend
    /\ ePC' = "suspend"
    /\ UNCHANGED <<host_to_guest_signals, loaded, suspend, timer, sPC, past>>

ClearSuspend ==
    /\ ePC = "suspend"
    /\ suspend' = FALSE
    /\ ePC' = "break"
    /\ UNCHANGED <<host_to_guest_signals, loaded, timer, sPC, past>>

(* The guest's sequence break handler takes every pending signal, in one   *)
(* access of the mask and without wakeupLock (its code is external).       *)
GuestBreak ==
    /\ ePC = "break"
    /\ host_to_guest_signals' = {}
    /\ ePC' = "run"
    /\ UNCHANGED <<loaded, suspend, timer, sPC, past>>

BreakStep == TakeBreak \/ ClearSuspend \/ GuestBreak

-----------------------------------------------------------------------------
TimerNext ==
    \/ TimerStep
    \/ \E s \in Senders : SenderSend(s) \/ SenderBit(s) \/ SenderWake(s)
    \/ SetIntervalTimer
    \/ WaitCheck \/ WaitBlock \/ WaitTimeout
    \/ BreakStep

TimerSpec == TimerInit /\ [][TimerNext]_timerVars

(* Every thread runs, waits that time out do so, and the guest reaches     *)
(* branches (where breaks are taken) as well as its idle process.          *)
TimerFairness ==
    /\ SF_timerVars(TimerStep)
    /\ \A s \in Senders : WF_timerVars(SenderBit(s) \/ SenderWake(s))
    /\ SF_timerVars(WaitBlock) /\ WF_timerVars(WaitTimeout)
    /\ SF_timerVars(BreakStep)

TimerFairSpec == TimerSpec /\ TimerFairness
-----------------------------------------------------------------------------
(* Properties *)

(* Every variable has its type. *)
TimerTypeOK ==
    /\ clockTime \in -1 .. MaxTimeouts
    /\ tPC \in {"start", "wait", "timed", "woken", "expired", "bit", "send", "clear"}
    /\ tTimeout \in 0 .. MaxTimeouts
    /\ host_to_guest_signals \subseteq Signal /\ loaded \subseteq Signal /\ suspend \in BOOLEAN
    /\ ePC \in {"run", "waitLock", "wait", "suspend", "break"}
    /\ sPC \in [Senders -> {"idle", "bit", "send"}]
    /\ programmed \in 0 .. MaxTimeouts /\ early \in 0 .. programmed
    /\ overwritten \subseteq 1 .. programmed
    /\ sent \subseteq (0 .. MaxTimeouts) \X (0 .. MaxTimeouts)

(* EmbSendSignal sets the bit before it interrupts the emulator, and       *)
(* ProcessSuspend clears `suspend' before the break is taken: a pending    *)
(* signal always has an interrupt ahead of it, none is swallowed between   *)
(* the unlocked loads and stores of `suspend'.                             *)
PendingIsNoticed ==
    host_to_guest_signals # {} =>
        \/ suspend \/ ePC = "break"
        \/ tPC = "send" \/ \E s \in Senders : sPC[s] = "send"

(* "Because sometimes got here with signals": the test of WaitForLife-     *)
(* Support is not under wakeupLock, so that the emulator may fall asleep   *)
(* on a pending signal, but the signal is taken in the end.                *)
PendingIsTaken == host_to_guest_signals # {} ~> host_to_guest_signals = {}

(* "The interval timer thread will wakeup, note that there's a new         *)
(* timeout, and go back to sleep with the new timeout" (polling.c:285-287):*)
(* the end of the last timeout programmed, since the thread has started,   *)
(* is signalled.  The one exception is a timeout that was programmed after *)
(* the one before had expired and before its thread had clockLock: the     *)
(* thread clears the new one (polling.c:274).  Then the guest gets a clock *)
(* signal all the same, that of a timeout before it, and too early.        *)
NewTimeoutNoted ==
    \A n \in 1 .. MaxTimeouts :
        (programmed = n /\ n > early /\ tPC # "start") ~>
            \/ <<n, n>> \in sent
            \/ programmed > n
            \/ n \in overwritten /\ \E m \in 1 .. n - 1 : <<m, n>> \in sent
=============================================================================
