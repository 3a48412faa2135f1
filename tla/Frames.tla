-------------------------------- MODULE Frames --------------------------------
(***************************************************************************)
(* The control stack of c-emulator/emulator.c and traps.c: frames,         *)
(* multiple values, special bindings, catch blocks and unwind-protects,    *)
(* and the traps that interrupt the instructions that work on them.        *)
(*                                                                         *)
(* An instruction is one step unless it can be interrupted in the middle,  *)
(* by a memory trap or a sequence break: it is then given up and executed  *)
(* again when the trap's handler returns.  Such an instruction is fetched  *)
(* (pc), executed in steps (op), and each of the steps can be trapped.     *)
(*                                                                         *)
(* stack holds the words up to restartsp; what lies above is dead.  The    *)
(* stack cache is taken to be the whole stack.  A pc names the activation  *)
(* whose code it points into, and the instruction if it is to be executed  *)
(* again.  The guest's code is well nested: it pops, unbinds, closes and   *)
(* finishes what it pushed, bound, opened and started last (`open').       *)
(***************************************************************************)
EXTENDS Integers, Sequences, FiniteSets

CONSTANTS Locs,         \* special variables
          MaxWords,     \* bound on the control stack
          MaxFrames,    \* bound on the frames in it
          MaxOpen,      \* bound on what a frame has open
          MaxBindings,  \* bound on the binding stack
          Counts,       \* numbers of values a function returns
          MaxTraps      \* bound on traps

(* There is room for the first frame. *)
ASSUME FramesAssumption ==
    /\ MaxWords \in Nat \ {0, 1} /\ MaxFrames \in Nat /\ MaxOpen \in Nat
    /\ MaxBindings \in Nat /\ Counts \subseteq Nat /\ MaxTraps \in Nat

VARIABLES
  stack, fp, lp, sp,      \* the control stack and its pointers
  continuation, control,  \* the processor's registers of these names
  CatchBlockPointer,      \* address of the innermost catch block, or 0
  bindings,               \* the binding stack, up to BindingStackPointer
  cells,                  \* the special variables' value cells
  pc, op,                 \* next instruction; the one that is being executed
  traps,                  \* traps so far
  acts,                   \* history: the activations and what each has open
  spoiled                 \* history: restartsp of the returns that were given
                          \* up when they had overwritten their values

regs == <<fp, lp, sp, continuation, control>>
state == <<stack, regs, CatchBlockPointer, bindings, cells, pc, op, traps, acts>>
vars  == <<state, spoiled>>

-----------------------------------------------------------------------------
(* Words of the stack *)
Value(v)   == [t |-> "value", v |-> v]
PC(p)      == [t |-> "pc", pc |-> p]
Control(c) == [t |-> "control", c |-> c]
NIL        == Value(0)
Values(n)  == [m \in 1 .. n |-> Value(m)]   \* operands, arguments or results

Depth  == Len(acts)
Act    == acts[Depth]
Code(d) == [i |-> "code", d |-> d]   \* the code of activation d
Idle   == [in |-> "idle"]

(* Mutant: the catch bit is left as it is. *)
FreshKeepsCatch(c, argSize, frameSize, disp) ==
    [c EXCEPT !.args = argSize, !.frame = frameSize, !.disp = disp,
              !.extra = FALSE, !.started = FALSE, !.bind = FALSE]

(* The control register of a function that was just called. *)
Fresh(c, argSize, frameSize, disp) ==
    [c EXCEPT !.args = argSize, !.frame = frameSize, !.disp = disp,
              !.extra = FALSE, !.started = FALSE,
              !.catch = FALSE, !.bind = FALSE]

InitialControl ==
    [args |-> 2, frame |-> 0, disp |-> "effect", extra |-> FALSE,
     started |-> FALSE, inProgress |-> FALSE, catch |-> FALSE, bind |-> FALSE]

(* The outermost function, which calls others and never returns. *)
Init ==
    /\ stack = <<PC(Code(0)), Control(InitialControl)>>
    /\ fp = 1 /\ lp = 3 /\ sp = 2
    /\ continuation = Code(0) /\ control = InitialControl
    /\ CatchBlockPointer = 0
    /\ bindings = <<>> /\ cells = [x \in Locs |-> 0]
    /\ pc = Code(1) /\ op = Idle
    /\ traps = 0
    /\ acts = <<[open |-> <<>>, bsp |-> 0, saved |-> <<>>]>>
    /\ spoiled = {}

-----------------------------------------------------------------------------
(* What the guest's code has open in its frame: started calls, bindings,   *)
(* catch blocks, and cleanup code to be left by a jump.                    *)

Open == Act.open
Innermost == IF Open = <<>> THEN [k |-> "frame", at |-> fp + 1] ELSE Open[Len(Open)]

Opened(x) == [acts EXCEPT ![Depth].open = Append(@, x)]
Closed(n) == [acts EXCEPT ![Depth].open = SubSeq(@, 1, n)]

(* What lies above its last word the guest can take off the stack. *)
Base == Innermost.at

SumOpen[d \in 0 .. Depth] == IF d = 0 THEN 0 ELSE Len(acts[d].open) + SumOpen[d - 1]

(* Bound on what is open in all the frames. *)
Opening == SumOpen[Depth] < MaxOpen /\ sp = Base

Started == {n \in 1 .. Len(Open) : Open[n].k = "start"}
Bound == {n \in 1 .. Len(Open) : Open[n].k = "bind"}
Catches(a) == {n \in 1 .. Len(a.open) : a.open[n].k = "catch"}
InnermostCatch(a) == CHOOSE n \in Catches(a) : \A m \in Catches(a) : m <= n

(* The guest's idea of its bindings is right: where it is not, after one   *)
(* too many was undone, its code is not followed any further.              *)
Intact == Len(bindings) = Act.bsp + Cardinality(Bound)

(* The guest is between two instructions, and about to execute any. *)
Guest == op = Idle /\ pc.i = "code" /\ Intact

-----------------------------------------------------------------------------
(* Traps *)

(* TakePreTrap: a frame above restartsp, whose continuation is the         *)
(* instruction that is given up.  Trap modes and the trap's own arguments  *)
(* are left out.                                                           *)
TrapFrame(where) ==
    /\ stack' = where \o <<PC(continuation), Control(control), NIL, PC(pc)>>
    /\ sp' = Len(where) + 4
    /\ fp' = Len(where) + 1
    /\ lp' = sp' + 1
    /\ control' = Fresh(control, lp' - fp', fp' - fp, "effect")
    /\ continuation' = pc
    /\ pc' = Code(Depth + 1)
    /\ op' = Idle
    /\ acts' = Append(acts, [open |-> <<>>, bsp |-> Len(bindings),
                 saved |-> [fp |-> fp, lp |-> lp, sp |-> Len(where),
                            continuation |-> continuation, control |-> control,
                            pc |-> pc, catch |-> CatchBlockPointer]])
    /\ traps' = traps + 1
    /\ UNCHANGED <<CatchBlockPointer, bindings, cells>>

(* An instruction is given up before it starts, where Unbind reads memory, *)
(* and where a return allows sequence breaks.                              *)
Interruptible ==
    \/ op = Idle
    \/ op.in \in {"unbind", "close", "unwind"} /\ op.left > 0
    \/ op.in = "return" /\ (op.hop \/ (control.bind /\ ~control.catch))

Room(n) == Len(stack) + n <= MaxWords

(* Mutant: the frame is built above sp. *)
PreTrapAtSp ==
    /\ Interruptible
    /\ traps < MaxTraps /\ Depth < MaxFrames /\ Room(4)
    /\ TrapFrame(SubSeq(stack, 1, sp))

PreTrap ==
    /\ Interruptible
    /\ traps < MaxTraps /\ Depth < MaxFrames /\ Room(4)
    /\ TrapFrame(stack)

(* TakePostTrap: the instruction's operands are moved into the handler's   *)
(* frame, and the continuation is the next instruction.                    *)
PostTrap(arity) ==
    /\ Guest
    /\ traps < MaxTraps /\ Depth < MaxFrames /\ Room(4 + arity)
    /\ LET top == sp + arity   \* with the operands
       IN /\ fp' = top - (arity - 1)
          /\ sp' = top + 4
          /\ lp' = sp' + 1
    /\ stack' = stack \o <<PC(continuation), Control(control), NIL, PC(pc)>>
                     \o Values(arity)
    /\ control' = Fresh(control, lp' - fp', fp' - fp, "effect")
    /\ continuation' = pc
    /\ pc' = Code(Depth + 1)
    /\ acts' = Append(acts, [open |-> <<>>, bsp |-> Len(bindings),
                 saved |-> [fp |-> fp, lp |-> lp, sp |-> sp,
                            continuation |-> continuation, control |-> control,
                            pc |-> pc, catch |-> CatchBlockPointer]])
    /\ traps' = traps + 1
    /\ UNCHANGED <<CatchBlockPointer, bindings, cells, op>>

-----------------------------------------------------------------------------
(* Instructions that are not interrupted *)

(* SET-SP-TO-ADDRESS: results and closed catch blocks are taken off. *)
Pop ==
    /\ Guest /\ sp > Base
    /\ stack' = SubSeq(stack, 1, Base)
    /\ sp' = Base
    /\ UNCHANGED <<fp, lp, continuation, control, CatchBlockPointer, bindings,
                   cells, pc, op, traps, acts>>

(* START-CALL: save the continuation and the control register; a closure's *)
(* environment is an extra argument.                                       *)
StartCall(extra) ==
    /\ Guest /\ Opening /\ Depth < MaxFrames /\ Room(3)
    /\ stack' = stack \o <<PC(continuation), Control(control)>>
                      \o (IF extra THEN <<Value(1)>> ELSE <<>>)
    /\ sp' = Len(stack')
    /\ control' = [control EXCEPT !.started = TRUE, !.extra = extra]
    /\ continuation' = Code(Depth + 1)
    /\ acts' = Opened([k |-> "start", at |-> sp', sp |-> sp,
                       continuation |-> continuation, control |-> control])
    /\ UNCHANGED <<fp, lp, CatchBlockPointer, bindings, cells, pc, op, traps>>

(* FINISH-CALL-N: the new frame begins at the words that StartCall pushed. *)
(* Its operand is one more than the number of arguments.                   *)
FinishCall(args, disp) ==
    /\ Guest /\ Innermost.k = "start" /\ sp = Base /\ Room(args)
    /\ disp = "return" => Depth > 1 /\ Started = {Len(Open)}
    /\ LET start == Innermost
           top   == sp + args
           op1   == top - (args + 1) - (IF control.extra THEN 1 ELSE 0)
           op2   == top + 1
       IN /\ sp' = top
          /\ control' = Fresh(control, op2 - op1, op1 - fp, disp)
          /\ fp' = op1
          /\ lp' = op2
          /\ acts' = Append(Closed(Len(Open) - 1),
                       [open |-> <<>>, bsp |-> Len(bindings),
                        saved |-> [fp |-> fp, lp |-> lp, sp |-> start.sp,
                                   continuation |-> start.continuation,
                                   control |-> start.control,
                                   pc |-> pc, catch |-> CatchBlockPointer]])
    /\ stack' = stack \o Values(args)
    /\ pc' = continuation
    /\ continuation' = pc
    /\ UNCHANGED <<CatchBlockPointer, bindings, cells, op, traps>>

(* Mutant: CR.ArgumentSize is not updated. *)
LocateLocalsKeep ==
    /\ Guest /\ Depth > 1 /\ Open = <<>> /\ sp + 1 = lp /\ control.args > 2 /\ Room(1)
    /\ lp' = sp
    /\ stack' = Append(stack, Value(control.args - 2))
    /\ sp' = sp + 1
    /\ UNCHANGED <<fp, continuation, control, CatchBlockPointer, bindings, cells,
                   pc, op, traps, acts>>

(* LOCATE-LOCALS: the locals begin above the arguments. *)
LocateLocals ==
    /\ Guest /\ Depth > 1 /\ Open = <<>> /\ sp + 1 = lp /\ control.args > 2 /\ Room(1)
    /\ lp' = sp
    /\ stack' = Append(stack, Value(control.args - 2))
    /\ sp' = sp + 1
    /\ control' = [control EXCEPT !.args = lp' - fp]
    /\ UNCHANGED <<fp, continuation, CatchBlockPointer, bindings, cells, pc, op,
                   traps, acts>>

(* BIND-LOCATIVE-TO-VALUE.  What can be trapped is done before anything    *)
(* below the new BindingStackPointer is changed.                           *)
BindLocativeToValue(x, value) ==
    /\ Guest /\ Depth > 1 /\ Opening /\ Len(bindings) < MaxBindings
    /\ bindings' = Append(bindings, [loc |-> x, old |-> cells[x],
                                     bind |-> control.bind, new |-> value])
    /\ cells' = [cells EXCEPT ![x] = value]
    /\ control' = [control EXCEPT !.bind = TRUE]
    /\ acts' = Opened([k |-> "bind", at |-> sp])
    /\ UNCHANGED <<stack, fp, lp, sp, continuation, CatchBlockPointer, pc, op, traps>>

(* BIND-LOCATIVE leaves the cell as it is. *)
BindLocative(x) == BindLocativeToValue(x, cells[x])

(* CATCH-OPEN, after the guest has pushed the pc of the handler. *)
CatchOpen(unwindProtect) ==
    /\ Guest /\ Depth > 1 /\ Opening /\ Room(4)
    /\ stack' = stack \o <<PC(pc),
                  [t |-> "bsp", n |-> Len(bindings), uwp |-> unwindProtect],
                  [t |-> "previous", p |-> CatchBlockPointer,
                   extra |-> control.extra, catch |-> control.catch]>>
                  \o (IF unwindProtect THEN <<>> ELSE <<PC(continuation)>>)
    /\ sp' = Len(stack')
    /\ CatchBlockPointer' = sp + 1
    /\ control' = [control EXCEPT !.catch = TRUE]
    /\ acts' = Opened([k |-> "catch", at |-> sp', block |-> sp + 1,
                       uwp |-> unwindProtect])
    /\ UNCHANGED <<fp, lp, continuation, bindings, cells, pc, op, traps>>

(* %JUMP out of cleanup code, to the pc on the top of the stack. *)
Jump ==
    /\ Guest /\ Innermost.k = "cleanup" /\ sp = Base
    /\ pc' = stack[sp].pc
    /\ control' = [control EXCEPT !.inProgress = stack[sp].inProgress]
    /\ stack' = SubSeq(stack, 1, sp - 1)
    /\ sp' = sp - 1
    /\ acts' = Closed(Len(Open) - 1)
    /\ UNCHANGED <<fp, lp, continuation, CatchBlockPointer, bindings, cells, op, traps>>

-----------------------------------------------------------------------------
(* Instructions that can be interrupted: they are fetched, ...             *)
Fetch(instruction) ==
    /\ Guest
    /\ pc' = instruction
    /\ UNCHANGED <<fp, lp, continuation, control, CatchBlockPointer, bindings,
                   cells, op, traps, acts>>

FetchUnbindN(n) ==
    /\ n <= Len(Open) /\ \A m \in Len(Open) - n + 1 .. Len(Open) : m \in Bound
    /\ Fetch([i |-> "unbind", d |-> Depth, n |-> n])
    /\ UNCHANGED <<stack, sp>>

FetchCatchClose ==
    /\ Catches(Act) # {}
    /\ \A n \in InnermostCatch(Act) + 1 .. Len(Open) : n \in Bound
    /\ Fetch([i |-> "close", d |-> Depth])
    /\ UNCHANGED <<stack, sp>>

(* The values are on the stack, for a single one it is the top word. *)
FetchReturn(kind, n) ==
    /\ Depth > 1 /\ Started = {} /\ Room(n)
    /\ Fetch([i |-> "return", d |-> Depth, k |-> kind, n |-> n])
    /\ stack' = stack \o Values(n)
    /\ sp' = sp + n

(* ... begun, the first time or again after a trap, ...                    *)
Block == [handler  |-> stack[CatchBlockPointer].pc,
          bsp      |-> stack[CatchBlockPointer + 1].n,
          uwp      |-> stack[CatchBlockPointer + 1].uwp,
          previous |-> stack[CatchBlockPointer + 2]]

Max0(n) == IF n > 0 THEN n ELSE 0

Begin ==
    /\ op = Idle /\ pc.i # "code"
    /\ op' = CASE pc.i = "unbind" -> [in |-> "unbind", left |-> pc.n]
               [] pc.i = "close"  -> [in |-> "close", control |-> control,
                                      left |-> Max0(Len(bindings) - Block.bsp)]
               [] pc.i = "return" -> [in |-> "return", hop |-> FALSE,
                                      scratch |-> stack[sp]]
    /\ UNCHANGED <<stack, regs, CatchBlockPointer, bindings, cells, pc, traps, acts>>

(* Mutant: the cell is not restored. *)
UnbindForgets ==
    LET b == bindings[Len(bindings)]
    IN /\ control.bind /\ bindings # <<>>
       /\ bindings' = SubSeq(bindings, 1, Len(bindings) - 1)
       /\ control' = [control EXCEPT !.bind = b.bind]
       /\ UNCHANGED cells

(* ... and executed.  Unbind puts back the value the innermost binding     *)
(* saved, and the control register's bit as it was before it.  In a return *)
(* it cannot fail: the loop tests the bit that Unbind tests.  With the bit *)
(* set and no binding left the code reads below the binding stack: there   *)
(* it is not followed any further.                                         *)
Unbind ==
    LET b == bindings[Len(bindings)]
    IN /\ control.bind /\ bindings # <<>>
       /\ cells' = [cells EXCEPT ![b.loc] = b.old]
       /\ bindings' = SubSeq(bindings, 1, Len(bindings) - 1)
       /\ control' = [control EXCEPT !.bind = b.bind]

(* One turn of the loops of UNBIND-N, CATCH-CLOSE and HandleUnwindProtect. *)
(* Where Unbind fails for want of a binding of the frame's own it is an    *)
(* illegal operand, a trap like the others.                                *)
UnbindOne ==
    /\ op.in \in {"unbind", "close", "unwind"} /\ op.left > 0
    /\ Unbind
    /\ op' = [op EXCEPT !.left = @ - 1]
    /\ UNCHANGED <<stack, fp, lp, sp, continuation, CatchBlockPointer, pc, traps, acts>>

UnbindNEnd ==
    /\ op.in = "unbind" /\ op.left = 0
    /\ acts' = Closed(Len(Open) - pc.n)
    /\ pc' = Code(pc.d)
    /\ op' = Idle
    /\ UNCHANGED <<stack, regs, CatchBlockPointer, bindings, cells, traps>>

(* Leave the innermost catch block: c is the control register without it.  *)
Uncaught(c) == [c EXCEPT !.extra = Block.previous.extra,
                         !.catch = Block.previous.catch]

(* Enter the cleanup code of an unwind-protect, to come back to p. *)
EnterCleanup(c, p) ==
    /\ stack' = Append(stack, [t |-> "pc", pc |-> p, inProgress |-> c.inProgress])
    /\ sp' = Len(stack) + 1
    /\ control' = [c EXCEPT !.inProgress = TRUE]
    /\ pc' = Block.handler

CloseCatch(item) ==
    LET open == SubSeq(Open, 1, InnermostCatch(Act) - 1)
    IN acts' = [acts EXCEPT ![Depth].open = open \o item]

(* CATCH-CLOSE, with the control register as it was before the loop. *)
CatchCloseEnd ==
    /\ op.in = "close" /\ op.left = 0
    /\ CatchBlockPointer' = Block.previous.p
    /\ IF Block.uwp
       THEN /\ Room(1)
            /\ EnterCleanup(Uncaught(op.control), Code(pc.d))
            /\ CloseCatch(<<[k |-> "cleanup", at |-> sp']>>)
       ELSE /\ control' = Uncaught(op.control)
            /\ pc' = Code(pc.d)
            /\ CloseCatch(<<>>)
            /\ UNCHANGED <<stack, sp>>
    /\ op' = Idle
    /\ UNCHANGED <<fp, lp, continuation, bindings, cells, traps>>

(* A return first takes the frame's catch blocks away ...                  *)
ReturnUncatch ==
    /\ op.in = "return" /\ control.catch /\ ~Block.uwp
    /\ control' = Uncaught(control)
    /\ CatchBlockPointer' = Block.previous.p
    /\ CloseCatch(SubSeq(Open, InnermostCatch(Act) + 1, Len(Open)))
    /\ op' = [op EXCEPT !.hop = FALSE]
    /\ UNCHANGED <<stack, fp, lp, sp, continuation, bindings, cells, pc, traps>>

(* ... giving itself up for the cleanup code of an unwind-protect ...      *)
ReturnUnwind ==
    /\ op.in = "return" /\ control.catch /\ Block.uwp
    /\ sp' = Len(stack)
    /\ op' = [in |-> "unwind", control |-> control,
              left |-> Max0(Len(bindings) - Block.bsp)]
    /\ UNCHANGED <<stack, fp, lp, continuation, control, CatchBlockPointer,
                   bindings, cells, pc, traps, acts>>

(* HandleUnwindProtect, likewise with the control register of before. *)
HandleUnwindProtect ==
    /\ op.in = "unwind" /\ op.left = 0 /\ Room(1)
    /\ EnterCleanup(Uncaught(op.control), pc)
    /\ CatchBlockPointer' = Block.previous.p
    /\ CloseCatch(<<[k |-> "cleanup", at |-> sp']>>)
    /\ op' = Idle
    /\ UNCHANGED <<fp, lp, continuation, bindings, cells, traps>>

(* ... then undoes its bindings ... *)
ReturnUnbind ==
    /\ op.in = "return" /\ ~control.catch
    /\ Unbind
    /\ op' = [op EXCEPT !.hop = FALSE]
    /\ UNCHANGED <<stack, fp, lp, sp, continuation, CatchBlockPointer, pc, traps, acts>>

(* ... and leaves the frame.  What it pushes for the caller overwrites the *)
(* frame.  With disposition Return the caller returns the same values, in  *)
(* the same instruction.                                                   *)
Returned(disp, n) ==
    LET block == SubSeq(stack, sp - n + 1, sp)
        first == IF n = 0 THEN NIL
                 ELSE IF pc.k = "single" THEN op.scratch ELSE block[1]
    IN CASE disp = "effect"   -> <<>>
         [] disp = "value"    -> <<first>>
         [] disp = "multiple" ->
              (IF pc.k = "single" THEN <<first>> ELSE block) \o <<Value(n)>>
         [] disp = "return"   -> IF pc.k = "single" THEN <<>> ELSE block

(* Mutant: bindings are not looked at. *)
UncaughtOnly == ~control.catch

(* Nothing of the frame is left to clean up. *)
CleanedUp == ~control.catch /\ ~control.bind

(* Mutant: with the argument size of the frame that is left. *)
LocalsOf(caller) == fp - control.frame + control.args

(* The caller's lp. *)
CallerLocals(caller) == fp - control.frame + caller.args

LeaveFrame ==
    /\ op.in = "return" /\ CleanedUp /\ Depth > 1
    /\ LET disp   == control.disp
           caller == stack[fp + 1].c
           pushed == Returned(disp, pc.n)
       IN /\ continuation' = stack[fp].pc
          /\ sp' = fp - 1 + Len(pushed)
          /\ fp' = fp - control.frame
          /\ lp' = CallerLocals(caller)
          /\ control' = caller
          /\ IF disp = "return"
             THEN /\ stack' = [a \in 1 .. Len(stack) |->
                                 IF a \in fp .. sp' THEN pushed[a - fp + 1] ELSE stack[a]]
                  /\ op' = [op EXCEPT !.hop = TRUE]
                  /\ UNCHANGED pc
             ELSE /\ stack' = SubSeq(stack, 1, fp - 1) \o pushed
                  /\ op' = Idle
                  /\ pc' = continuation
    /\ acts' = SubSeq(acts, 1, Depth - 1)
    /\ UNCHANGED <<CatchBlockPointer, bindings, cells, traps>>

Return ==
    \/ ReturnUncatch \/ ReturnUnwind \/ HandleUnwindProtect
    \/ ReturnUnbind \/ LeaveFrame

Dispositions == {"effect", "value", "multiple", "return"}

GuestStep ==
    \/ Pop \/ LocateLocals \/ Jump
    \/ \E extra \in BOOLEAN : StartCall(extra)
    \/ \E args \in 0 .. 1, disp \in Dispositions : FinishCall(args, disp)
    \/ \E x \in Locs : BindLocative(x) \/ BindLocativeToValue(x, Len(bindings) + 1)
    \/ \E unwindProtect \in BOOLEAN : CatchOpen(unwindProtect)
    \/ \E n \in 1 .. MaxBindings : FetchUnbindN(n)
    \/ FetchCatchClose
    \/ FetchReturn("single", 1)
    \/ \E n \in Counts : FetchReturn("multiple", n)

Step ==
    \/ GuestStep
    \/ Begin \/ UnbindOne \/ UnbindNEnd \/ CatchCloseEnd \/ Return
    \/ PreTrap
    \/ \E arity \in {0, 2} : PostTrap(arity)

(* The values a return begins with, the first time or again. *)
Operands == SubSeq(stack, Len(stack) - pc.n + 1, Len(stack))

GivenUp == op.in = "return" /\ op'.in # "return" /\ Depth' >= Depth
Done    == op.in = "return" /\ op' = Idle /\ Depth' < Depth

(* A return that goes through several frames is given up when what it put  *)
(* into them has overwritten the values it would begin with again.         *)
Spoil ==
    spoiled' = IF GivenUp /\ Operands # Values(pc.n) THEN spoiled \cup {Len(stack)}
               ELSE IF Done THEN spoiled \ {Len(stack)}
               ELSE spoiled

Next == Step /\ Spoil

Spec == Init /\ [][Next]_vars

-----------------------------------------------------------------------------
(* Properties *)

Instructions == {"code", "unbind", "close", "return"}

(* The registers have their types, and the pointers point into the stack.  *)
FramesTypeOK ==
    /\ Len(stack) <= MaxWords
    /\ sp \in 0 .. Len(stack)
    /\ op = Idle => sp = Len(stack)
    /\ fp \in 1 .. Len(stack) /\ lp = fp + control.args
    /\ CatchBlockPointer \in 0 .. Len(stack)
    /\ pc.i \in Instructions /\ continuation.i \in Instructions
    /\ cells \in [Locs -> 0 .. MaxBindings]
    /\ stack[fp].t = "pc" /\ stack[fp + 1].t = "control"

(* A function, and a trap's handler, gives its caller back what the caller *)
(* had when it started the call or was trapped: the frame, its locals, the *)
(* control register, the continuation, the catch blocks, and the place it  *)
(* goes on at or the instruction it executes again.                        *)
ReturnRestores ==
    [][Depth' < Depth =>
         LET s == Act.saved
         IN /\ fp' = s.fp /\ lp' = s.lp
            /\ control' = s.control /\ continuation' = s.continuation
            /\ CatchBlockPointer' = s.catch
            /\ op' = Idle => pc' = s.pc /\ s.sp <= sp' /\ sp' <= s.sp + pc.n + 1]_vars

(* However often the return is trapped, given up for cleanup code and      *)
(* executed again, and through however many frames it goes, the caller     *)
(* gets the values that were returned, unless it was given up when it had  *)
(* overwritten them: its copying is not "idempotent" then (README,         *)
(* section 5).                                                             *)
ReturnedIntact ==
    [][Depth' < Depth /\ op' = Idle /\ Len(stack) \notin spoiled =>
         CASE control.disp = "effect"   -> TRUE
           [] control.disp = "value"    ->
                stack'[sp'] = IF pc.n = 0 THEN NIL ELSE Value(1)
           [] control.disp = "multiple" ->
                /\ SubSeq(stack', sp' - pc.n, sp' - 1) = Values(pc.n)
                /\ stack'[sp'] = Value(pc.n)]_vars

(* A frame is left with all its bindings undone and its catch blocks taken *)
(* away, those of unwind-protects by way of their cleanup code.            *)
NothingLeftOpen ==
    [][Depth' < Depth => Len(bindings) <= Act.bsp /\ Catches(Act) = {}]_vars

(* "There are active catch blocks in the current frame": the control       *)
(* register's bit tells whether there are, across calls, traps and         *)
(* returns, and CatchBlockPointer points to the innermost block of all.    *)
CatchHonest ==
    /\ control.catch <=> Catches(Act) # {}
    /\ LET with == {d \in 1 .. Depth : Catches(acts[d]) # {}}
           last == CHOOSE d \in with : \A e \in with : e <= d
       IN CatchBlockPointer =
            IF with = {} THEN 0 ELSE acts[last].open[InnermostCatch(acts[last])].block

(* The first n entries of the binding stack b give x the value v, which is *)
(* that of the last of them that binds x.                                  *)
Gives(b, n, x, v) ==
    /\ (\A m \in 1 .. n : b[m].loc # x) => v = 0
    /\ \A m \in 1 .. n :
         b[m].loc = x /\ (\A k \in m + 1 .. n : b[k].loc # x) => v = b[m].new

(* Wherever the instructions that bind and unbind are interrupted, a cell  *)
(* has the value of its innermost binding and a binding keeps the value of *)
(* the one before it.                                                      *)
CellsAreCurrent ==
    \A x \in Locs :
      /\ Gives(bindings, Len(bindings), x, cells[x])
      /\ \A n \in 1 .. Len(bindings) :
           bindings[n].loc = x => Gives(bindings, n - 1, x, bindings[n].old)

(* "There are active bindings in the current frame" is what the bit should *)
(* say; after CATCH-CLOSE it does not (README, section 5), so that no run  *)
(* claims it.                                                              *)
BindingsHonest == control.bind => Len(bindings) > Act.bsp
=============================================================================
