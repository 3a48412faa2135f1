----------------------------- MODULE Instructions -----------------------------
(***************************************************************************)
(* The instructions on lists and fixnums of c-emulator/emulator.c, with    *)
(* the memory they read through: forwarding words, the collector's         *)
(* oldspace, and the traps that give an instruction up in the middle, to   *)
(* be executed again from its start when the trap's handler returns.       *)
(*                                                                         *)
(* An instruction is fetched, then takes one step for each word it reads   *)
(* (one turn of MemoryReadInternal's loop) and for each test between.      *)
(* stack holds the words up to restartsp; its operand is the top of it     *)
(* ("pop") or its first word ("local": addressed from fp, lp or sp).       *)
(* Addresses above N are oldspace: N + a is the old copy of word a.        *)
(***************************************************************************)
EXTENDS Arithmetic

CONSTANTS N,         \* words of list memory
          Starts,    \* stacks and memories an instruction can find
          MaxTraps   \* bound on page faults and sequence breaks

VARIABLES stack,    \* the words up to restartsp
          memory,   \* address -> a word: type, datum and cdr code
          op,       \* the instruction in execution
          was,      \* what it found when first fetched (history)
          traps     \* page faults and sequence breaks so far (bounded)

vars == <<stack, memory, op, was, traps>>

NIL         == [t |-> "nil", v |-> 0]
Fixnum1(n)  == [t |-> "fixnum", v |-> n]
List(a)     == [t |-> "list", v |-> a]
Pointers    == {"list", "locative", "one-q-forward", "element-forward", "monitor-forward"}
Types       == Pointers \cup {"nil", "fixnum", "double", "list-instance", "null"}
Cdrs        == {"next", "nil", "normal", "spare"}

(* A pointer is to a word of memory, or to its old copy. *)
Placed(w)   == w.t \in Pointers => w.v \in 1 .. 2 * N
Words       == {w \in [t : Types, v : Int] : Placed(w) /\ (w.t = "fixnum" => w.v \in Fixnum)}
MemoryWords == {w \in [t : Types, v : Int, cdr : Cdrs] : Placed(w)}

ASSUME InstructionsAssumption ==
    /\ N \in Nat \ {0} /\ MaxTraps \in Nat
    /\ \A s \in Starts : s.stack \in Seq(Words) /\ s.memory \in [1 .. N -> MemoryWords]

(* The words a program works on: what a read delivers is transported, and  *)
(* is neither a forwarding word nor null; there is one NIL.                *)
Invisible == {"one-q-forward", "element-forward", "monitor-forward", "null"}
Live == {w \in [t : Types \ Invisible, v : Int] :
            /\ w.t \in {"list", "locative"} => w.v \in 1 .. N
            /\ w.t = "nil" => w = NIL}

(* The stack has such words only, and no list runs out of the memory.      *)
ASSUME StartsAssumption ==
    \A s \in Starts :
       /\ \A k \in 1 .. Len(s.stack) : s.stack[k] \in Live
       /\ \A a \in 1 .. N : s.memory[a].t = "nil" => s.memory[a].v = 0
       /\ s.memory[N].cdr \notin {"next", "normal"}

(* Mutant: the cdr code is not masked off what was read. *)
ObjectUnmasked(w) == w
Object(w)  == [t |-> w.t, v |-> w.v]
OldP(x)    == x.t \in Pointers /\ x.v > N

Simple   == {"car", "cdr", "set-to-car", "set-to-cdr", "set-to-cdr-push-car"}
Searches == {"member", "assoc", "rgetf"}
Stores   == {"rplaca", "rplacd"}
Counting == {"increment", "decrement"}
Fields   == {"ldb", "dpb"}
Modes    == {"pop", "local"}

(* The operand's word, the stack pointer once it is addressed, and the     *)
(* word then at the top.                                                   *)
Slot(o) == IF o.m = "pop" THEN Len(stack) ELSE 1
SP(o)   == IF o.m = "pop" THEN Len(stack) - 1 ELSE Len(stack)
Arg(o)  == stack[Slot(o)]
TOS(o)  == stack[SP(o)]

(* The byte that LDB and DPB have encoded in them: the lower and the upper  *)
(* five bits of the immediate operand.                                     *)
Bytes  == [pos : 0 .. W - 1, size : 0 .. W - 1]
NoByte == [pos |-> 0, size |-> 0]

Idle == [in |-> "idle"]
Fetched(i, m, b) == [in |-> "run", i |-> i, m |-> m, byte |-> b, phase |-> "begin", vma |-> 0,
                     scratch |-> NIL, car |-> NIL, cdr |-> NIL]

InstructionsTypeOK ==
    /\ stack \in Seq([t : Types, v : Int])
    /\ \A a \in 1 .. 2 * N : memory[a].t \in Types /\ memory[a].cdr \in Cdrs
    /\ op.in \in {"idle", "run", "trapped", "done"}
    /\ op.in = "run" => op.vma \in 0 .. 2 * N
    /\ traps \in 0 .. MaxTraps

Init ==
    /\ \E s \in Starts :
          /\ stack = s.stack
          /\ memory = [a \in 1 .. 2 * N |->
                         IF a <= N THEN s.memory[a]
                         ELSE [t |-> "element-forward", v |-> a - N,
                               cdr |-> s.memory[a - N].cdr]]
    /\ op = Idle
    /\ was = [stack |-> stack, memory |-> memory, spilled |-> FALSE]
    /\ traps = 0

(***************************************************************************)
(* How an instruction goes on and how it ends.                             *)
(***************************************************************************)
Running(phase) == op.in = "run" /\ op.phase = phase

Continue(phase, vma) ==
    /\ op' = [op EXCEPT !.phase = phase, !.vma = vma]
    /\ UNCHANGED <<stack, memory, was, traps>>

Loop(l) ==
    /\ op' = [op EXCEPT !.phase = "loop", !.scratch = l]
    /\ UNCHANGED <<stack, memory, was, traps>>

Leaves(words, how) ==
    /\ stack' = words
    /\ op' = [op EXCEPT !.in = "done", !.phase = how]
    /\ UNCHANGED <<was, traps>>

Completes(words) == Leaves(words, "done") /\ UNCHANGED memory

Kept            == SubSeq(stack, 1, SP(op))
Pushing(x)      == Append(Kept, x)
SettingTOS(x)   == [Kept EXCEPT ![SP(op)] = x]
SettingArg(x)   == [Kept EXCEPT ![Slot(op)] = x]

(* The guest's handler finds the stack as it was up to restartsp. *)
Excepts(how) == Leaves(stack, how) /\ UNCHANGED memory
ListException(x) == Excepts(IF x.t = "list-instance" THEN "exception" ELSE "illegal")

Fetch(i, m, b) ==
    /\ op = Idle
    /\ Len(stack) >= (IF i \in Simple \/ (m = "local" /\ i # "dpb") THEN 1 ELSE 2)
    /\ i \in {"set-to-car", "set-to-cdr", "set-to-cdr-push-car"} \cup Counting \cup Fields => m = "local"
    /\ op' = Fetched(i, m, b)
    /\ UNCHANGED <<stack, memory, was, traps>>

(***************************************************************************)
(* MemoryReadInternal: what each cycle does with a word of each type.      *)
(***************************************************************************)
DataReads == {"car", "rest", "skiprest", "key", "value"}
CdrReads  == {"cdr", "skip"}
Accesses  == DataReads \cup CdrReads \cup {"store"}

At == memory[op.vma]

(* Mutant: the cdr cycle follows a one-q-forward too. *)
IndirectAlways == At.t \in {"one-q-forward", "element-forward"}
Indirect ==
    \/ At.t = "element-forward"
    \/ At.t = "one-q-forward" /\ op.phase \notin CdrReads

Monitors == At.t = "monitor-forward" /\ op.phase \notin CdrReads
Errs     == At.t = "null" /\ op.phase \in DataReads

Transports == OldP(At) /\ (op.phase \in DataReads \/ Indirect \/ Monitors)

(* The word goes where the instruction wants it before it is looked at:    *)
(* for CAR and CDR of a popped operand that is the operand's own word, for *)
(* RGETF's value the word that holds the key.                              *)
LiveSlot ==
    CASE op.i = "car" /\ op.phase = "car" /\ op.m = "pop"  -> Slot(op)
      [] op.i = "cdr" /\ op.phase = "rest" /\ op.m = "pop" -> Slot(op)
      [] op.i = "rgetf" /\ op.phase = "value"              -> SP(op)
      [] OTHER                                             -> 0
Spilled(w) == IF LiveSlot = 0 THEN stack ELSE [stack EXCEPT ![LiveSlot] = Object(w)]

Accessing == op.in = "run" /\ op.phase \in Accesses

GivenUp(vector, words) ==
    /\ stack' = words
    /\ op' = [in |-> "trapped", vector |-> vector, vma |-> op.vma, i |-> op.i, m |-> op.m,
              byte |-> op.byte]
    /\ was' = [was EXCEPT !.spilled = @ \/ words # was.stack]
    /\ UNCHANGED memory

TransportTrap == Accessing /\ Transports /\ GivenUp("transport", Spilled(At)) /\ UNCHANGED traps
MonitorTrap ==
    /\ Accessing /\ ~Transports /\ Monitors
    /\ GivenUp("monitor", Spilled(At))
    /\ UNCHANGED traps
PageFault ==
    /\ Accessing
    /\ traps < MaxTraps
    /\ GivenUp("page-fault", stack)
    /\ traps' = traps + 1
ErrorTrap ==
    /\ Accessing /\ ~Transports /\ Errs
    /\ Leaves(Spilled(At), "error")
    /\ UNCHANGED memory
FollowForward ==
    /\ Accessing /\ ~Transports /\ Indirect
    /\ stack' = Spilled(At)
    /\ op' = [op EXCEPT !.vma = At.v]
    /\ UNCHANGED <<memory, was, traps>>

Delivered == ~Transports /\ ~Monitors /\ ~Errs /\ ~Indirect

(***************************************************************************)
(* The instructions.                                                       *)
(***************************************************************************)
Begin(i) == Running("begin") /\ op.i = i

(* CarInternal's dispatch on what it is given. *)
CarOf(x, onNIL) ==
    \/ x.t \in {"list", "locative"} /\ Continue("car", x.v)
    \/ x.t = "nil" /\ onNIL
    \/ x.t \notin {"list", "locative", "nil"} /\ ListException(x)

(* CdrInternal's: of a list it reads the cdr code first. *)
CdrOf(x, onNIL, cdr, rest) ==
    \/ x.t = "list" /\ Continue(cdr, x.v)
    \/ x.t = "locative" /\ Continue(rest, x.v)
    \/ x.t = "nil" /\ onNIL
    \/ x.t \notin {"list", "locative", "nil"} /\ ListException(x)

BeginCar      == Begin("car") /\ CarOf(Arg(op), Completes(Pushing(NIL)))
BeginCdr      == Begin("cdr") /\ CdrOf(Arg(op), Completes(Pushing(NIL)), "cdr", "rest")
BeginSetToCar == Begin("set-to-car") /\ CarOf(Arg(op), Completes(SettingArg(NIL)))
BeginSetToCdr ==
    Begin("set-to-cdr") /\ CdrOf(Arg(op), Completes(SettingArg(NIL)), "cdr", "rest")
BeginSetToCdrPushCar ==
    Begin("set-to-cdr-push-car") /\ CarOf(Arg(op), Completes(Append(SettingArg(NIL), NIL)))

BeginRplaca ==
    /\ Begin("rplaca")
    /\ \/ TOS(op).t \in {"list", "locative"} /\ Continue("store", TOS(op).v)
       \/ TOS(op).t \notin {"list", "locative"} /\ ListException(TOS(op))
BeginRplacd ==
    /\ Begin("rplacd")
    /\ \/ TOS(op).t = "list" /\ Continue("cdr", TOS(op).v)
       \/ TOS(op).t = "locative" /\ Continue("store", TOS(op).v)
       \/ TOS(op).t \notin {"list", "locative"} /\ ListException(TOS(op))

(* EQL is different from EQ for the numbers from double floats on. *)
BeginSearch ==
    /\ Running("begin") /\ op.i \in Searches
    /\ IF TOS(op).t = "double" THEN Excepts("exception") ELSE Loop(Arg(op))

(* MEMBER, ASSOC and RGETF go down the list. *)
LoopStep ==
    /\ Running("loop")
    /\ \/ /\ op.scratch.t = "nil"
          /\ Completes(IF op.i = "rgetf" THEN Append(SettingTOS(NIL), NIL)
                                         ELSE SettingTOS(NIL))
       \/ op.scratch.t = "list" /\ Continue("car", op.scratch.v)
       \/ op.scratch.t \notin {"nil", "list"} /\ ListException(op.scratch)

SequenceBreak ==
    /\ Running("loop")
    /\ traps < MaxTraps
    /\ GivenUp("sequence-break", stack)
    /\ traps' = traps + 1

CarRead ==
    /\ Accessing /\ op.phase = "car" /\ Delivered
    /\ LET v == Object(At)
       IN  CASE op.i = "car"        -> Completes(Pushing(v))
             [] op.i = "set-to-car" -> Completes(SettingArg(v))
             [] OTHER ->
                  /\ op' = [op EXCEPT
                               !.car = v,
                               !.phase = IF op.i = "set-to-cdr-push-car" /\ Arg(op).t = "locative"
                                         THEN "rest" ELSE "cdr",
                               !.vma = IF op.i = "set-to-cdr-push-car" THEN Arg(op).v
                                                                       ELSE op.scratch.v]
                  /\ UNCHANGED <<stack, memory, was, traps>>

(* The cdr is known, of the operand, of the cons, or of the key's cons. *)
GotCdr(v) ==
    CASE op.i = "cdr"                 -> Completes(Pushing(v))
      [] op.i = "set-to-cdr"          -> Completes(SettingArg(v))
      [] op.i = "set-to-cdr-push-car" -> Completes(Append(SettingArg(v), op.car))
      [] op.i = "rgetf" /\ op.phase \in {"skip", "skiprest"} -> Loop(v)
      [] OTHER ->
           /\ op' = [op EXCEPT !.phase = "test", !.cdr = v]
           /\ UNCHANGED <<stack, memory, was, traps>>

CdrRead ==
    /\ Accessing /\ op.phase \in CdrReads /\ op.i # "rplacd" /\ Delivered
    /\ \/ At.cdr = "nil" /\ GotCdr(NIL)
       \/ At.cdr = "next" /\ GotCdr(List(op.vma + 1))
       \/ /\ At.cdr = "normal"
          /\ Continue(IF op.phase = "cdr" THEN "rest" ELSE "skiprest", op.vma + 1)
       \/ At.cdr = "spare" /\ Excepts("illegal")
RplacdRead ==
    /\ Accessing /\ op.phase = "cdr" /\ op.i = "rplacd" /\ Delivered
    /\ IF At.cdr = "normal" THEN Continue("store", op.vma + 1) ELSE Excepts("exception")
RestRead == Accessing /\ op.phase \in {"rest", "skiprest"} /\ Delivered /\ GotCdr(Object(At))

(* The tests between the reads. *)
(* Mutant: the search does not go on to the cdr. *)
TestMemberHere ==
    /\ Running("test") /\ op.i = "member"
    /\ IF op.car = TOS(op) THEN Completes(SettingTOS(op.scratch)) ELSE Loop(op.scratch)
TestMember ==
    /\ Running("test") /\ op.i = "member"
    /\ IF op.car = TOS(op) THEN Completes(SettingTOS(op.scratch)) ELSE Loop(op.cdr)
TestAssoc ==
    /\ Running("test") /\ op.i = "assoc"
    /\ \/ op.car.t = "nil" /\ Loop(op.cdr)
       \/ op.car.t = "list" /\ Continue("key", op.car.v)
       \/ op.car.t \notin {"nil", "list"} /\ ListException(op.car)
KeyRead ==
    /\ Accessing /\ op.phase = "key" /\ Delivered
    /\ IF Object(At) = TOS(op) THEN Completes(SettingTOS(op.car)) ELSE Loop(op.cdr)

TestRgetf ==
    /\ Running("test") /\ op.i = "rgetf"
    /\ IF op.car = TOS(op)
       THEN \/ op.cdr.t = "list" /\ Continue("value", op.cdr.v)
            \/ op.cdr.t = "nil" /\ Excepts("exception")
            \/ op.cdr.t \notin {"list", "nil"} /\ ListException(op.cdr)
       ELSE CdrOf(op.cdr, Loop(NIL), "skip", "skiprest")
ValueRead ==
    /\ Accessing /\ op.phase = "value" /\ Delivered
    /\ Completes(Append(SettingTOS(Object(At)), op.cdr))

(* StoreContentsInternal, with MergeCdr: the cdr code stays. *)
Stored(x) == [t |-> x.t, v |-> x.v, cdr |-> At.cdr]
Store ==
    /\ Accessing /\ op.phase = "store" /\ Delivered
    /\ memory' = [memory EXCEPT ![op.vma] = Stored(Arg(op))]
    /\ Leaves(SubSeq(stack, 1, SP(op) - 1), "done")

(* The fixnum instructions are one step each, and the bignum primitives    *)
(* and the logical shifts have no handler for other numbers.               *)
Numeric(x)  == x.t \in {"fixnum", "double"}
OnlyFixnums == {"lsh", "rot", "plus32", "difference32", "multiply-bignum-step"}
Operands(i) == IF i = "unary-minus" THEN {Arg(op)} ELSE {TOS(op), Arg(op)}
FixnumException(i, operands) ==
    Excepts(IF i \notin OnlyFixnums /\ \A x \in operands : Numeric(x)
            THEN "exception" ELSE "illegal")

ArithmeticStep(i) ==
    /\ Begin(i)
    /\ IF \E x \in Operands(i) : x.t # "fixnum"
       THEN FixnumException(i, Operands(i))
       ELSE \E o \in Outcomes(i, TOS(op).v, Arg(op).v) :
               IF o.how = "done"
               THEN Completes(SubSeq(stack, 1, IF i = "unary-minus" THEN SP(op) ELSE SP(op) - 1)
                              \o [k \in 1 .. Len(o.values) |-> Fixnum1(o.values[k])])
               ELSE Excepts(o.how)

(* INCREMENT and DECREMENT change the operand where it is. *)
CountStep ==
    /\ op.in = "run" /\ op.phase = "begin" /\ op.i \in Counting
    /\ LET x    == Arg(op)
           last == IF op.i = "increment" THEN Half - 1 ELSE -Half
           by   == IF op.i = "increment" THEN 1 ELSE -1
       IN  IF x.t = "fixnum" /\ x.v # last
           THEN Completes(SettingArg(Fixnum1(x.v + by)))
           ELSE FixnumException(op.i, {x})

(* LDB replaces the word at the top of the stack by a byte of it; DPB puts *)
(* the word below it in a byte of it.                                      *)
FieldStep ==
    /\ op.in = "run" /\ op.phase = "begin" /\ op.i \in Fields
    /\ LET kept     == IF op.i = "ldb" THEN Len(stack) - 1 ELSE Len(stack) - 2
           operands == {stack[k] : k \in kept + 1 .. Len(stack)}
           x        == TOS(op).v
       IN  IF \E w \in operands : w.t # "fixnum"
           THEN FixnumException(op.i, operands)
           ELSE Completes(Append(SubSeq(stack, 1, kept),
                                 Fixnum1(IF op.i = "ldb" THEN Ldb(op.byte.pos, op.byte.size, x)
                                         ELSE Dpb(stack[kept + 1].v, op.byte.pos, op.byte.size, x))))

(* The guest's trap handlers: the transporter stores where the object went *)
(* and the monitor's ends the monitoring; then the instruction is executed *)
(* again.                                                                  *)
Handle ==
    /\ op.in = "trapped"
    /\ memory' = CASE op.vector = "transport" -> [memory EXCEPT ![op.vma].v = @ - N]
                   [] op.vector = "monitor"   -> [memory EXCEPT ![op.vma].t = "one-q-forward"]
                   [] OTHER                   -> memory
    /\ op' = Fetched(op.i, op.m, op.byte)
    /\ UNCHANGED <<stack, was, traps>>

ListStep ==
    \/ BeginCar \/ BeginCdr \/ BeginSetToCar \/ BeginSetToCdr \/ BeginSetToCdrPushCar
    \/ BeginRplaca \/ BeginRplacd \/ BeginSearch
    \/ LoopStep \/ CarRead \/ CdrRead \/ RplacdRead \/ RestRead
    \/ TestMember \/ TestAssoc \/ TestRgetf \/ KeyRead \/ ValueRead \/ Store
    \/ FollowForward \/ ErrorTrap \/ CountStep \/ FieldStep

Next ==
    \/ \E i \in Simple \cup Searches \cup Stores \cup Counting \cup Binary, m \in Modes : Fetch(i, m, NoByte)
    \/ \E i \in Fields, b \in Bytes : Fetch(i, "local", b)
    \/ \E i \in Binary : ArithmeticStep(i)
    \/ ListStep
    \/ TransportTrap \/ MonitorTrap \/ PageFault \/ SequenceBreak \/ Handle

(* The emulator goes on; nothing makes it take a page fault or a break. *)
Fairness == /\ WF_vars(ListStep) /\ WF_vars(TransportTrap) /\ WF_vars(MonitorTrap)
            /\ WF_vars(\E i \in Binary : ArithmeticStep(i)) /\ WF_vars(Handle)
Spec == Init /\ [][Next]_vars /\ Fairness
-----------------------------------------------------------------------------
(***************************************************************************)
(* What an instruction is to do, all at once: on the memory it found, with *)
(* every object where the transporter takes it and nothing monitored.      *)
(***************************************************************************)
Settled(m) ==
    [a \in 1 .. N |-> [t   |-> IF m[a].t = "monitor-forward" THEN "one-q-forward" ELSE m[a].t,
                       v   |-> IF OldP(m[a]) THEN m[a].v - N ELSE m[a].v,
                       cdr |-> m[a].cdr]]

Memory == Settled(was.memory)

(* Where the word at an address of a settled memory really is, for a cycle *)
(* following forwards, and what is there.                                  *)
Home(m, forwards, a) ==
    LET home[b \in 1 .. N] == IF m[b].t \in forwards THEN home[m[b].v] ELSE b
    IN  home[a]
DataHome(m, a) == Home(m, {"one-q-forward", "element-forward"}, a)
CdrHome(m, a)  == Home(m, {"element-forward"}, a)

Undefined   == [t |-> "undefined", v |-> 0]
Contents(m, a) == LET w == m[DataHome(m, a)]
                  IN  IF w.t = "null" THEN Undefined ELSE Object(w)
TheCar(m, x) == CASE x.t \in {"list", "locative"} -> Contents(m, x.v)
                  [] x.t = "nil"                   -> NIL
                  [] OTHER                         -> Undefined
TheCdr(m, x) ==
    CASE x.t = "list" -> LET c == CdrHome(m, x.v)
                         IN  CASE m[c].cdr = "nil"    -> NIL
                               [] m[c].cdr = "next"   -> List(c + 1)
                               [] m[c].cdr = "normal" -> Contents(m, c + 1)
                               [] OTHER               -> Undefined
      [] x.t = "locative" -> Contents(m, x.v)
      [] x.t = "nil"      -> NIL
      [] OTHER            -> Undefined

(* What a search makes of a cons: what it finds there, NIL when it goes on, *)
(* or Undefined when it cannot; and where it goes on.                      *)
FoundMember(m, sought, l) == IF TheCar(m, l) = sought THEN l ELSE NIL
FoundAssoc(m, sought, l) ==
    LET c == TheCar(m, l)
    IN  CASE c = NIL      -> NIL
          [] c.t = "list" -> IF TheCar(m, c) = Undefined THEN Undefined
                             ELSE IF TheCar(m, c) = sought THEN c ELSE NIL
          [] OTHER        -> Undefined
FoundKey(m, sought, l) ==
    LET d == TheCdr(m, l)
    IN  IF TheCar(m, l) # sought THEN NIL
        ELSE IF d.t = "list" /\ TheCar(m, d) # Undefined THEN l ELSE Undefined
Here(m, i, sought, l) ==
    IF TheCar(m, l) = Undefined \/ TheCdr(m, l) = Undefined THEN Undefined
    ELSE CASE i = "member" -> FoundMember(m, sought, l)
           [] i = "assoc"  -> FoundAssoc(m, sought, l)
           [] OTHER        -> FoundKey(m, sought, l)
Onward(m, i, l) == IF i = "rgetf" THEN TheCdr(m, TheCdr(m, l)) ELSE TheCdr(m, l)

(* What the first cons of a list says that does not send the search on.    *)
Objects == [t : {"list", "locative"}, v : 1 .. N] \cup {NIL}
Search(m, i, sought, list) ==
    LET walk[p \in Objects \X (0 .. N)] ==
            LET l == p[1]  n == p[2]
            IN  IF l = NIL THEN NIL
                ELSE IF l.t # "list" \/ n = 0 THEN Undefined
                ELSE IF Here(m, i, sought, l) # NIL THEN Here(m, i, sought, l)
                ELSE IF Onward(m, i, l) \in Objects THEN walk[<<Onward(m, i, l), n - 1>>]
                ELSE Undefined
    IN  IF list \in Objects THEN walk[<<list, N>>] ELSE Undefined

WasArg == was.stack[IF op.m = "pop" THEN Len(was.stack) ELSE 1]
WasSP  == IF op.m = "pop" THEN Len(was.stack) - 1 ELSE Len(was.stack)
WasTOS == was.stack[WasSP]
WasKept == SubSeq(was.stack, 1, WasSP)

(* The values an instruction leaves in place of the words it used, or      *)
(* Undefined when it cannot be done.                                       *)
Answer ==
    LET car == TheCar(Memory, WasArg)  cdr == TheCdr(Memory, WasArg)
        found == IF WasTOS.t = "double" THEN Undefined
                 ELSE Search(Memory, op.i, WasTOS, WasArg)
        value(l) == TheCdr(Memory, l)
        put(x) == [WasKept EXCEPT ![1] = x]
        leave(x) == [WasKept EXCEPT ![WasSP] = x]
        all(xs, words) == IF Undefined \in xs THEN <<Undefined>> ELSE words
    IN  CASE op.i = "car"        -> all({car}, Append(WasKept, car))
          [] op.i = "cdr"        -> all({cdr}, Append(WasKept, cdr))
          [] op.i = "set-to-car" -> all({car}, put(car))
          [] op.i = "set-to-cdr" -> all({cdr}, put(cdr))
          [] op.i = "set-to-cdr-push-car" -> all({car, cdr}, Append(put(cdr), car))
          [] op.i \in {"rplaca", "rplacd"} -> SubSeq(WasKept, 1, WasSP - 1)
          [] op.i \in {"member", "assoc"} -> all({found}, leave(found))
          [] op.i = "rgetf" ->
               all({found}, IF found = NIL THEN Append(leave(NIL), NIL)
                            ELSE Append(leave(TheCar(Memory, value(found))), value(found)))

(* The word RPLACA and RPLACD change, and 0 when there is none. *)
Changed ==
    CASE WasTOS.t = "locative" \/ (op.i = "rplaca" /\ WasTOS.t = "list") -> DataHome(Memory, WasTOS.v)
      [] op.i = "rplacd" /\ WasTOS.t = "list" ->
            LET c == CdrHome(Memory, WasTOS.v)
            IN  IF Memory[c].cdr = "normal" THEN DataHome(Memory, c + 1) ELSE 0
      [] OTHER -> 0
MemoryAfter ==
    IF op.i \in Stores /\ Changed # 0
    THEN [Memory EXCEPT ![Changed] = [t |-> WasArg.t, v |-> WasArg.v, cdr |-> @.cdr]]
    ELSE Memory

Ended(how) == op.in = "done" /\ op.phase = how
Possible == IF op.i \in Stores THEN Changed # 0 ELSE Undefined \notin {Answer[k] : k \in DOMAIN Answer}
OnLists  == op.in = "done" /\ op.i \in Simple \cup Searches \cup Stores

AsIfAtOnce ==
    OnLists =>
        IF Ended("done")
        THEN Possible /\ stack = Answer /\ Settled(memory) = MemoryAfter
        ELSE /\ ~Possible
             /\ Ended("error") \/ stack = was.stack
             /\ Settled(memory) = Memory

(* Whatever it reads through and however often it is given up, an          *)
(* instruction on lists ends as if it had been executed at once: the same  *)
(* values, the one word changed, its cdr code kept, and no pointer to      *)
(* oldspace on the stack; and it is given to the exception handler only    *)
(* when it cannot be done, with its operands as they were                  *)
(* (MemoryReadInternal, TakePreTrap).  Not claimed when a trap was taken   *)
(* with an operand's word already overwritten: CAR's and CDR's result is   *)
(* read into the popped operand's word, and RGETF's into the key's, before *)
(* a trap is ruled out, and AsIfAtOnce does not hold then.                 *)
ResultRight == was.spilled \/ AsIfAtOnce

X == WasTOS.v
Y == WasArg.v
Left == [k \in 1 .. Len(stack) - (WasSP - 1) |-> stack[WasSP - 1 + k].v]
OnFixnums(is) == op.in = "done" /\ op.i \in is /\ WasTOS.t = "fixnum" /\ WasArg.t = "fixnum"

(* ADD, SUB, MULTIPLY, UNARY-MINUS, RATIONAL-QUOTIENT, INCREMENT and       *)
(* DECREMENT are exact: they leave the number itself when it is a fixnum,  *)
(* and call for the exception handler exactly when it is not (the tests    *)
(* for overflow at emulator.c:1879 to 1992 and 2214).                      *)
FixnumExact ==
    /\ OnFixnums({"add", "sub", "multiply", "unary-minus", "increment", "decrement"}) =>
          LET exact == CASE op.i = "add"         -> X + Y
                         [] op.i = "sub"         -> X - Y
                         [] op.i = "multiply"    -> X * Y
                         [] op.i = "unary-minus" -> -Y
                         [] op.i = "increment"   -> Y + 1
                         [] op.i = "decrement"   -> Y - 1
              place == IF op.i \in Counting THEN 1 ELSE Len(stack)
          IN  IF exact \in Fixnum THEN Ended("done") /\ stack[place].v = exact
                                  ELSE Ended("exception")
    /\ OnFixnums({"rational-quotient"}) =>
          IF Ended("done") THEN Left[1] * Y = X
          ELSE IF Y = 0 THEN Ended("illegal")
          ELSE Ended("exception") /\ \A q \in Fixnum : q * Y # X

(* The divisions leave a quotient and a remainder that make up the         *)
(* dividend, the remainder on the side each promises: FLOOR's of the       *)
(* divisor's sign, CEILING's of the other, TRUNCATE's of the dividend's,   *)
(* and ROUND's at most half the divisor, the quotient even when it is half *)
(* (only where dividend and divisor have one sign: emulator.c:2178 does    *)
(* not consider others).  Only a zero divisor is illegal.                  *)
DivisionRight ==
    LET q == Left[1]  r == Left[2]
    IN  OnFixnums({"floor", "ceiling", "truncate", "round", "quotient"}) =>
          \/ Ended("illegal") /\ Y = 0
          \/ Ended("exception") /\ X = -Half /\ Y = -1
          \/ Ended("done") /\ op.i = "round" /\ X * Y < 0
          \/ Ended("done") /\ op.i = "quotient" /\ \E t \in Fixnum :
                X = q * Y + t /\ Magnitude(t) < Magnitude(Y) /\ t * X >= 0
          \/ /\ Ended("done") /\ op.i # "quotient"
             /\ Len(Left) = 2 /\ X = q * Y + r
             /\ Magnitude(r) < Magnitude(Y)
             /\ op.i = "floor"    => r * Y >= 0
             /\ op.i = "ceiling"  => r * Y <= 0
             /\ op.i = "truncate" => r * X >= 0
             /\ op.i = "round" =>
                   /\ 2 * Magnitude(r) <= Magnitude(Y)
                   /\ 2 * Magnitude(r) = Magnitude(Y) => q % 2 = 0

(* A byte is the bits it names: LDB moves them to the right of a word of   *)
(* zeroes, and beyond the word finds the sign's; DPB moves as many bits of *)
(* the new byte to their place, those that have one in the word, and       *)
(* leaves the others alone (emulator.c:2795 and 2862).                     *)
BytesRight ==
    LET pos == op.byte.pos  size == op.byte.size + 1
        from == (W - pos) % W
        bit(v, k) == (v \div Pow2[k]) % 2
    IN  /\ Ended("done") /\ op.i = "ldb" =>
              \A k \in 0 .. W - 1 :
                 bit(stack[Len(stack)].v, k) = (IF k < size THEN bit(WasTOS.v, from + k) ELSE 0)
        /\ Ended("done") /\ op.i = "dpb" =>
              \A k \in 0 .. W - 1 :
                 bit(stack[Len(stack)].v, k) =
                    (IF k \in pos .. pos + size - 1
                     THEN bit(was.stack[WasSP - 1].v, k - pos) ELSE bit(WasTOS.v, k))

(* Rotating back restores the word; a logical shift keeps the bits that    *)
(* stay in the word; a right arithmetic shift is the floor of the          *)
(* quotient; the words of MULTIPLY-BIGNUM-STEP are those of the double     *)
(* product, and sums of words are sums modulo the word.  A left arithmetic *)
(* shift is only claimed modulo the word: emulator.c:2371 keeps products   *)
(* that overflowed.                                                        *)
ShiftsRight ==
    LET u == Unsigned(Left[1])
    IN  OnFixnums({"rot", "lsh", "ash", "plus32", "difference32", "multiply-bignum-step"})
        /\ Ended("done") =>
          CASE op.i = "rot" -> Rot(Left[1], -Y) = Done(<<X>>)
                               /\ (u % Pow2[Y % W]) = (Unsigned(X) \div Pow2[(W - (Y % W))])
            [] op.i = "lsh" ->
                 IF Y >= 0 THEN u = (Unsigned(X) * Pow2[Y]) % Word
                           ELSE u = Unsigned(X) \div Pow2[-Y]
            [] op.i = "ash" ->
                 \/ Y >= 0 /\ (Y >= W \/ (X * Pow2[Y] - u) % Word = 0)
                 \/ Y < 0 /\ (Y <= -W \/ Left[1] = X \div Pow2[-Y])
            [] op.i = "plus32"       -> (u - X - Y) % Word = 0
            [] op.i = "difference32" -> (u - X + Y) % Word = 0
            [] OTHER -> u + Word * Unsigned(Left[2]) = Unsigned(X) * Unsigned(Y)

(* Shifts, rotations, sums of words and bytes are what they are on a row   *)
(* of bits.                                                                *)
WordsRight == ShiftsRight /\ BytesRight

(* An instruction that is fetched ends: each trap's handler repairs what   *)
(* was found, and the loops of MEMBER, ASSOC and RGETF go down the list    *)
(* (emulator.c:1288, 1340, 1378), when faults and breaks end.              *)
Completion == op.in = "run" ~> op.in = "done"
===============================================================================
