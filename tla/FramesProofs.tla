----------------------------- MODULE FramesProofs -----------------------------
(***************************************************************************)
(* The control stack of Frames, for any number of variables, words,        *)
(* frames, bindings, values and traps.                                     *)
(*                                                                         *)
(* First the special variables: between any two steps of the instructions  *)
(* that bind and unbind, trapped or not, cells and binding stack agree.    *)
(*                                                                         *)
(* Then the frames.  The inductive invariant StackInv says of every        *)
(* activation what its words on the stack, the registers its callee saved  *)
(* of it and what its code has open have to do with one another.  Each     *)
(* action that changes a frame has a lemma that it keeps StackInv; what a  *)
(* return gives its caller and what the catch bit says follow from it.     *)
(***************************************************************************)
EXTENDS Frames, SequenceTheorems, FiniteSetTheorems, WellFoundedInduction, TLAPS

(* What is on a binding stack. *)
Entries(b) == {b[k] : k \in 1 .. Len(b)}

(* The binding stack is a sequence, and there is a cell for each variable. *)
ShapeInv ==
    /\ bindings \in Seq(Entries(bindings))
    /\ cells = [x \in Locs |-> cells[x]]

BindInv == ShapeInv /\ CellsAreCurrent

-----------------------------------------------------------------------------
(* A sequence is one of its own entries. *)
LEMMA SeqOfEntries ==
    ASSUME NEW S, NEW a \in Seq(S)
    PROVE  a \in Seq(Entries(a))
<1>1. Len(a) \in Nat /\ a \in [1 .. Len(a) -> S]
  BY LenProperties
<1>2. \A k \in 1 .. Len(a) : a[k] \in Entries(a)
  BY DEF Entries
<1>3. a \in [1 .. Len(a) -> Entries(a)]
  BY <1>1, <1>2
<1> HIDE DEF Entries
<1>4. Seq(Entries(a)) = UNION {[1 .. n -> Entries(a)] : n \in Nat}
  BY SeqDef
<1> QED BY <1>1, <1>3, <1>4, Zenon

(* A binding stack with one more entry. *)
LEMMA Pushed ==
    ASSUME NEW b, b \in Seq(Entries(b)), NEW e
    PROVE  LET a == Append(b, e)
           IN /\ a \in Seq(Entries(a))
              /\ Len(b) \in Nat
              /\ Len(a) = Len(b) + 1
              /\ a[Len(b) + 1] = e
              /\ \A k \in 1 .. Len(b) : a[k] = b[k]
<1> DEFINE S == Entries(b) \cup {e}
           a == Append(b, e)
<1>1. b \in Seq(S)
  BY SeqMonotonic
<1>2. /\ Len(b) \in Nat /\ Len(a) = Len(b) + 1 /\ a \in Seq(S)
      /\ a[Len(b) + 1] = e /\ \A k \in 1 .. Len(b) : a[k] = b[k]
  BY <1>1, AppendProperties, LenProperties
<1>3. a \in Seq(Entries(a))
  BY <1>2, SeqOfEntries
<1> QED BY <1>2, <1>3

(* The first entries of a sequence. *)
LEMMA Prefix ==
    ASSUME NEW S, NEW b \in Seq(S), NEW m \in Nat, m <= Len(b)
    PROVE  LET c == SubSeq(b, 1, m)
           IN /\ c \in Seq(S) /\ Len(c) = m
              /\ \A k \in 1 .. m : c[k] = b[k]
<1>1. \A k \in 1 .. m : b[k] \in S
  BY LenProperties, ElementOfSeq
<1>2. /\ SubSeq(b, 1, m) \in Seq(S)
      /\ Len(SubSeq(b, 1, m)) = IF 1 <= m THEN m - 1 + 1 ELSE 0
      /\ \A k \in 1 .. m - 1 + 1 : SubSeq(b, 1, m)[k] = b[1 + k - 1]
  BY <1>1, SubSeqProperties
<1>3. Len(SubSeq(b, 1, m)) = m
  BY <1>2
<1>4. \A k \in 1 .. m : SubSeq(b, 1, m)[k] = b[k]
  BY <1>2
<1> QED BY <1>2, <1>3, <1>4

(* A binding stack with one entry less. *)
LEMMA Popped ==
    ASSUME NEW b, b \in Seq(Entries(b)), b # <<>>
    PROVE  LET a == SubSeq(b, 1, Len(b) - 1)
           IN /\ a \in Seq(Entries(a))
              /\ Len(b) \in Nat \ {0}
              /\ Len(a) = Len(b) - 1
              /\ \A k \in 1 .. Len(a) : a[k] = b[k]
<1> DEFINE a == SubSeq(b, 1, Len(b) - 1)
<1>1. Len(b) \in Nat \ {0}
  BY LenProperties, EmptySeq
<1>2. /\ a \in Seq(Entries(b)) /\ Len(a) = Len(b) - 1
      /\ \A k \in 1 .. Len(b) - 1 : a[k] = b[k]
  <2> DEFINE m == Len(b) - 1
  <2>1. m \in Nat /\ m <= Len(b)
    BY <1>1
  <2>2. /\ SubSeq(b, 1, m) \in Seq(Entries(b)) /\ Len(SubSeq(b, 1, m)) = m
        /\ \A k \in 1 .. m : SubSeq(b, 1, m)[k] = b[k]
    <3> HIDE DEF m, Entries
    <3> QED BY <2>1, Prefix
  <2> QED BY <2>2, Zenon
<1>3. a \in Seq(Entries(a))
  <2> HIDE DEF a, Entries
  <2> QED BY <1>2, SeqOfEntries
<1> QED BY <1>1, <1>2, <1>3

(* What the first n entries give depends on them alone. *)
LEMMA GivesSame ==
    ASSUME NEW a, NEW b, NEW n \in Nat, NEW x, NEW v,
           \A k \in 1 .. n : a[k] = b[k],
           Gives(b, n, x, v)
    PROVE  Gives(a, n, x, v)
  BY DEF Gives

(* An entry that does not bind x does not change what x is given. *)
LEMMA GivesOther ==
    ASSUME NEW b, NEW n \in Nat \ {0}, NEW x, NEW v, b[n].loc # x
    PROVE  Gives(b, n, x, v) <=> Gives(b, n - 1, x, v)
  BY DEF Gives

-----------------------------------------------------------------------------
(* The initial binding stack is empty and the cells are 0. *)
LEMMA InitBindInv == Init => BindInv
<1> SUFFICES ASSUME Init PROVE BindInv
  OBVIOUS
<1>1. bindings = <<>> /\ Len(bindings) = 0
  BY EmptySeq DEF Init
<1>2. ShapeInv
  BY <1>1, EmptySeq DEF Init, ShapeInv
<1>3. CellsAreCurrent
  <2>1. 1 .. 0 = {}
    OBVIOUS
  <2>2. ASSUME NEW x \in Locs PROVE Gives(bindings, 0, x, cells[x])
    BY <2>1 DEF Init, Gives
  <2> QED BY <1>1, <2>1, <2>2 DEF CellsAreCurrent
<1> QED BY <1>2, <1>3 DEF BindInv

(* BIND-LOCATIVE-TO-VALUE. *)
LEMMA BindBindInv ==
    ASSUME BindInv, NEW x \in Locs, NEW value, BindLocativeToValue(x, value)
    PROVE  BindInv'
<1> DEFINE b == bindings
           e == [loc |-> x, old |-> cells[x], bind |-> control.bind, new |-> value]
           a == Append(b, e)
           n == Len(b)
<1>1. bindings' = a /\ cells' = [cells EXCEPT ![x] = value]
  BY DEF BindLocativeToValue
<1>2. /\ a \in Seq(Entries(a)) /\ n \in Nat /\ Len(a) = n + 1 /\ a[n + 1] = e
      /\ \A k \in 1 .. n : a[k] = b[k]
  BY Pushed DEF BindInv, ShapeInv
<1>3. ShapeInv'
  BY <1>1, <1>2 DEF BindInv, ShapeInv, Entries
<1>4. ASSUME NEW y \in Locs
      PROVE  /\ Gives(a, n + 1, y, cells'[y])
             /\ \A m \in 1 .. n + 1 : a[m].loc = y => Gives(a, m - 1, y, a[m].old)
  <2>1. /\ Gives(b, n, y, cells[y])
        /\ \A m \in 1 .. n : b[m].loc = y => Gives(b, m - 1, y, b[m].old)
    BY DEF BindInv, CellsAreCurrent
  <2>2. Gives(a, n, y, cells[y])
    <3> HIDE DEF a, b, n
    <3> QED BY <1>2, <2>1, GivesSame
  <2>3. ASSUME NEW m \in 1 .. n, a[m].loc = y PROVE Gives(a, m - 1, y, a[m].old)
    <3> HIDE DEF a, b, n
    <3>1. m - 1 \in Nat /\ \A k \in 1 .. m - 1 : a[k] = b[k]
      BY <1>2
    <3>2. Gives(b, m - 1, y, a[m].old)
      BY <1>2, <2>1, <2>3
    <3> QED BY <3>1, <3>2, GivesSame
  <2>4. CASE y = x
    <3>1. cells'[y] = value
      BY <1>1, <2>4 DEF BindInv, ShapeInv
    <3>2. Gives(a, n + 1, y, cells'[y])
      BY <1>2, <2>4, <3>1 DEF Gives
    <3>3. Gives(a, n, y, a[n + 1].old)
      BY <1>2, <2>2, <2>4
    <3> QED BY <1>2, <2>3, <3>2, <3>3
  <2>5. CASE y # x
    <3>1. cells'[y] = cells[y]
      BY <1>1, <2>5 DEF BindInv, ShapeInv
    <3>2. a[n + 1].loc # y
      BY <1>2, <2>5
    <3>3. Gives(a, n + 1, y, cells'[y])
      BY <1>2, <2>2, <3>1, <3>2 DEF Gives
    <3> QED BY <1>2, <2>3, <3>2, <3>3
  <2> QED BY <2>4, <2>5
<1>5. CellsAreCurrent'
  BY <1>1, <1>2, <1>4 DEF CellsAreCurrent
<1> QED BY <1>3, <1>5 DEF BindInv

(* Unbind, whichever instruction calls it. *)
LEMMA UnbindBindInv ==
    ASSUME BindInv, Unbind
    PROVE  BindInv'
<1> DEFINE b == bindings
           n == Len(b)
           a == SubSeq(b, 1, n - 1)
<1>1. /\ bindings # <<>> /\ bindings' = a
      /\ cells' = [cells EXCEPT ![b[n].loc] = b[n].old]
  BY DEF Unbind
<1>2. /\ a \in Seq(Entries(a)) /\ n \in Nat \ {0} /\ Len(a) = n - 1
      /\ \A k \in 1 .. n - 1 : a[k] = b[k]
  BY <1>1, Popped DEF BindInv, ShapeInv
<1>3. ShapeInv'
  BY <1>1, <1>2 DEF BindInv, ShapeInv, Entries
<1>4. ASSUME NEW y \in Locs
      PROVE  /\ Gives(a, n - 1, y, cells'[y])
             /\ \A m \in 1 .. n - 1 : a[m].loc = y => Gives(a, m - 1, y, a[m].old)
  <2>1. /\ Gives(b, n, y, cells[y])
        /\ \A m \in 1 .. n : b[m].loc = y => Gives(b, m - 1, y, b[m].old)
    BY DEF BindInv, CellsAreCurrent
  <2>2. ASSUME NEW m \in 1 .. n - 1, a[m].loc = y PROVE Gives(a, m - 1, y, a[m].old)
    <3> HIDE DEF a, b, n
    <3>1. m - 1 \in Nat /\ \A k \in 1 .. m - 1 : a[k] = b[k]
      BY <1>2
    <3>2. Gives(b, m - 1, y, a[m].old)
      BY <1>2, <2>1, <2>2
    <3> QED BY <3>1, <3>2, GivesSame
  <2>3. CASE b[n].loc = y
    <3>1. cells'[y] = b[n].old
      BY <1>1, <2>3 DEF BindInv, ShapeInv
    <3>2. Gives(b, n - 1, y, b[n].old)
      BY <1>2, <2>1, <2>3
    <3>3. Gives(a, n - 1, y, b[n].old)
      <4> HIDE DEF a, b, n
      <4>1. n - 1 \in Nat
        BY <1>2
      <4> QED BY <1>2, <3>2, <4>1, GivesSame
    <3> QED BY <2>2, <3>1, <3>3
  <2>4. CASE b[n].loc # y
    <3>1. cells'[y] = cells[y]
      BY <1>1, <2>4 DEF BindInv, ShapeInv
    <3>2. Gives(b, n - 1, y, cells[y])
      BY <1>2, <2>1, <2>4, GivesOther
    <3>3. Gives(a, n - 1, y, cells[y])
      <4> HIDE DEF a, b, n
      <4>1. n - 1 \in Nat
        BY <1>2
      <4> QED BY <1>2, <3>2, <4>1, GivesSame
    <3> QED BY <2>2, <3>1, <3>3
  <2> QED BY <2>3, <2>4
<1>5. CellsAreCurrent'
  BY <1>1, <1>2, <1>4 DEF CellsAreCurrent
<1> QED BY <1>3, <1>5 DEF BindInv

(* A step that changes neither cells nor bindings. *)
LEMMA OtherBindInv ==
    ASSUME BindInv, UNCHANGED <<bindings, cells>>
    PROVE  BindInv'
  BY DEF BindInv, ShapeInv, CellsAreCurrent, Entries

(* Every step keeps it. *)
LEMMA NextBindInv == BindInv /\ [Next]_vars => BindInv'
<1> SUFFICES ASSUME BindInv, [Next]_vars PROVE BindInv'
  OBVIOUS
<1>1. CASE GuestStep
  <2>1. ASSUME NEW x \in Locs, NEW value, BindLocativeToValue(x, value) PROVE BindInv'
    BY <2>1, BindBindInv
  <2>2. CASE UNCHANGED <<bindings, cells>>
    BY <2>2, OtherBindInv
  <2> QED
    BY <1>1, <2>1, <2>2
    DEF GuestStep, BindLocative, Pop, LocateLocals, Jump, StartCall, FinishCall, CatchOpen,
        FetchUnbindN, FetchCatchClose, FetchReturn, Fetch
<1>2. CASE UnbindOne
  BY <1>2, UnbindBindInv DEF UnbindOne
<1>3. CASE Return
  <2>1. CASE ReturnUnbind
    BY <2>1, UnbindBindInv DEF ReturnUnbind
  <2>2. CASE ReturnUncatch \/ ReturnUnwind \/ HandleUnwindProtect \/ LeaveFrame
    BY <2>2, OtherBindInv
    DEF ReturnUncatch, ReturnUnwind, HandleUnwindProtect, LeaveFrame
  <2> QED BY <1>3, <2>1, <2>2 DEF Return
<1>4. CASE Begin \/ UnbindNEnd \/ CatchCloseEnd
  BY <1>4, OtherBindInv DEF Begin, UnbindNEnd, CatchCloseEnd
<1>5. CASE PreTrap \/ (\E arity \in {0, 2} : PostTrap(arity))
  BY <1>5, OtherBindInv DEF PreTrap, TrapFrame, PostTrap
<1>6. CASE UNCHANGED vars
  BY <1>6, OtherBindInv DEF vars, state
<1> QED BY <1>1, <1>2, <1>3, <1>4, <1>5, <1>6 DEF Next, Step

(* CellsAreCurrent is an invariant: BIND-LOCATIVE-TO-VALUE, UNBIND-N,      *)
(* CATCH-CLOSE, returns and unwind-protects keep every cell at the value   *)
(* of its innermost binding, however they are trapped and begun again.     *)
THEOREM CellsCurrent == Spec => []CellsAreCurrent
<1>1. BindInv => CellsAreCurrent
  BY DEF BindInv
<1> QED BY <1>1, InitBindInv, NextBindInv, PTL DEF Spec


-----------------------------------------------------------------------------
(***************************************************************************)
(* The control stack.  What the variables hold:                            *)
(***************************************************************************)
PCs == [i : {"code"}, d : Nat] \cup [i : {"unbind"}, d : Nat, n : Nat]
       \cup [i : {"close"}, d : Nat]
       \cup [i : {"return"}, d : Nat, k : {"multiple"}, n : Nat]
       \cup [i : {"return"}, d : Nat, k : {"single"}, n : {1}]

Controls == [args : Int, frame : Int, disp : Dispositions, extra : BOOLEAN,
             started : BOOLEAN, inProgress : BOOLEAN, catch : BOOLEAN, bind : BOOLEAN]

(* Words: what a jump out of cleanup code takes off the stack is a PC with *)
(* the bit that goes back to the control register.                         *)
Plain   == [t : {"value"}, v : Int]
PCWords == [t : {"pc"}, pc : PCs]
Resumes == [t : {"pc"}, pc : PCs, inProgress : BOOLEAN]
Saves   == [t : {"control"}, c : Controls]
Marks   == [t : {"bsp"}, n : Nat, uwp : BOOLEAN]
Links   == [t : {"previous"}, p : Nat, extra : BOOLEAN, catch : BOOLEAN]
Words   == Plain \cup PCWords \cup Resumes \cup Saves \cup Marks \cup Links

(* What is open, saved registers, activations, and the rest. *)
Starts   == [k : {"start"}, at : Nat, sp : Nat, continuation : PCs, control : Controls]
Blocks   == [k : {"catch"}, at : Nat, block : Nat, uwp : BOOLEAN]
Others   == [k : {"bind", "cleanup"}, at : Nat]
Items    == Starts \cup Blocks \cup Others
Saved    == [fp : Nat, lp : Int, sp : Nat, continuation : PCs, control : Controls,
             pc : PCs, catch : Nat]
Activations == [open : Seq(Items), bsp : Nat, saved : Saved \cup {<<>>}]

Unbinds == [in : {"unbind"}, left : Nat]
Closes  == [in : {"close", "unwind"}, control : Controls, left : Nat]
Returns == [in : {"return"}, hop : BOOLEAN, scratch : Words]
Binding == [loc : Locs, old : 0 .. MaxBindings, bind : BOOLEAN, new : Nat]

Registers ==
    /\ fp \in Nat /\ lp \in Int /\ sp \in Nat /\ CatchBlockPointer \in Nat
    /\ continuation \in PCs /\ control \in Controls
    /\ pc \in PCs /\ op \in {Idle} \cup Unbinds \cup Closes \cup Returns
StackTyped == stack \in Seq(Words) /\ Len(stack) <= MaxWords
ActsTyped ==
    /\ acts \in Seq(Activations) /\ Depth \in Nat \ {0}
    /\ \A d \in 2 .. Depth : acts[d].saved \in Saved
BindingsTyped == bindings \in Seq(Binding) /\ cells \in [Locs -> 0 .. MaxBindings]
Typed == Registers /\ StackTyped /\ ActsTyped /\ BindingsTyped

(***************************************************************************)
(* The stack as its activations see it.                                    *)
(***************************************************************************)
(* The registers of activation d: what its callee, or the trap that        *)
(* interrupted it, saved of them; sp is the last word of its own.          *)
Now  == [fp |-> fp, lp |-> lp, sp |-> Len(stack), continuation |-> continuation,
         control |-> control, pc |-> pc, catch |-> CatchBlockPointer]
R(d) == IF d = Depth THEN Now ELSE acts[d + 1].saved

(* Where activation d, with a its record, returns to, and the catch block  *)
(* that is the innermost one outside it.                                   *)
Ret(d, a)   == IF d = 1 THEN Code(0) ELSE a.saved.pc
Outer(d, a) == IF d = 1 THEN 0 ELSE a.saved.catch

(* Of the first n of o, those of a kind, and the last of these.            *)
Kinds(o, n, k) == {m \in 1 .. n : o[m].k = k}
Last(o, n, k)  == {m \in Kinds(o, n, k) : \A j \in Kinds(o, n, k) : j <= m}

(* The continuation, CatchBlockPointer and the control register are right  *)
(* for a frame that has the first n of a.open open.                        *)
ContinuationAt(d, a, n, p) ==
    /\ Kinds(a.open, n, "start") = {} => p = Ret(d, a)
    /\ Kinds(a.open, n, "start") # {} => p = Code(d + 1)
CatchAt(d, a, n, p) ==
    /\ Kinds(a.open, n, "catch") = {} => p = Outer(d, a)
    /\ \A m \in Last(a.open, n, "catch") : p = a.open[m].block
ControlAt(a, n, c) ==
    /\ c.catch <=> Kinds(a.open, n, "catch") # {}
    /\ Kinds(a.open, n, "start") = {} => ~c.extra
    /\ \A m \in Last(a.open, n, "start") : (c.extra <=> a.open[m].at = a.open[m].sp + 3)

(* p can be executed with the first n of o open and the words up to s on   *)
(* the stack of a frame at f.                                              *)
Fits(o, n, f, s, p) ==
    /\ p.i = "unbind" => p.n <= n /\ \A m \in n - p.n + 1 .. n : o[m].k = "bind"
    /\ p.i = "close"  => \E m \in 1 .. n : /\ o[m].k = "catch"
                                           /\ \A j \in m + 1 .. n : o[j].k = "bind"
    /\ p.i = "return" => Kinds(o, n, "start") = {} /\ s - p.n >= f + 1

(* The n-th of what activation d has open, by its kind: a started call     *)
(* keeps the registers of before it on the stack, ...                      *)
StartOK(st, d, a, r, n) ==
    LET x == a.open[n]
    IN /\ x \in Starts
       /\ x.sp >= r.fp + 1 /\ (x.at = x.sp + 2 \/ x.at = x.sp + 3)
       /\ \A m \in 1 .. n - 1 : a.open[m].at <= x.sp
       /\ st[x.sp + 1] = PC(x.continuation) /\ st[x.sp + 2] = Control(x.control)
       /\ ContinuationAt(d, a, n - 1, x.continuation)
       /\ ControlAt(a, n - 1, x.control)
       /\ x.control.args = r.control.args /\ x.control.frame = r.control.frame
       /\ x.control.disp = r.control.disp
       /\ Kinds(a.open, n - 1, "bind") # {} => x.control.bind

(* ... a catch block those it brings back, ...                             *)
CatchOK(st, d, a, r, n) ==
    LET x == a.open[n]
    IN /\ x \in Blocks
       /\ x.block > r.fp + 1 /\ x.block + 2 <= x.at
       /\ \A m \in 1 .. n - 1 : a.open[m].at < x.block
       /\ st[x.block] \in PCWords /\ st[x.block].pc.i = "code"
       /\ st[x.block + 1] \in Marks /\ st[x.block + 1].uwp = x.uwp
       /\ st[x.block + 2] \in Links
       /\ CatchAt(d, a, n - 1, st[x.block + 2].p)
       /\ ControlAt(a, n - 1, st[x.block + 2])

(* ... cleanup code the instruction that goes on after it.                 *)
CleanupOK(st, a, r, n) ==
    LET x == a.open[n]
    IN /\ x.at > r.fp + 1 /\ \A m \in 1 .. n - 1 : a.open[m].at < x.at
       /\ st[x.at] \in Resumes /\ st[x.at].pc.i \in {"code", "return"}
       /\ Fits(a.open, n - 1, r.fp, x.at - 1, st[x.at].pc)

ItemOK(st, d, a, r, n) ==
    /\ a.open[n].at >= r.fp + 1 /\ a.open[n].at <= r.sp
    /\ \A m \in 1 .. n - 1 : a.open[m].at <= a.open[n].at
    /\ a.open[n].k = "start" => StartOK(st, d, a, r, n)
    /\ a.open[n].k = "catch" => CatchOK(st, d, a, r, n)
    /\ a.open[n].k = "cleanup" => CleanupOK(st, a, r, n)

(* The frame of activation d begins with what it returns to. *)
FrameOK(st, d, a, r) ==
    /\ r.fp >= 1 /\ r.fp + 1 <= r.sp /\ r.lp = r.fp + r.control.args
    /\ st[r.fp].t = "pc" /\ st[r.fp + 1].t = "control"
    /\ d > 1 => /\ st[r.fp] = PC(a.saved.continuation)
                /\ st[r.fp + 1] = Control(a.saved.control)
                /\ r.fp = a.saved.sp + 1 /\ r.control.frame = r.fp - a.saved.fp

ItemsOK(st, d, a, r) == \A n \in 1 .. Len(a.open) : ItemOK(st, d, a, r, n)
RightAt(d, a, r) ==
    /\ ContinuationAt(d, a, Len(a.open), r.continuation)
    /\ CatchAt(d, a, Len(a.open), r.catch)
    /\ ControlAt(a, Len(a.open), r.control)
    /\ Fits(a.open, Len(a.open), r.fp, r.sp, r.pc)
ActOK(st, d, a, r) == FrameOK(st, d, a, r) /\ ItemsOK(st, d, a, r) /\ RightAt(d, a, r)

(* Frames lie above those they return to, and one whose values are its     *)
(* caller's own was called last.                                           *)
Above   == \A e \in 1 .. Depth : \A d \in 2 .. e : acts[d].saved.sp < R(e).fp
Passing == \A d \in 2 .. Depth : R(d).control.disp = "return" =>
             Kinds(acts[d - 1].open, Len(acts[d - 1].open), "start") = {}
FramesOK == (\A d \in 1 .. Depth : ActOK(stack, d, acts[d], R(d))) /\ Above /\ Passing

(* What is being executed. *)
OpOK ==
    /\ op.in # "return" => sp = Len(stack)
    /\ op.in = "unbind" => pc.i = "unbind"
    /\ op.in = "close" => pc.i = "close"
    /\ op.in \in {"return", "unwind"} => pc.i = "return"
    /\ op.in \in {"close", "unwind"} => [op.control EXCEPT !.bind = control.bind] = control
    /\ op.in = "unwind" => control.catch
    /\ op.in = "return" => /\ sp <= Len(stack) /\ sp >= fp + 1
                           /\ pc.k = "multiple" => sp - pc.n >= fp + 1

(* Activation d made the m-th binding. *)
Own(d, m) == acts[d].bsp < m /\ \A e \in d + 1 .. Depth : acts[e].bsp >= m

(* A frame has no bindings if its control register says so. *)
BindsOK ==
    /\ Len(bindings) > Act.bsp => control.bind
    /\ op.in \in {"close", "unwind"} /\ Len(bindings) > Act.bsp => op.control.bind
    /\ \A d \in 1 .. Depth - 1 : acts[d + 1].bsp > acts[d].bsp => acts[d + 1].saved.control.bind
    /\ \A m \in 1 .. Len(bindings) : \A d \in 1 .. Depth :
           Own(d, m) /\ m > acts[d].bsp + 1 => bindings[m].bind

StackInv == Typed /\ FramesOK /\ OpOK /\ BindsOK

-----------------------------------------------------------------------------
(* Sequences that are made longer. *)
LEMMA Lasted ==
    ASSUME NEW S, NEW s \in Seq(S), NEW x \in S
    PROVE  /\ s \o <<x>> \in Seq(S) /\ Len(s \o <<x>>) = Len(s) + 1
           /\ \A j \in 1 .. Len(s) : (s \o <<x>>)[j] = s[j]
           /\ (s \o <<x>>)[Len(s) + 1] = x
           /\ Append(s, x) = s \o <<x>>
<1>1. Append(s, x) = s \o <<x>>
  BY AppendIsConcat
<1>2. /\ Append(s, x) \in Seq(S) /\ Len(Append(s, x)) = Len(s) + 1
      /\ \A j \in 1 .. Len(s) : Append(s, x)[j] = s[j]
      /\ Append(s, x)[Len(s) + 1] = x
  BY AppendProperties
<1> QED BY <1>1, <1>2

LEMMA Joined ==
    ASSUME NEW S, NEW s \in Seq(S), NEW t \in Seq(S)
    PROVE  /\ s \o t \in Seq(S) /\ Len(s \o t) = Len(s) + Len(t)
           /\ Len(s) \in Nat /\ Len(t) \in Nat
           /\ \A j \in 1 .. Len(s) : (s \o t)[j] = s[j]
           /\ \A j \in 1 .. Len(t) : (s \o t)[Len(s) + j] = t[j]
<1>1. Len(s) \in Nat /\ Len(t) \in Nat
  BY LenProperties
<1>2. /\ s \o t \in Seq(S) /\ Len(s \o t) = Len(s) + Len(t)
      /\ \A i \in 1 .. Len(s) + Len(t) : (s \o t)[i] =
           IF i <= Len(s) THEN s[i] ELSE t[i - Len(s)]
  BY ConcatProperties
<1>3. ASSUME NEW j \in 1 .. Len(s) PROVE (s \o t)[j] = s[j]
  <2>1. j \in 1 .. Len(s) + Len(t) /\ j <= Len(s)
    BY <1>1
  <2> QED BY <1>2, <2>1
<1>4. ASSUME NEW j \in 1 .. Len(t) PROVE (s \o t)[Len(s) + j] = t[j]
  <2> DEFINE i == Len(s) + j
  <2>1. i \in 1 .. Len(s) + Len(t) /\ ~(i <= Len(s)) /\ i - Len(s) = j
    BY <1>1
  <2> HIDE DEF i
  <2>2. (s \o t)[i] = t[j]
    BY <1>2, <2>1
  <2> QED BY <2>2 DEF i
<1> QED BY <1>1, <1>2, <1>3, <1>4

(* The first of a sequence, and the rest. *)
LEMMA Cut ==
    ASSUME NEW S, NEW s \in Seq(S), NEW m \in Nat, m <= Len(s)
    PROVE  /\ SubSeq(s, 1, m) \in Seq(S) /\ Len(SubSeq(s, 1, m)) = m
           /\ \A j \in 1 .. m : SubSeq(s, 1, m)[j] = s[j]
           /\ SubSeq(s, m + 1, Len(s)) \in Seq(S)
           /\ Len(SubSeq(s, m + 1, Len(s))) = Len(s) - m
           /\ \A j \in 1 .. Len(s) - m : SubSeq(s, m + 1, Len(s))[j] = s[m + j]
<1>1. Len(s) \in Nat
  BY LenProperties
<1>2. /\ SubSeq(s, 1, m) \in Seq(S) /\ Len(SubSeq(s, 1, m)) = m
      /\ \A j \in 1 .. m : SubSeq(s, 1, m)[j] = s[j]
  BY Prefix
<1> DEFINE l == Len(s)
           a == m + 1
<1>3. a \in Int /\ l \in Int /\ \A j \in a .. l : s[j] \in S
  BY <1>1, ElementOfSeq
<1>4. /\ SubSeq(s, a, l) \in Seq(S)
      /\ Len(SubSeq(s, a, l)) = IF a <= l THEN l - a + 1 ELSE 0
      /\ \A i \in 1 .. l - a + 1 : SubSeq(s, a, l)[i] = s[a + i - 1]
  <2> HIDE DEF a, l
  <2> QED BY <1>3, SubSeqProperties
<1>5. Len(SubSeq(s, a, l)) = l - m /\ l - a + 1 = l - m
  BY <1>1, <1>4
<1>6. ASSUME NEW j \in 1 .. l - m PROVE SubSeq(s, a, l)[j] = s[m + j]
  <2>1. a + j - 1 = m + j /\ j \in 1 .. l - a + 1
    BY <1>1
  <2> QED BY <1>4, <2>1
<1> QED BY <1>2, <1>4, <1>5, <1>6

(* The words that are pushed together. *)
LEMMA Two ==
    ASSUME NEW S, NEW a \in S, NEW b \in S
    PROVE  <<a, b>> \in Seq(S) /\ Len(<<a, b>>) = 2 /\ <<a, b>>[1] = a /\ <<a, b>>[2] = b
  OBVIOUS

LEMMA Three ==
    ASSUME NEW S, NEW a \in S, NEW b \in S, NEW c \in S
    PROVE  /\ <<a, b, c>> \in Seq(S) /\ Len(<<a, b, c>>) = 3
           /\ <<a, b, c>>[1] = a /\ <<a, b, c>>[2] = b /\ <<a, b, c>>[3] = c
  OBVIOUS

LEMMA Four ==
    ASSUME NEW S, NEW a \in S, NEW b \in S, NEW c \in S, NEW d \in S
    PROVE  /\ <<a, b, c, d>> \in Seq(S) /\ Len(<<a, b, c, d>>) = 4
           /\ <<a, b, c, d>>[1] = a /\ <<a, b, c, d>>[2] = b
  OBVIOUS

(* Operands, arguments and results are words. *)
LEMMA ValuesType ==
    ASSUME NEW n \in Nat
    PROVE  Values(n) \in Seq(Words) /\ Len(Values(n)) = n
<1>1. \A m \in 1 .. n : Value(m) \in Words
  BY DEF Value, Words, Plain
<1>2. Values(n) \in [1 .. n -> Words]
  BY <1>1 DEF Values
<1>3. Values(n) \in Seq(Words)
  <2> HIDE DEF Words
  <2> QED BY <1>2, SeqDef
<1>4. Len(Values(n)) = n
  <2>1. DOMAIN Values(n) = 1 .. n
    BY DEF Values
  <2>2. Len(Values(n)) \in Nat /\ DOMAIN Values(n) = 1 .. Len(Values(n))
    BY <1>3, LenProperties
  <2> QED BY <2>1, <2>2
<1> QED BY <1>3, <1>4

-----------------------------------------------------------------------------
(* What the clauses on the registers are about. *)
LEMMA KindsSame ==
    ASSUME NEW o, NEW o2, NEW n, NEW k, \A m \in 1 .. n : o2[m].k = o[m].k
    PROVE  Kinds(o2, n, k) = Kinds(o, n, k)
  BY DEF Kinds

(* Items of other kinds do not count. *)
LEMMA KindsDrop ==
    ASSUME NEW o, NEW n \in Nat, NEW m \in Nat, m <= n, NEW k,
           \A j \in m + 1 .. n : o[j].k # k
    PROVE  Kinds(o, n, k) = Kinds(o, m, k)
<1>1. Kinds(o, m, k) \subseteq Kinds(o, n, k)
  BY DEF Kinds
<1>2. ASSUME NEW j \in Kinds(o, n, k) PROVE j \in Kinds(o, m, k)
  <2>1. j \in 1 .. n /\ o[j].k = k
    BY DEF Kinds
  <2>2. ~(j \in m + 1 .. n)
    BY <2>1
  <2>3. j \in 1 .. m
    BY <2>1, <2>2
  <2> QED BY <2>1, <2>3 DEF Kinds
<1> QED BY <1>1, <1>2

(* The last item is the last of its kind. *)
LEMMA LastOfAll ==
    ASSUME NEW o, NEW n \in Nat, n > 0
    PROVE  /\ n \in Kinds(o, n, o[n].k) /\ Last(o, n, o[n].k) = {n}
           /\ Kinds(o, n, o[n].k) # {}
<1>1. n \in Kinds(o, n, o[n].k)
  BY DEF Kinds
<1>2. \A j \in Kinds(o, n, o[n].k) : j \in Nat /\ j <= n
  BY DEF Kinds
<1> QED BY <1>1, <1>2 DEF Last

(* They are the same where what they are about is. *)
LEMMA ContinuationSame ==
    ASSUME NEW d, NEW a, NEW a2, NEW n, NEW n2, NEW p, a2.saved = a.saved,
           Kinds(a2.open, n2, "start") = Kinds(a.open, n, "start")
    PROVE  ContinuationAt(d, a2, n2, p) <=> ContinuationAt(d, a, n, p)
  BY DEF ContinuationAt, Ret

LEMMA CatchSame ==
    ASSUME NEW d, NEW a, NEW a2, NEW n, NEW n2, NEW p, a2.saved = a.saved,
           Kinds(a2.open, n2, "catch") = Kinds(a.open, n, "catch"),
           \A m \in Kinds(a.open, n, "catch") : a2.open[m] = a.open[m]
    PROVE  CatchAt(d, a2, n2, p) <=> CatchAt(d, a, n, p)
<1>1. /\ Last(a2.open, n2, "catch") = Last(a.open, n, "catch")
      /\ Last(a.open, n, "catch") \subseteq Kinds(a.open, n, "catch")
  BY DEF Last
<1>2. \A m \in Last(a.open, n, "catch") : a2.open[m] = a.open[m]
  BY <1>1
<1>3. Outer(d, a2) = Outer(d, a)
  BY DEF Outer
<1> QED BY <1>1, <1>2, <1>3 DEF CatchAt

LEMMA ControlSame ==
    ASSUME NEW a, NEW a2, NEW n, NEW n2, NEW c, NEW c2,
           c2.catch = c.catch, c2.extra = c.extra,
           Kinds(a2.open, n2, "start") = Kinds(a.open, n, "start"),
           (Kinds(a2.open, n2, "catch") = {}) <=> (Kinds(a.open, n, "catch") = {}),
           \A m \in Kinds(a.open, n, "start") : a2.open[m] = a.open[m]
    PROVE  ControlAt(a2, n2, c2) <=> ControlAt(a, n, c)
<1>1. /\ Last(a2.open, n2, "start") = Last(a.open, n, "start")
      /\ Last(a.open, n, "start") \subseteq Kinds(a.open, n, "start")
  BY DEF Last
<1>2. \A m \in Last(a.open, n, "start") : a2.open[m] = a.open[m]
  BY <1>1
<1> QED BY <1>1, <1>2 DEF ControlAt

LEMMA FitsSame ==
    ASSUME NEW o, NEW o2, NEW n \in Nat, NEW f, NEW s \in Int, NEW s2 \in Int, NEW p,
           f \in Int, p.i = "return" => p.n \in Int,
           p.i = "unbind" => p.n \in Nat,
           s2 >= s, \A m \in 1 .. n : o2[m].k = o[m].k,
           Fits(o, n, f, s, p)
    PROVE  Fits(o2, n, f, s2, p)
<1>1. p.i = "unbind" => p.n <= n /\ \A m \in n - p.n + 1 .. n : o2[m].k = "bind"
  <2> SUFFICES ASSUME p.i = "unbind" PROVE p.n <= n /\ \A m \in n - p.n + 1 .. n : o2[m].k = "bind"
    OBVIOUS
  <2>1. p.n <= n /\ \A m \in n - p.n + 1 .. n : o[m].k = "bind"
    BY DEF Fits
  <2>2. \A m \in n - p.n + 1 .. n : m \in 1 .. n
    BY <2>1
  <2> QED BY <2>1, <2>2
<1>2. p.i = "close" => \E m \in 1 .. n : /\ o2[m].k = "catch"
                                         /\ \A j \in m + 1 .. n : o2[j].k = "bind"
  <2> SUFFICES ASSUME p.i = "close"
               PROVE  \E m \in 1 .. n : /\ o2[m].k = "catch"
                                        /\ \A j \in m + 1 .. n : o2[j].k = "bind"
    OBVIOUS
  <2>1. PICK m \in 1 .. n : o[m].k = "catch" /\ \A j \in m + 1 .. n : o[j].k = "bind"
    BY DEF Fits
  <2>2. \A j \in m + 1 .. n : j \in 1 .. n
    OBVIOUS
  <2> QED BY <2>1, <2>2
<1>3. p.i = "return" => Kinds(o2, n, "start") = {} /\ s2 - p.n >= f + 1
  BY KindsSame DEF Fits
<1> QED BY <1>1, <1>2, <1>3 DEF Fits

(* A set of numbers with a bound has a greatest, and any has a least. *)
Smaller == {p \in Nat \X Nat : p[1] < p[2]}

LEMMA Least ==
    ASSUME NEW T, T \subseteq Nat, T # {}
    PROVE  \E m \in T : \A j \in T : m <= j
<1>1. IsWellFoundedOn(Smaller, Nat)
  <2>1. OpToRel(<, Nat) = Smaller
    BY DEF OpToRel, Smaller
  <2> QED BY <2>1, NatLessThanWellFounded
<1>2. PICK y \in T : TRUE
  OBVIOUS
<1>3. PICK m \in T : \A j \in T : ~(<<j, m>> \in Smaller)
  BY <1>1, <1>2, WFMin
<1>4. ASSUME NEW j \in T PROVE m <= j
  <2>1. j \in Nat /\ m \in Nat /\ ~(<<j, m>> \in Smaller)
    BY <1>3
  <2> QED BY <2>1 DEF Smaller
<1> QED BY <1>4

LEMMA Greatest ==
    ASSUME NEW K, K \subseteq Nat, K # {}, NEW n \in Nat, \A j \in K : j <= n
    PROVE  \E m \in K : \A j \in K : j <= m
<1> DEFINE T == {b \in Nat : \A j \in K : j <= b}
<1>1. n \in T /\ T \subseteq Nat
  OBVIOUS
<1>2. PICK x \in T : \A y \in T : x <= y
  <2> HIDE DEF T
  <2> QED BY <1>1, Least
<1>3. x \in Nat /\ \A j \in K : j <= x /\ j \in Nat
  OBVIOUS
<1>4. ASSUME x \notin K PROVE FALSE
  <2>1. \A j \in K : j <= x - 1
    BY <1>3, <1>4
  <2>2. x - 1 \in Nat
    <3>1. PICK j \in K : TRUE
      OBVIOUS
    <3>2. j \in Nat /\ j <= x - 1
      BY <2>1, <3>1
    <3> QED BY <1>3, <3>2
  <2>3. x - 1 \in T
    BY <2>1, <2>2
  <2>4. x <= x - 1
    BY <1>2, <2>3
  <2> QED BY <1>3, <2>4
<1> QED BY <1>3, <1>4

(* There is a last one of a kind, where there is one. *)
LEMMA LastIs ==
    ASSUME NEW o, NEW n \in Nat, NEW k, Kinds(o, n, k) # {}
    PROVE  \E m \in Kinds(o, n, k) : \A j \in Kinds(o, n, k) : j <= m
<1> DEFINE K == Kinds(o, n, k)
<1>1. K \subseteq Nat /\ \A j \in K : j <= n
  BY DEF Kinds
<1> HIDE DEF K
<1>2. K # {}
  BY DEF K
<1> QED BY <1>1, <1>2, Greatest DEF K

(* The innermost catch block. *)
LEMMA InnermostIs ==
    ASSUME NEW a, Len(a.open) \in Nat, Kinds(a.open, Len(a.open), "catch") # {}
    PROVE  /\ InnermostCatch(a) \in Last(a.open, Len(a.open), "catch")
           /\ InnermostCatch(a) \in 1 .. Len(a.open)
           /\ a.open[InnermostCatch(a)].k = "catch"
           /\ \A j \in InnermostCatch(a) + 1 .. Len(a.open) : a.open[j].k # "catch"
<1> DEFINE n == Len(a.open)
           K == Kinds(a.open, n, "catch")
           m == InnermostCatch(a)
<1>1. Catches(a) = K
  BY DEF Catches, Kinds
<1>2. \E i \in K : \A j \in K : j <= i
  BY LastIs
<1>3. m \in K /\ \A j \in K : j <= m
  BY <1>1, <1>2, Zenon DEF InnermostCatch
<1>4. m \in 1 .. n /\ a.open[m].k = "catch"
  BY <1>3 DEF Kinds
<1>5. ASSUME NEW j \in m + 1 .. n, a.open[j].k = "catch" PROVE FALSE
  <2>1. j \in 1 .. n /\ j > m
    BY <1>4
  <2>2. j \in K
    BY <1>5, <2>1 DEF Kinds
  <2> QED BY <1>3, <1>4, <2>1, <2>2
<1>6. m \in Last(a.open, n, "catch")
  BY <1>3 DEF Last
<1> QED BY <1>4, <1>5, <1>6

-----------------------------------------------------------------------------
(* Types of the words and of what is open. *)
LEMMA ItemType ==
    ASSUME NEW x \in Items
    PROVE  /\ x.at \in Nat /\ x.k \in {"start", "catch", "bind", "cleanup"}
           /\ x.k = "start" => x \in Starts
           /\ x.k = "catch" => x \in Blocks
  BY DEF Items, Starts, Blocks, Others

LEMMA PCType ==
    ASSUME NEW p \in PCs
    PROVE  /\ p.i \in {"code", "unbind", "close", "return"} /\ p.d \in Nat
           /\ p.i = "unbind" => p.n \in Nat
           /\ p.i = "return" => /\ p.n \in Nat /\ p.k \in {"single", "multiple"}
                                /\ p.k = "single" => p.n = 1
  BY DEF PCs

(* Code fits everywhere. *)
LEMMA CodeFits ==
    ASSUME NEW o, NEW n, NEW f, NEW s, NEW p, p.i = "code"
    PROVE  Fits(o, n, f, s, p)
  BY DEF Fits

LEMMA CodeIs ==
    ASSUME NEW d \in Nat
    PROVE  Code(d) \in PCs /\ Code(d).i = "code" /\ Code(d).d = d
  BY DEF Code, PCs

(* An item is right wherever the items before it and the words up to its   *)
(* last are the same.                                                      *)
LEMMA ItemSame ==
    ASSUME NEW st, NEW st2, NEW d, NEW a, NEW a2, NEW r, NEW r2, NEW n \in Nat \ {0},
           a2.saved = a.saved, \A m \in 1 .. n : a2.open[m] = a.open[m],
           \A m \in 1 .. n : a.open[m] \in Items,
           r2.fp = r.fp, r.fp \in Nat,
           a.open[n].k = "start" => /\ r2.control.args = r.control.args
                                    /\ r2.control.frame = r.control.frame
                                    /\ r2.control.disp = r.control.disp,
           \A j \in 1 .. a.open[n].at : st2[j] = st[j],
           a.open[n].at <= r2.sp,
           ItemOK(st, d, a, r, n)
    PROVE  ItemOK(st2, d, a2, r2, n)
<1> DEFINE x == a.open[n]
<1>1. x \in Items /\ x.at \in Nat /\ a2.open[n] = x
  BY ItemType
<1>2. /\ \A m \in 1 .. n - 1 : a2.open[m] = a.open[m]
      /\ \A m \in 1 .. n - 1 : a2.open[m].k = a.open[m].k
      /\ n - 1 \in Nat
  OBVIOUS
<1>3. \A k : Kinds(a2.open, n - 1, k) = Kinds(a.open, n - 1, k)
  BY <1>2, KindsSame
<1>4. \A k : \A m \in Kinds(a.open, n - 1, k) : a2.open[m] = a.open[m]
  BY <1>2 DEF Kinds
<1>5. /\ \A p : ContinuationAt(d, a2, n - 1, p) <=> ContinuationAt(d, a, n - 1, p)
      /\ \A p : CatchAt(d, a2, n - 1, p) <=> CatchAt(d, a, n - 1, p)
      /\ \A c : ControlAt(a2, n - 1, c) <=> ControlAt(a, n - 1, c)
  <2> DEFINE k == n - 1
  <2> HIDE DEF k
  <2>1. /\ Kinds(a2.open, k, "start") = Kinds(a.open, k, "start")
        /\ Kinds(a2.open, k, "catch") = Kinds(a.open, k, "catch")
        /\ \A m \in Kinds(a.open, k, "start") : a2.open[m] = a.open[m]
        /\ \A m \in Kinds(a.open, k, "catch") : a2.open[m] = a.open[m]
    BY <1>3, <1>4 DEF k
  <2>2. ASSUME NEW p PROVE ContinuationAt(d, a2, k, p) <=> ContinuationAt(d, a, k, p)
    BY <2>1, ContinuationSame
  <2>3. ASSUME NEW p PROVE CatchAt(d, a2, k, p) <=> CatchAt(d, a, k, p)
    BY <2>1, CatchSame
  <2>4. ASSUME NEW c PROVE ControlAt(a2, k, c) <=> ControlAt(a, k, c)
    BY <2>1, ControlSame
  <2> QED BY <2>2, <2>3, <2>4 DEF k
<1>6. /\ x.at >= r.fp + 1 /\ x.at <= r2.sp
      /\ \A m \in 1 .. n - 1 : a2.open[m].at <= x.at
  BY <1>2 DEF ItemOK
<1>7. ASSUME x.k = "start" PROVE StartOK(st2, d, a2, r2, n)
  <2>1. StartOK(st, d, a, r, n)
    BY <1>7 DEF ItemOK
  <2>2. x \in Starts /\ x.sp \in Nat /\ x.sp + 1 \in 1 .. x.at /\ x.sp + 2 \in 1 .. x.at
    BY <1>1, <2>1 DEF StartOK, Starts
  <2>3. st2[x.sp + 1] = st[x.sp + 1] /\ st2[x.sp + 2] = st[x.sp + 2]
    BY <2>2
  <2> HIDE DEF x
  <2>4. \A m \in 1 .. n - 1 : a2.open[m].at <= x.sp
    BY <1>2, <2>1 DEF StartOK, x
  <2> QED BY <1>1, <1>3, <1>5, <1>7, <2>1, <2>2, <2>3, <2>4, Zenon DEF StartOK, x
<1>8. ASSUME x.k = "catch" PROVE CatchOK(st2, d, a2, r2, n)
  <2>1. CatchOK(st, d, a, r, n)
    BY <1>8 DEF ItemOK
  <2>2. /\ x \in Blocks /\ x.block \in Nat /\ x.block \in 1 .. x.at
        /\ x.block + 1 \in 1 .. x.at /\ x.block + 2 \in 1 .. x.at
    BY <1>1, <2>1 DEF CatchOK, Blocks
  <2>3. /\ st2[x.block] = st[x.block] /\ st2[x.block + 1] = st[x.block + 1]
        /\ st2[x.block + 2] = st[x.block + 2]
    BY <2>2
  <2> HIDE DEF x
  <2>4. \A m \in 1 .. n - 1 : a2.open[m].at < x.block
    BY <1>2, <2>1 DEF CatchOK, x
  <2> QED BY <1>1, <1>5, <2>1, <2>2, <2>3, <2>4, Zenon DEF CatchOK, x
<1>9. ASSUME x.k = "cleanup" PROVE CleanupOK(st2, a2, r2, n)
  <2>1. CleanupOK(st, a, r, n)
    BY <1>9 DEF ItemOK
  <2>2. x.at \in 1 .. x.at /\ st2[x.at] = st[x.at]
    BY <1>1, <2>1 DEF CleanupOK
  <2> HIDE DEF x
  <2>3. \A m \in 1 .. n - 1 : a2.open[m].at < x.at
    BY <1>2, <2>1 DEF CleanupOK, x
  <2> DEFINE p == st[x.at].pc
  <2>4. p \in PCs
    BY <2>1 DEF CleanupOK, Resumes, x
  <2>5. Fits(a.open, n - 1, r.fp, x.at - 1, p)
    BY <2>1 DEF CleanupOK, x
  <2> HIDE DEF p
  <2>6. Fits(a2.open, n - 1, r.fp, x.at - 1, p)
    <3>1. x.at - 1 \in Int /\ x.at - 1 >= x.at - 1 /\ r.fp \in Int
      BY <1>1
    <3>2. (p.i = "return" => p.n \in Int) /\ (p.i = "unbind" => p.n \in Nat)
      BY <2>4, PCType
    <3> QED BY <1>2, <2>5, <3>1, <3>2, FitsSame
  <2> QED BY <1>1, <2>1, <2>2, <2>3, <2>6, Zenon DEF CleanupOK, x, p
<1> QED BY <1>1, <1>6, <1>7, <1>8, <1>9 DEF ItemOK

(* The items stay right while their words do. *)
LEMMA ItemsSame ==
    ASSUME NEW st, NEW st2, NEW d, NEW a, NEW a2, NEW r, NEW r2, NEW n \in Nat,
           a2.saved = a.saved, n <= Len(a.open), a.open \in Seq(Items),
           \A m \in 1 .. n : a2.open[m] = a.open[m],
           r2.fp = r.fp, r.fp \in Nat,
           n > 0 => /\ r2.control.args = r.control.args
                    /\ r2.control.frame = r.control.frame
                    /\ r2.control.disp = r.control.disp,
           NEW w \in Nat, \A j \in 1 .. w : st2[j] = st[j], w <= r2.sp, r2.sp \in Nat,
           \A m \in 1 .. n : a.open[m].at <= w,
           ItemsOK(st, d, a, r)
    PROVE  \A m \in 1 .. n : ItemOK(st2, d, a2, r2, m)
<1> SUFFICES ASSUME NEW m \in 1 .. n PROVE ItemOK(st2, d, a2, r2, m)
  OBVIOUS
<1>1. Len(a.open) \in Nat /\ \A i \in 1 .. Len(a.open) : a.open[i] \in Items
  BY LenProperties, ElementOfSeq
<1>2. m \in Nat \ {0} /\ m \in 1 .. Len(a.open) /\ n > 0
  BY <1>1
<1>3. \A i \in 1 .. m : i \in 1 .. n /\ i \in 1 .. Len(a.open)
  BY <1>1, <1>2
<1>4. \A i \in 1 .. m : a2.open[i] = a.open[i] /\ a.open[i] \in Items
  BY <1>1, <1>3
<1>5. a.open[m].at \in Nat /\ a.open[m].at <= w
  BY <1>1, <1>2, ItemType
<1>6. (\A j \in 1 .. a.open[m].at : st2[j] = st[j]) /\ a.open[m].at <= r2.sp
  BY <1>5
<1>7. ItemOK(st, d, a, r, m)
  BY <1>2 DEF ItemsOK
<1> QED BY <1>2, <1>4, <1>6, <1>7, ItemSame

-----------------------------------------------------------------------------
(* The registers of every activation have their types. *)
LEMMA NowType == Registers /\ StackTyped => Now \in Saved
  BY LenProperties DEF Registers, StackTyped, Now, Saved

LEMMA RType ==
    ASSUME Typed, NEW d \in 1 .. Depth
    PROVE  R(d) \in Saved
<1>1. CASE d = Depth
  BY <1>1, NowType DEF Typed, R
<1>2. CASE d # Depth
  <2>1. d + 1 \in 2 .. Depth
    BY <1>2 DEF Typed, ActsTyped
  <2>2. acts[d + 1].saved \in Saved
    BY <2>1 DEF Typed, ActsTyped
  <2> QED BY <1>2, <2>2 DEF R
<1> QED BY <1>1, <1>2

LEMMA ActType ==
    ASSUME ActsTyped, NEW d \in 1 .. Depth
    PROVE  /\ acts[d] \in Activations /\ acts[d].open \in Seq(Items)
           /\ acts[d].bsp \in Nat /\ Len(acts[d].open) \in Nat
           /\ \A n \in 1 .. Len(acts[d].open) : acts[d].open[n] \in Items
<1>1. acts \in Seq(Activations) /\ d \in 1 .. Len(acts)
  BY DEF ActsTyped, Depth
<1>2. acts[d] \in Activations
  BY <1>1, ElementOfSeq
<1>3. acts[d].open \in Seq(Items) /\ acts[d].bsp \in Nat
  BY <1>2 DEF Activations
<1> QED BY <1>2, <1>3, LenProperties, ElementOfSeq

(* Of the current one. *)
LEMMA ActIs ==
    ASSUME ActsTyped
    PROVE  /\ Depth \in Nat \ {0} /\ Depth \in 1 .. Depth /\ Act = acts[Depth]
           /\ Act \in Activations /\ Open = Act.open /\ Open \in Seq(Items)
           /\ Act.bsp \in Nat /\ Len(Open) \in Nat
           /\ \A n \in 1 .. Len(Open) : Open[n] \in Items
<1>1. Depth \in Nat \ {0} /\ Depth \in 1 .. Depth
  BY DEF ActsTyped
<1> QED BY <1>1, ActType DEF Act, Open

(* What is open in the frame is changed. *)
LEMMA OpensTo ==
    ASSUME ActsTyped, NEW o \in Seq(Items), acts' = [acts EXCEPT ![Depth].open = o]
    PROVE  /\ ActsTyped' /\ Depth' = Depth
           /\ \A d \in 1 .. Depth - 1 : acts'[d] = acts[d]
           /\ acts'[Depth].open = o /\ acts'[Depth].saved = Act.saved
           /\ \A d \in 1 .. Depth : acts'[d].bsp = acts[d].bsp
<1> DEFINE D == Depth
           x == [acts[D] EXCEPT !.open = o]
<1>1. D \in Nat \ {0} /\ D \in 1 .. Len(acts) /\ acts \in Seq(Activations)
  BY DEF ActsTyped, Depth
<1>2. acts[D] \in Activations
  BY <1>1, ElementOfSeq
<1>3. x \in Activations /\ x.open = o /\ x.saved = acts[D].saved /\ x.bsp = acts[D].bsp
  BY <1>2 DEF Activations
<1>4. acts' = [acts EXCEPT ![D] = x]
  OBVIOUS
<1>5. /\ acts' \in Seq(Activations) /\ Len(acts') = Len(acts)
      /\ \A j \in 1 .. Len(acts) : acts'[j] = IF j = D THEN x ELSE acts[j]
  <2> HIDE DEF x, D
  <2>1. LET a == [acts EXCEPT ![D] = x]
        IN /\ a \in Seq(Activations) /\ Len(a) = Len(acts)
           /\ \A j \in 1 .. Len(acts) : a[j] = IF j = D THEN x ELSE acts[j]
    BY <1>1, <1>3, ExceptSeq
  <2> QED BY <1>4, <2>1
<1>6. Depth' = D /\ D = Len(acts)
  BY <1>5 DEF Depth
<1>7. /\ acts'[D] = x /\ \A d \in 1 .. D - 1 : acts'[d] = acts[d]
      /\ \A d \in 1 .. D : acts'[d].saved = acts[d].saved /\ acts'[d].bsp = acts[d].bsp
  <2> HIDE DEF x, D
  <2> QED BY <1>1, <1>3, <1>5, <1>6
<1>8. ActsTyped'
  <2>1. \A d \in 2 .. D : acts'[d].saved \in Saved
    <3>1. \A d \in 2 .. D : d \in 1 .. D
      OBVIOUS
    <3> QED BY <1>7, <3>1 DEF ActsTyped
  <2> QED BY <1>1, <1>5, <1>6, <2>1 DEF ActsTyped
<1> QED BY <1>3, <1>6, <1>7, <1>8 DEF Act

(* The frame of an activation stays right while its words do. *)
LEMMA ActSame ==
    ASSUME NEW st, NEW st2, NEW d, NEW a \in Activations, NEW r \in Saved,
           \A j \in 1 .. r.sp : st2[j] = st[j],
           ActOK(st, d, a, r)
    PROVE  ActOK(st2, d, a, r)
<1>1. r.fp \in Nat /\ r.sp \in Nat /\ a.open \in Seq(Items) /\ Len(a.open) \in Nat
  BY LenProperties DEF Saved, Activations
<1>2. FrameOK(st2, d, a, r)
  <2>1. r.fp >= 1 /\ r.fp + 1 <= r.sp
    BY DEF ActOK, FrameOK
  <2>2. st2[r.fp] = st[r.fp] /\ st2[r.fp + 1] = st[r.fp + 1]
    BY <1>1, <2>1
  <2> QED BY <2>2 DEF ActOK, FrameOK
<1>3. ItemsOK(st2, d, a, r)
  <2>1. ItemsOK(st, d, a, r)
    BY DEF ActOK
  <2>2. \A m \in 1 .. Len(a.open) : a.open[m].at <= r.sp
    BY <2>1 DEF ItemsOK, ItemOK
  <2> DEFINE n == Len(a.open)
             w == r.sp
  <2>3. n \in Nat /\ n <= Len(a.open) /\ w \in Nat /\ w <= r.sp
    BY <1>1
  <2>4. (\A j \in 1 .. w : st2[j] = st[j]) /\ \A m \in 1 .. n : a.open[m].at <= w
    BY <2>2
  <2> HIDE DEF n, w
  <2>5. \A m \in 1 .. n : ItemOK(st2, d, a, r, m)
    BY <1>1, <2>1, <2>3, <2>4, ItemsSame
  <2> QED BY <2>5 DEF ItemsOK, n
<1> QED BY <1>2, <1>3 DEF ActOK

(* A step of the current activation that keeps below its frame's third     *)
(* word: its own clauses are all there is to show.                         *)
LEMMA Here ==
    ASSUME Typed, FramesOK, Depth' = Depth,
           \A d \in 1 .. Depth - 1 : acts'[d] = acts[d],
           acts'[Depth].saved = Act.saved,
           fp' = fp, control'.frame = control.frame, control'.disp = control.disp,
           lp' = fp + control'.args,
           Len(stack') >= fp + 1, \A j \in 1 .. fp + 1 : stack'[j] = stack[j],
           ItemsOK(stack', Depth, acts'[Depth], Now'),
           RightAt(Depth, acts'[Depth], Now')
    PROVE  FramesOK'
<1> DEFINE D == Depth
<1>1. D \in Nat \ {0} /\ D \in 1 .. D /\ Act = acts[D] /\ ActsTyped /\ fp \in Nat
  BY ActIs DEF Typed, Registers
<1>2. \A d \in 2 .. D : acts'[d].saved = acts[d].saved
  BY <1>1
<1>3. \A d \in 1 .. D - 1 : d \in 1 .. D /\ d + 1 \in 2 .. D /\ d # D
  BY <1>1
<1>4. \A d \in 1 .. D - 1 : R(d)' = R(d) /\ R(d) = acts[d + 1].saved
  BY <1>2, <1>3 DEF R
<1>5. R(D)' = Now' /\ R(D) = Now
  BY DEF R
<1>6. Now.fp = fp /\ Now'.fp = fp' /\ Now.control = control /\ Now'.control = control'
  BY DEF Now
<1>7. ActOK(stack, D, acts[D], Now)
  BY <1>1, <1>5 DEF FramesOK
<1>8. ASSUME NEW d \in 1 .. D - 1 PROVE ActOK(stack', d, acts'[d], R(d)')
  <2>1. ActOK(stack, d, acts[d], R(d)) /\ acts[d] \in Activations /\ R(d) \in Saved
    BY <1>1, <1>3, ActType, RType DEF FramesOK
  <2>2. acts[d + 1].saved.sp < R(D).fp
    BY <1>1, <1>3 DEF FramesOK, Above
  <2>3. R(d).sp < fp /\ R(d).sp \in Nat
    BY <1>4, <1>5, <1>6, <2>1, <2>2 DEF Saved
  <2>4. \A j \in 1 .. R(d).sp : stack'[j] = stack[j]
    <3>1. \A j \in 1 .. R(d).sp : j \in 1 .. fp + 1
      BY <1>1, <2>3
    <3> QED BY <3>1
  <2>5. ActOK(stack', d, acts[d], R(d))
    BY <2>1, <2>4, ActSame
  <2> QED BY <1>4, <2>5
<1>9. ActOK(stack', D, acts'[D], Now')
  <2>1. FrameOK(stack, D, acts[D], Now)
    BY <1>7 DEF ActOK
  <2>2. /\ Now'.fp = Now.fp /\ Now'.lp = fp + control'.args /\ Now'.sp = Len(stack')
        /\ Now'.control.frame = Now.control.frame /\ Now'.control = control'
    BY <1>6 DEF Now
  <2>3. fp >= 1 /\ stack'[fp] = stack[fp] /\ stack'[fp + 1] = stack[fp + 1]
    BY <1>1, <1>6, <2>1 DEF FrameOK
  <2>4. FrameOK(stack', D, acts'[D], Now')
    BY <1>1, <1>6, <2>1, <2>2, <2>3 DEF FrameOK
  <2> QED BY <2>4 DEF ActOK
<1>10. Above'
  <2>1. \A e \in 1 .. D : R(e)'.fp = R(e).fp
    BY <1>1, <1>4, <1>5, <1>6
  <2>2. ASSUME NEW e \in 1 .. D, NEW d \in 2 .. e PROVE acts'[d].saved.sp < R(e)'.fp
    <3>1. d \in 2 .. D
      BY <1>1
    <3>2. acts[d].saved.sp < R(e).fp
      BY DEF FramesOK, Above
    <3> QED BY <1>2, <2>1, <3>1, <3>2
  <2> QED BY <2>2 DEF Above
<1>11. Passing'
  <2>1. ASSUME NEW d \in 2 .. D, R(d)'.control.disp = "return"
        PROVE  Kinds(acts'[d - 1].open, Len(acts'[d - 1].open), "start") = {}
    <3>1. R(d).control.disp = "return"
      BY <1>1, <1>4, <1>5, <1>6, <2>1
    <3>2. d - 1 \in 1 .. D - 1 /\ acts'[d - 1] = acts[d - 1]
      BY <1>1
    <3> QED BY <3>1, <3>2 DEF FramesOK, Passing
  <2> QED BY <2>1 DEF Passing
<1>12. \A d \in 1 .. D : ActOK(stack', d, acts'[d], R(d)')
  BY <1>1, <1>5, <1>8, <1>9
<1> QED BY <1>10, <1>11, <1>12 DEF FramesOK

-----------------------------------------------------------------------------
(* The same registers are right for activations that have the same open, ... *)
LEMMA RightSame ==
    ASSUME NEW d, NEW a, NEW a2, NEW n, a2.saved = a.saved,
           \A m \in 1 .. n : a2.open[m] = a.open[m]
    PROVE  /\ \A p : ContinuationAt(d, a2, n, p) <=> ContinuationAt(d, a, n, p)
           /\ \A p : CatchAt(d, a2, n, p) <=> CatchAt(d, a, n, p)
           /\ \A c : ControlAt(a2, n, c) <=> ControlAt(a, n, c)
<1>1. \A m \in 1 .. n : a2.open[m].k = a.open[m].k
  OBVIOUS
<1>2. /\ Kinds(a2.open, n, "start") = Kinds(a.open, n, "start")
      /\ Kinds(a2.open, n, "catch") = Kinds(a.open, n, "catch")
  BY <1>1, KindsSame
<1>3. /\ \A m \in Kinds(a.open, n, "start") : a2.open[m] = a.open[m]
      /\ \A m \in Kinds(a.open, n, "catch") : a2.open[m] = a.open[m]
  BY DEF Kinds
<1>4. ASSUME NEW p PROVE ContinuationAt(d, a2, n, p) <=> ContinuationAt(d, a, n, p)
  BY <1>2, ContinuationSame
<1>5. ASSUME NEW p PROVE CatchAt(d, a2, n, p) <=> CatchAt(d, a, n, p)
  BY <1>2, <1>3, CatchSame
<1>6. ASSUME NEW c PROVE ControlAt(a2, n, c) <=> ControlAt(a, n, c)
  BY <1>2, <1>3, ControlSame
<1> QED BY <1>4, <1>5, <1>6

(* ... and with items more or less that they do not depend on. *)
LEMMA RightDrop ==
    ASSUME NEW d, NEW a, NEW n \in Nat, NEW m \in Nat, m <= n
    PROVE  /\ (\A j \in m + 1 .. n : a.open[j].k # "start") =>
                \A p : ContinuationAt(d, a, n, p) <=> ContinuationAt(d, a, m, p)
           /\ (\A j \in m + 1 .. n : a.open[j].k # "catch") =>
                \A p : CatchAt(d, a, n, p) <=> CatchAt(d, a, m, p)
           /\ (\A j \in m + 1 .. n : a.open[j].k # "start" /\ a.open[j].k # "catch") =>
                \A c : ControlAt(a, n, c) <=> ControlAt(a, m, c)
<1>1. (\A j \in m + 1 .. n : a.open[j].k # "start") =>
        Kinds(a.open, n, "start") = Kinds(a.open, m, "start")
  BY KindsDrop
<1>2. (\A j \in m + 1 .. n : a.open[j].k # "catch") =>
        Kinds(a.open, n, "catch") = Kinds(a.open, m, "catch")
  BY KindsDrop
<1>3. ASSUME \A j \in m + 1 .. n : a.open[j].k # "start", NEW p
      PROVE  ContinuationAt(d, a, n, p) <=> ContinuationAt(d, a, m, p)
  BY <1>1, <1>3, ContinuationSame
<1>4. ASSUME \A j \in m + 1 .. n : a.open[j].k # "catch", NEW p
      PROVE  CatchAt(d, a, n, p) <=> CatchAt(d, a, m, p)
  BY <1>2, <1>4, CatchSame
<1>5. ASSUME \A j \in m + 1 .. n : a.open[j].k # "start" /\ a.open[j].k # "catch", NEW c
      PROVE  ControlAt(a, n, c) <=> ControlAt(a, m, c)
  BY <1>1, <1>2, <1>5, ControlSame
<1> QED BY <1>3, <1>4, <1>5

(* The current activation's clauses. *)
LEMMA Current ==
    ASSUME Typed, FramesOK
    PROVE  /\ fp \in Nat /\ fp >= 1 /\ fp + 1 <= Len(stack) /\ Len(stack) \in Nat
           /\ lp = fp + control.args
           /\ ActOK(stack, Depth, Act, Now)
           /\ ItemsOK(stack, Depth, Act, Now)
           /\ ContinuationAt(Depth, Act, Len(Open), continuation)
           /\ CatchAt(Depth, Act, Len(Open), CatchBlockPointer)
           /\ ControlAt(Act, Len(Open), control)
           /\ Fits(Open, Len(Open), fp, Len(stack), pc)
           /\ Now \in Saved /\ Now.fp = fp /\ Now.sp = Len(stack) /\ Now.control = control
           /\ \A n \in 1 .. Len(Open) : /\ Open[n] \in Items /\ Open[n].at \in Nat
                                        /\ Open[n].at >= fp + 1 /\ Open[n].at <= Len(stack)
                                        /\ \A m \in 1 .. n : Open[m].at <= Open[n].at
<1>1. Depth \in 1 .. Depth /\ Act = acts[Depth] /\ Open = Act.open
      /\ \A n \in 1 .. Len(Open) : Open[n] \in Items
  BY ActIs DEF Typed
<1>2. Now \in Saved /\ R(Depth) = Now /\ Len(stack) \in Nat
  BY NowType, LenProperties DEF Typed, StackTyped, R
<1>3. ActOK(stack, Depth, Act, Now)
  BY <1>1, <1>2 DEF FramesOK
<1>4. /\ Now.fp = fp /\ Now.sp = Len(stack) /\ Now.control = control /\ Now.lp = lp
      /\ Now.continuation = continuation /\ Now.catch = CatchBlockPointer /\ Now.pc = pc
  BY DEF Now
<1>5. fp \in Nat /\ fp >= 1 /\ fp + 1 <= Len(stack) /\ lp = fp + control.args
  BY <1>3, <1>4 DEF ActOK, FrameOK, Typed, Registers
<1>6. RightAt(Depth, Act, Now) /\ ItemsOK(stack, Depth, Act, Now)
  BY <1>3 DEF ActOK
<1>7. /\ ContinuationAt(Depth, Act, Len(Open), continuation)
      /\ CatchAt(Depth, Act, Len(Open), CatchBlockPointer)
      /\ ControlAt(Act, Len(Open), control)
      /\ Fits(Open, Len(Open), fp, Len(stack), pc)
  BY <1>1, <1>4, <1>6 DEF RightAt
<1>8. ASSUME NEW n \in 1 .. Len(Open)
      PROVE  /\ Open[n] \in Items /\ Open[n].at \in Nat
             /\ Open[n].at >= fp + 1 /\ Open[n].at <= Len(stack)
             /\ \A m \in 1 .. n : Open[m].at <= Open[n].at
  <2>1. ItemOK(stack, Depth, Act, Now, n)
    BY <1>1, <1>6 DEF ItemsOK
  <2>2. Open[n] \in Items /\ Open[n].at \in Nat /\ Len(Open) \in Nat
    BY <1>1, ItemType, ActIs DEF Typed
  <2>3. Open[n].at >= fp + 1 /\ Open[n].at <= Len(stack)
    BY <1>1, <1>4, <2>1 DEF ItemOK
  <2>4. \A m \in 1 .. n - 1 : Open[m].at <= Open[n].at
    BY <1>1, <2>1 DEF ItemOK
  <2>5. ASSUME NEW m \in 1 .. n PROVE Open[m].at <= Open[n].at
    <3>1. m = n \/ m \in 1 .. n - 1
      BY <2>2
    <3> QED BY <2>2, <2>4, <3>1
  <2> QED BY <2>2, <2>3, <2>5
<1> QED BY <1>2, <1>3, <1>4, <1>5, <1>6, <1>7, <1>8

(* A step that keeps the first m items, and may open another. *)
LEMMA Reopen ==
    ASSUME Typed, FramesOK, Depth' = Depth,
           \A d \in 1 .. Depth - 1 : acts'[d] = acts[d], acts'[Depth].saved = Act.saved,
           NEW o, acts'[Depth].open = o, NEW m \in Nat, m <= Len(Open),
           Len(o) = m \/ Len(o) = m + 1, \A j \in 1 .. m : o[j] = Open[j],
           fp' = fp, lp' = fp + control'.args,
           control'.frame = control.frame, control'.disp = control.disp,
           m > 0 => control'.args = control.args,
           NEW w \in Nat, fp + 1 <= w, Len(stack') \in Nat, w <= Len(stack'),
           \A j \in 1 .. w : stack'[j] = stack[j],
           \A n \in 1 .. m : Open[n].at <= w,
           Len(o) = m + 1 => ItemOK(stack', Depth, acts'[Depth], Now', m + 1),
           RightAt(Depth, acts'[Depth], Now')
    PROVE  FramesOK'
<1> DEFINE a2 == acts'[Depth]
           r2 == Now'
<1>1. /\ fp \in Nat /\ ItemsOK(stack, Depth, Act, Now) /\ Now.fp = fp
      /\ Now.control = control /\ Open = Act.open
  BY Current, ActIs DEF Typed
<1>2. Act.open \in Seq(Items) /\ m <= Len(Act.open)
  BY <1>1, ActIs DEF Typed
<1>3. r2.fp = fp /\ r2.control = control' /\ r2.sp = Len(stack')
  BY DEF Now
<1>4. \A j \in 1 .. m : ItemOK(stack', Depth, a2, r2, j)
  <2>1. \A j \in 1 .. m : a2.open[j] = Act.open[j] /\ Act.open[j].at <= w
    BY <1>1
  <2>2. /\ r2.fp = Now.fp /\ Now.fp \in Nat /\ r2.sp \in Nat /\ w <= r2.sp
        /\ m > 0 => /\ r2.control.args = Now.control.args
                    /\ r2.control.frame = Now.control.frame
                    /\ r2.control.disp = Now.control.disp
    BY <1>1, <1>3
  <2>3. a2.saved = Act.saved
    OBVIOUS
  <2> HIDE DEF a2, r2
  <2> QED BY <1>1, <1>2, <2>1, <2>2, <2>3, ItemsSame
<1>5. ItemsOK(stack', Depth, a2, r2)
  <2>1. \A j \in 1 .. Len(o) : j \in 1 .. m \/ (Len(o) = m + 1 /\ j = m + 1)
    OBVIOUS
  <2> QED BY <1>4, <2>1 DEF ItemsOK
<1>6. \A j \in 1 .. fp + 1 : stack'[j] = stack[j]
  BY <1>1
<1>7. Len(stack') >= fp + 1
  BY <1>1
<1> HIDE DEF a2, r2
<1> QED BY <1>5, <1>6, <1>7, Here DEF a2, r2

(* A step that opens and closes nothing. *)
LEMMA Steady ==
    ASSUME Typed, FramesOK, acts' = acts, fp' = fp, continuation' = continuation,
           CatchBlockPointer' = CatchBlockPointer, lp' = fp + control'.args,
           control'.frame = control.frame, control'.disp = control.disp,
           control'.catch = control.catch, control'.extra = control.extra,
           Len(Open) > 0 => control'.args = control.args,
           NEW w \in Nat, fp + 1 <= w, Len(stack') \in Nat, w <= Len(stack'),
           \A j \in 1 .. w : stack'[j] = stack[j],
           \A n \in 1 .. Len(Open) : Open[n].at <= w,
           Fits(Open, Len(Open), fp, Len(stack'), pc')
    PROVE  FramesOK'
<1> DEFINE D == Depth
           o == Open
           m == Len(o)
<1>1. /\ D \in Nat \ {0} /\ Act = acts[D] /\ o = Act.open /\ m \in Nat
      /\ ContinuationAt(D, Act, m, continuation)
      /\ CatchAt(D, Act, m, CatchBlockPointer) /\ ControlAt(Act, m, control)
  BY Current, ActIs DEF Typed
<1>2. D' = D /\ (\A d \in 1 .. D - 1 : acts'[d] = acts[d]) /\ acts'[D] = Act
  BY <1>1 DEF Depth
<1>3. ControlAt(Act, m, control')
  <2> HIDE DEF m
  <2> QED BY <1>1, ControlSame
<1>4. /\ Now'.continuation = continuation /\ Now'.catch = CatchBlockPointer
      /\ Now'.control = control' /\ Now'.fp = fp /\ Now'.sp = Len(stack') /\ Now'.pc = pc'
  BY DEF Now
<1>5. RightAt(D, acts'[D], Now')
  BY <1>1, <1>2, <1>3, <1>4 DEF RightAt
<1>6. \A j \in 1 .. m : o[j] = Open[j]
  OBVIOUS
<1>7. acts'[D].open = o /\ acts'[D].saved = Act.saved /\ m <= Len(Open) /\ (Len(o) = m \/ Len(o) = m + 1)
  BY <1>1, <1>2
<1>8. ~(Len(o) = m + 1)
  BY <1>1
<1>9. \A n \in 1 .. m : Open[n].at <= w
  OBVIOUS
<1>10. m > 0 => control'.args = control.args
  OBVIOUS
<1> HIDE DEF D, o, m
<1> QED BY <1>1, <1>2, <1>5, <1>6, <1>7, <1>8, <1>9, <1>10, Reopen DEF D

(* It keeps the types of what it leaves alone. *)
LEMMA ActsTypedSame == ActsTyped /\ acts' = acts => ActsTyped'
  BY DEF ActsTyped, Depth

LEMMA BindsKept ==
    ASSUME ActsTyped, BindsOK, UNCHANGED bindings, Depth' = Depth,
           \A d \in 1 .. Depth : acts'[d].bsp = acts[d].bsp,
           \A d \in 2 .. Depth : acts'[d].saved = acts[d].saved,
           Len(bindings) > Act.bsp => control'.bind,
           op'.in \in {"close", "unwind"} /\ Len(bindings) > Act.bsp => op'.control.bind
    PROVE  BindsOK'
<1> DEFINE D == Depth
<1>1. D \in 1 .. D /\ D \in Nat \ {0} /\ Act = acts[D] /\ Act' = acts'[D]
  BY ActIs DEF Act
<1>2. \A m \in 1 .. Len(bindings) : \A d \in 1 .. D : Own(d, m)' <=> Own(d, m)
  <2>1. \A d \in 1 .. D : \A e \in d + 1 .. D : e \in 1 .. D
    OBVIOUS
  <2> QED BY <2>1 DEF Own
<1>3. \A d \in 1 .. D - 1 : acts'[d + 1].bsp > acts'[d].bsp => acts'[d + 1].saved.control.bind
  <2>1. \A d \in 1 .. D - 1 : d \in 1 .. D /\ d + 1 \in 1 .. D /\ d + 1 \in 2 .. D
    BY <1>1
  <2> QED BY <2>1 DEF BindsOK
<1>4. \A m \in 1 .. Len(bindings) : \A d \in 1 .. D :
        Own(d, m)' /\ m > acts'[d].bsp + 1 => bindings[m].bind
  BY <1>2 DEF BindsOK
<1> QED BY <1>1, <1>3, <1>4 DEF BindsOK

(***************************************************************************)
(* The invariant, and what every step keeps of it.                         *)
(***************************************************************************)
(* What lies below what the guest may take off the stack. *)
LEMMA BaseIs ==
    ASSUME Typed, FramesOK
    PROVE  /\ Base \in Nat /\ fp + 1 <= Base /\ Base <= Len(stack)
           /\ \A n \in 1 .. Len(Open) : Open[n].at <= Base
           /\ Open = <<>> <=> Len(Open) = 0
           /\ Len(Open) > 0 => Base = Open[Len(Open)].at /\ Innermost = Open[Len(Open)]
           /\ Len(Open) = 0 => Base = fp + 1 /\ Innermost.k = "frame"
<1>1. Open = <<>> <=> Len(Open) = 0
  BY ActIs, EmptySeq DEF Typed
<1>2. Len(Open) \in Nat /\ fp \in Nat /\ fp + 1 <= Len(stack) /\ Len(stack) \in Nat
  BY Current, ActIs DEF Typed
<1>3. CASE Len(Open) = 0
  BY <1>1, <1>2, <1>3 DEF Base, Innermost
<1>4. CASE Len(Open) > 0
  <2> DEFINE n == Len(Open)
  <2>1. Innermost = Open[n] /\ Base = Open[n].at /\ n \in 1 .. n
    BY <1>1, <1>2, <1>4 DEF Base, Innermost
  <2>2. /\ Open[n].at \in Nat /\ Open[n].at >= fp + 1 /\ Open[n].at <= Len(stack)
        /\ \A m \in 1 .. n : Open[m].at <= Open[n].at
    BY <2>1, Current
  <2> QED BY <1>1, <1>2, <1>4, <2>1, <2>2
<1> QED BY <1>2, <1>3, <1>4

(* The records that steps change. *)
LEMMA WithBind ==
    ASSUME NEW c \in Controls, NEW b \in BOOLEAN
    PROVE  LET e == [c EXCEPT !.bind = b]
           IN /\ e \in Controls /\ e.bind = b /\ e.catch = c.catch /\ e.extra = c.extra
              /\ e.args = c.args /\ e.frame = c.frame /\ e.disp = c.disp
  BY DEF Controls

LEMMA OpType ==
    ASSUME op \in {Idle} \cup Unbinds \cup Closes \cup Returns
    PROVE  /\ op.in \in {"idle", "unbind", "close", "unwind", "return"}
           /\ op.in = "idle" => op = Idle
           /\ op.in = "unbind" => op \in Unbinds
           /\ op.in \in {"close", "unwind"} => op \in Closes
           /\ op.in = "return" => op \in Returns
           /\ op = Idle => op.in = "idle"
  BY DEF Idle, Unbinds, Closes, Returns

(* SET-SP-TO-ADDRESS. *)
LEMMA PopInv ==
    ASSUME Typed, FramesOK, OpOK, BindsOK, Pop
    PROVE  Typed' /\ FramesOK' /\ OpOK' /\ BindsOK'
<1>1. /\ UNCHANGED <<fp, lp, continuation, control, CatchBlockPointer, bindings,
                     cells, pc, op, traps, acts>>
      /\ stack' = SubSeq(stack, 1, Base) /\ sp' = Base /\ pc.i = "code" /\ op = Idle
  BY DEF Pop, Guest
<1>2. /\ Base \in Nat /\ fp + 1 <= Base /\ Base <= Len(stack)
      /\ \A n \in 1 .. Len(Open) : Open[n].at <= Base
  BY BaseIs
<1>3. /\ stack' \in Seq(Words) /\ Len(stack') = Base
      /\ \A j \in 1 .. Base : stack'[j] = stack[j]
  BY <1>1, <1>2, Cut DEF Typed, StackTyped
<1>4. Typed'
  <2>1. StackTyped'
    BY <1>2, <1>3, Current, FramesAssumption DEF Typed, StackTyped, FramesAssumption
  <2>2. Registers' /\ BindingsTyped'
    BY <1>1, <1>2 DEF Typed, Registers, BindingsTyped
  <2> QED BY <1>1, <2>1, <2>2, ActsTypedSame DEF Typed
<1>5. FramesOK'
  <2>1. Fits(Open, Len(Open), fp, Len(stack'), pc')
    BY <1>1, CodeFits
  <2>2. lp = fp + control.args
    BY Current
  <2> QED BY <1>1, <1>2, <1>3, <2>1, <2>2, Steady
<1>6. OpOK'
  BY <1>1, <1>3, OpType DEF OpOK, Typed, Registers
<1>7. BindsOK'
  BY <1>1 DEF BindsOK, Own, Act, Depth
<1> QED BY <1>4, <1>5, <1>6, <1>7

(* A number of words is pushed. *)
LEMMA Pushes ==
    ASSUME Typed, NEW t \in Seq(Words), Room(Len(t)), stack' = stack \o t
    PROVE  /\ StackTyped' /\ Len(stack') = Len(stack) + Len(t) /\ Len(stack) \in Nat
           /\ Len(t) \in Nat /\ Len(stack') \in Nat
           /\ \A j \in 1 .. Len(stack) : stack'[j] = stack[j]
           /\ \A j \in 1 .. Len(t) : stack'[Len(stack) + j] = t[j]
  BY Joined DEF Typed, StackTyped, Room

(* LOCATE-LOCALS. *)
LEMMA LocateLocalsInv ==
    ASSUME Typed, FramesOK, OpOK, BindsOK, LocateLocals
    PROVE  Typed' /\ FramesOK' /\ OpOK' /\ BindsOK'
<1> DEFINE x == Value(control.args - 2)
<1>1. /\ UNCHANGED <<fp, continuation, CatchBlockPointer, bindings, cells, pc, op, acts>>
      /\ stack' = Append(stack, x) /\ sp' = sp + 1 /\ lp' = sp /\ Room(1)
      /\ control' = [control EXCEPT !.args = sp - fp]
      /\ pc.i = "code" /\ op = Idle /\ Open = <<>>
  BY DEF LocateLocals, Guest
<1>2. /\ control' \in Controls /\ control'.args = sp - fp /\ control'.frame = control.frame
      /\ control'.disp = control.disp /\ control'.catch = control.catch
      /\ control'.extra = control.extra /\ control'.bind = control.bind
      /\ sp \in Nat /\ fp \in Nat
  <2>1. control \in Controls /\ sp \in Nat /\ fp \in Nat
    BY DEF Typed, Registers
  <2> DEFINE y == sp - fp
  <2>2. y \in Int /\ control' = [control EXCEPT !.args = y]
    BY <1>1, <2>1
  <2> HIDE DEF y
  <2>3. /\ control' \in Controls /\ control'.args = y /\ control'.frame = control.frame
        /\ control'.disp = control.disp /\ control'.catch = control.catch
        /\ control'.extra = control.extra /\ control'.bind = control.bind
    BY <2>1, <2>2 DEF Controls
  <2> QED BY <2>1, <2>3 DEF y
<1>3. x \in Words
  BY DEF Value, Words, Plain, Typed, Registers, Controls
<1>4. stack' = stack \o <<x>> /\ <<x>> \in Seq(Words) /\ Len(<<x>>) = 1
  <2> HIDE DEF x
  <2> QED BY <1>1, <1>3, Lasted DEF Typed, StackTyped
<1>5. /\ StackTyped' /\ Len(stack') = Len(stack) + 1 /\ Len(stack) \in Nat
      /\ \A j \in 1 .. Len(stack) : stack'[j] = stack[j]
  <2> HIDE DEF x
  <2> QED BY <1>1, <1>4, Pushes
<1>6. Typed'
  <2>1. Registers' /\ BindingsTyped'
    BY <1>1, <1>2 DEF Typed, Registers, BindingsTyped
  <2> QED BY <1>1, <1>5, <2>1, ActsTypedSame DEF Typed
<1>7. FramesOK'
  <2>1. Fits(Open, Len(Open), fp, Len(stack'), pc')
    BY <1>1, CodeFits
  <2>2. /\ Len(Open) = 0 /\ fp + 1 <= Len(stack) /\ lp' = fp + control'.args
        /\ Len(stack') \in Nat /\ Len(stack) <= Len(stack')
    BY <1>1, <1>2, <1>5, Current, BaseIs
  <2>3. \A n \in 1 .. Len(Open) : Open[n].at <= Len(stack)
    BY <2>2
  <2>4. ~(Len(Open) > 0)
    BY <2>2
  <2> QED BY <1>1, <1>2, <1>5, <2>1, <2>2, <2>3, <2>4, Steady
<1>8. OpOK'
  BY <1>1, <1>5, OpType DEF OpOK, Typed, Registers
<1>9. BindsOK'
  BY <1>1, <1>2, OpType DEF BindsOK, Own, Act, Depth, Typed, Registers
<1> QED BY <1>6, <1>7, <1>8, <1>9

(* The innermost catch block of the frame is the one CatchBlockPointer     *)
(* points to, and holds what it should.                                    *)
LEMMA BlockIs ==
    ASSUME Typed, FramesOK, Kinds(Open, Len(Open), "catch") # {}
    PROVE  LET m == InnermostCatch(Act)
           IN /\ m \in 1 .. Len(Open) /\ Open[m].k = "catch"
              /\ \A j \in m + 1 .. Len(Open) : Open[j].k # "catch"
              /\ CatchBlockPointer = Open[m].block
              /\ CatchOK(stack, Depth, Act, Now, m)
              /\ Block.handler \in PCs /\ Block.handler.i = "code"
              /\ Block.bsp \in Nat /\ Block.uwp \in BOOLEAN /\ Block.previous \in Links
              /\ CatchAt(Depth, Act, m - 1, Block.previous.p)
              /\ ControlAt(Act, m - 1, Block.previous)
<1> DEFINE m == InnermostCatch(Act)
           b == CatchBlockPointer
<1>1. Open = Act.open /\ Len(Open) \in Nat
  BY ActIs DEF Typed
<1>2. /\ m \in Last(Open, Len(Open), "catch") /\ m \in 1 .. Len(Open)
      /\ Open[m].k = "catch" /\ \A j \in m + 1 .. Len(Open) : Open[j].k # "catch"
  <2> HIDE DEF m
  <2> QED BY <1>1, InnermostIs DEF m
<1>3. b = Open[m].block
  <2> HIDE DEF m
  <2> QED BY <1>1, <1>2, Current DEF CatchAt
<1>4. CatchOK(stack, Depth, Act, Now, m)
  <2> HIDE DEF m
  <2>1. ItemOK(stack, Depth, Act, Now, m)
    BY <1>1, <1>2, Current DEF ItemsOK
  <2> QED BY <1>1, <1>2, <2>1 DEF ItemOK
<1>5. /\ stack[b] \in PCWords /\ stack[b].pc.i = "code" /\ stack[b + 1] \in Marks
      /\ stack[b + 2] \in Links /\ CatchAt(Depth, Act, m - 1, stack[b + 2].p)
      /\ ControlAt(Act, m - 1, stack[b + 2])
  <2> HIDE DEF m
  <2> QED BY <1>1, <1>3, <1>4 DEF CatchOK
<1>6. /\ Block.handler = stack[b].pc /\ Block.bsp = stack[b + 1].n
      /\ Block.uwp = stack[b + 1].uwp /\ Block.previous = stack[b + 2]
  BY DEF Block
<1>7. Block.handler \in PCs /\ Block.bsp \in Nat /\ Block.uwp \in BOOLEAN
  BY <1>5, <1>6 DEF PCWords, Marks
<1> HIDE DEF m
<1> QED BY <1>2, <1>3, <1>4, <1>5, <1>6, <1>7 DEF m

(* An instruction is fetched, with t pushed. *)
LEMMA FetchInv ==
    ASSUME Typed, FramesOK, OpOK, BindsOK, NEW p \in PCs, Fetch(p),
           NEW t \in Seq(Words), Room(Len(t)), stack' = stack \o t, sp' = sp + Len(t),
           Fits(Open, Len(Open), fp, Len(stack) + Len(t), p)
    PROVE  Typed' /\ FramesOK' /\ OpOK' /\ BindsOK'
<1>1. /\ UNCHANGED <<fp, lp, continuation, control, CatchBlockPointer, bindings,
                     cells, op, acts>>
      /\ pc' = p /\ op = Idle
  BY DEF Fetch, Guest
<1>2. /\ StackTyped' /\ Len(stack') = Len(stack) + Len(t) /\ Len(stack) \in Nat
      /\ Len(t) \in Nat /\ Len(stack') \in Nat
      /\ \A j \in 1 .. Len(stack) : stack'[j] = stack[j]
  BY Pushes
<1>3. Typed'
  <2>1. Registers' /\ BindingsTyped'
    BY <1>1, <1>2 DEF Typed, Registers, BindingsTyped
  <2> QED BY <1>1, <1>2, <2>1, ActsTypedSame DEF Typed
<1>4. FramesOK'
  <2>1. Fits(Open, Len(Open), fp, Len(stack'), pc')
    BY <1>1, <1>2
  <2>2. /\ fp + 1 <= Len(stack) /\ lp = fp + control.args /\ Len(stack) <= Len(stack')
        /\ \A n \in 1 .. Len(Open) : Open[n].at <= Len(stack)
    BY <1>2, Current
  <2> QED BY <1>1, <1>2, <2>1, <2>2, Steady
<1>5. OpOK'
  BY <1>1, <1>2, OpType DEF OpOK, Typed, Registers
<1>6. BindsOK'
  BY <1>1 DEF BindsOK, Own, Act, Depth
<1> QED BY <1>3, <1>4, <1>5, <1>6

(* UNBIND-N, CATCH-CLOSE and the return instructions. *)
LEMMA FetchesInv ==
    ASSUME Typed, FramesOK, OpOK, BindsOK,
           \/ \E n \in 1 .. MaxBindings : FetchUnbindN(n)
           \/ FetchCatchClose
           \/ FetchReturn("single", 1)
           \/ \E n \in Counts : FetchReturn("multiple", n)
    PROVE  Typed' /\ FramesOK' /\ OpOK' /\ BindsOK'
<1>1. /\ Len(Open) \in Nat /\ Open = Act.open /\ Depth \in Nat /\ Len(stack) \in Nat
      /\ stack \in Seq(Words) /\ fp \in Nat /\ fp + 1 <= Len(stack)
      /\ op = Idle => sp = Len(stack)
  BY ActIs, Current, OpType DEF Typed, StackTyped, OpOK, Registers
<1>2. <<>> \in Seq(Words) /\ Len(<<>>) = 0 /\ stack \o <<>> = stack /\ Room(0)
  BY <1>1, ConcatEmptySeq, EmptySeq DEF Room, Typed, StackTyped
<1>3. ASSUME NEW n \in 1 .. MaxBindings, FetchUnbindN(n)
      PROVE  Typed' /\ FramesOK' /\ OpOK' /\ BindsOK'
  <2> DEFINE p == [i |-> "unbind", d |-> Depth, n |-> n]
  <2>1. p \in PCs
    BY <1>1, FramesAssumption DEF PCs, FramesAssumption
  <2>2. Fetch(p) /\ stack' = stack /\ sp' = sp
    BY <1>3 DEF FetchUnbindN
  <2>3. Fits(Open, Len(Open), fp, Len(stack) + Len(<<>>), p)
    BY <1>3 DEF FetchUnbindN, Bound, Fits
  <2>4. sp' = sp + Len(<<>>)
    BY <1>2, <2>2 DEF Typed, Registers
  <2> HIDE DEF p
  <2> QED BY <1>2, <2>1, <2>2, <2>3, <2>4, FetchInv
<1>4. ASSUME FetchCatchClose
      PROVE  Typed' /\ FramesOK' /\ OpOK' /\ BindsOK'
  <2> DEFINE p == [i |-> "close", d |-> Depth]
  <2>1. p \in PCs
    BY <1>1 DEF PCs
  <2>2. Fetch(p) /\ stack' = stack /\ sp' = sp
    BY <1>4 DEF FetchCatchClose
  <2>3. Fits(Open, Len(Open), fp, Len(stack) + Len(<<>>), p)
    <3> DEFINE m == InnermostCatch(Act)
    <3>1. Catches(Act) # {} /\ \A j \in m + 1 .. Len(Open) : Open[j].k = "bind"
      BY <1>4 DEF FetchCatchClose, Bound
    <3>2. Kinds(Act.open, Len(Act.open), "catch") # {}
      BY <3>1 DEF Catches, Kinds
    <3>3. m \in 1 .. Len(Open) /\ Open[m].k = "catch"
      BY <1>1, <3>2, InnermostIs
    <3> HIDE DEF m
    <3> QED BY <3>1, <3>3 DEF Fits
  <2>4. sp' = sp + Len(<<>>)
    BY <1>2, <2>2 DEF Typed, Registers
  <2> HIDE DEF p
  <2> QED BY <1>2, <2>1, <2>2, <2>3, <2>4, FetchInv
<1>5. ASSUME NEW k \in {"single", "multiple"}, NEW n \in Nat, k = "single" => n = 1,
             FetchReturn(k, n)
      PROVE  Typed' /\ FramesOK' /\ OpOK' /\ BindsOK'
  <2> DEFINE p == [i |-> "return", d |-> Depth, k |-> k, n |-> n]
  <2>1. p \in PCs
    BY <1>1, <1>5 DEF PCs
  <2>2. Fetch(p) /\ stack' = stack \o Values(n) /\ sp' = sp + n /\ Room(n) /\ Started = {}
    BY <1>5 DEF FetchReturn
  <2>3. Values(n) \in Seq(Words) /\ Len(Values(n)) = n
    BY ValuesType
  <2>4. Fits(Open, Len(Open), fp, Len(stack) + n, p)
    <3>1. Kinds(Open, Len(Open), "start") = {}
      BY <2>2 DEF Started, Kinds
    <3>2. Len(stack) + n - n >= fp + 1
      BY <1>1
    <3> QED BY <3>1, <3>2 DEF Fits
  <2> HIDE DEF p
  <2> QED BY <2>1, <2>2, <2>3, <2>4, FetchInv
<1>6. Counts \subseteq Nat
  BY FramesAssumption DEF FramesAssumption
<1>7. CASE FetchReturn("single", 1)
  BY <1>5, <1>7
<1>8. ASSUME NEW n \in Counts, FetchReturn("multiple", n)
      PROVE  Typed' /\ FramesOK' /\ OpOK' /\ BindsOK'
  <2>1. n \in Nat
    BY <1>6
  <2> QED BY <1>5, <1>8, <2>1
<1> QED BY <1>3, <1>4, <1>7, <1>8

(* An instruction begins. *)
LEMMA BeginInv ==
    ASSUME Typed, FramesOK, OpOK, BindsOK, Begin
    PROVE  Typed' /\ FramesOK' /\ OpOK' /\ BindsOK'
<1>1. /\ UNCHANGED <<stack, fp, lp, sp, continuation, control, CatchBlockPointer,
                     bindings, cells, pc, acts>>
      /\ op = Idle /\ pc.i # "code"
  BY DEF Begin, regs
<1>2. /\ pc \in PCs /\ pc.i \in {"unbind", "close", "return"} /\ control \in Controls
      /\ pc.i = "unbind" => pc.n \in Nat
      /\ pc.i = "return" => pc.n \in Nat /\ pc.k \in {"single", "multiple"}
  BY <1>1, PCType DEF Typed, Registers
<1>3. /\ sp = Len(stack) /\ fp \in Nat /\ fp + 1 <= Len(stack) /\ Len(stack) \in Nat
      /\ lp = fp + control.args /\ Fits(Open, Len(Open), fp, Len(stack), pc)
      /\ \A n \in 1 .. Len(Open) : Open[n].at <= Len(stack)
  BY <1>1, Current, OpType DEF OpOK, Typed, Registers
<1>4. stack[sp] \in Words
  <2>1. sp \in 1 .. Len(stack) /\ stack \in Seq(Words)
    BY <1>3 DEF Typed, StackTyped
  <2> HIDE DEF Words
  <2> QED BY <2>1, ElementOfSeq
<1>5. /\ op' \in Unbinds \cup Closes \cup Returns
      /\ \/ op'.in = "unbind" /\ pc.i = "unbind"
         \/ op'.in = "close" /\ pc.i = "close" /\ op'.control = control
         \/ op'.in = "return" /\ pc.i = "return"
  <2>1. CASE pc.i = "unbind"
    <3>1. op' = [in |-> "unbind", left |-> pc.n]
      BY <2>1 DEF Begin
    <3> QED BY <1>2, <2>1, <3>1 DEF Unbinds
  <2>2. CASE pc.i = "close"
    <3> DEFINE l == Max0(Len(bindings) - Block.bsp)
    <3>1. op' = [in |-> "close", control |-> control, left |-> l]
      BY <2>2 DEF Begin
    <3>2. Kinds(Open, Len(Open), "catch") # {}
      BY <1>3, <2>2 DEF Fits, Kinds
    <3>3. Block.bsp \in Nat /\ Len(bindings) \in Nat
      BY <3>2, BlockIs, LenProperties DEF Typed, BindingsTyped
    <3>4. l \in Nat
      BY <3>3 DEF Max0
    <3> HIDE DEF l
    <3> QED BY <1>2, <2>2, <3>1, <3>4 DEF Closes
  <2>3. CASE pc.i = "return"
    <3> DEFINE w == stack[sp]
    <3>1. op' = [in |-> "return", hop |-> FALSE, scratch |-> w]
      BY <2>3 DEF Begin
    <3>2. w \in Words
      BY <1>4
    <3> HIDE DEF w, Words
    <3> QED BY <2>3, <3>1, <3>2 DEF Returns
  <2> QED BY <1>2, <2>1, <2>2, <2>3
<1>6. Typed'
  <2> HIDE DEF Words
  <2>1. Registers' /\ BindingsTyped' /\ StackTyped'
    BY <1>1, <1>5 DEF Typed, Registers, BindingsTyped, StackTyped
  <2> QED BY <1>1, <2>1, ActsTypedSame DEF Typed
<1>7. FramesOK'
  <2>1. \A j \in 1 .. Len(stack) : stack'[j] = stack[j]
    BY <1>1
  <2> QED BY <1>1, <1>3, <2>1, Steady
<1>8. OpOK'
  <2>1. pc.i = "return" /\ pc.k = "multiple" => sp - pc.n >= fp + 1
    BY <1>3 DEF Fits
  <2>2. [control EXCEPT !.bind = control.bind] = control
    BY <1>2 DEF Controls
  <2> QED BY <1>1, <1>3, <1>5, <2>1, <2>2 DEF OpOK
<1>9. BindsOK'
  BY <1>1, <1>5 DEF BindsOK, Own, Act, Depth
<1> QED BY <1>6, <1>7, <1>8, <1>9

(* What Unbind does. *)
LEMMA UnbindKeeps ==
    ASSUME Typed, BindsOK, Unbind, acts' = acts,
           op'.in \in {"close", "unwind"} =>
             op.in \in {"close", "unwind"} /\ op'.control = op.control
    PROVE  /\ BindingsTyped' /\ BindsOK' /\ control' \in Controls
           /\ control' = [control EXCEPT !.bind = control'.bind]
           /\ control'.args = control.args /\ control'.frame = control.frame
           /\ control'.disp = control.disp /\ control'.catch = control.catch
           /\ control'.extra = control.extra
<1> DEFINE n == Len(bindings)
           b == bindings[n]
<1>1. /\ bindings # <<>> /\ bindings' = SubSeq(bindings, 1, n - 1)
      /\ cells' = [cells EXCEPT ![b.loc] = b.old]
      /\ control' = [control EXCEPT !.bind = b.bind]
  BY DEF Unbind
<1>2. bindings \in Seq(Binding) /\ n \in Nat \ {0} /\ n - 1 \in Nat
  BY <1>1, EmptySeq, LenProperties DEF Typed, BindingsTyped
<1>3. b \in Binding
  BY <1>2, ElementOfSeq
<1>4. /\ bindings' \in Seq(Binding) /\ Len(bindings') = n - 1
      /\ \A j \in 1 .. n - 1 : bindings'[j] = bindings[j]
  <2> DEFINE k == n - 1
  <2>1. k \in Nat /\ k <= Len(bindings)
    BY <1>2
  <2> HIDE DEF k
  <2>2. LET t == SubSeq(bindings, 1, k)
        IN t \in Seq(Binding) /\ Len(t) = k /\ \A j \in 1 .. k : t[j] = bindings[j]
    BY <1>2, <2>1, Cut
  <2> QED BY <1>1, <2>2 DEF k
<1>5. BindingsTyped'
  <2>1. b.loc \in Locs /\ b.old \in 0 .. MaxBindings
    BY <1>3 DEF Binding
  <2> HIDE DEF b, n
  <2>2. cells' \in [Locs -> 0 .. MaxBindings]
    BY <1>1, <2>1 DEF Typed, BindingsTyped
  <2> QED BY <1>4, <2>2 DEF BindingsTyped
<1>6. control \in Controls /\ b.bind \in BOOLEAN
  BY <1>3 DEF Binding, Typed, Registers
<1>7. /\ control' \in Controls /\ control'.bind = b.bind
      /\ control'.args = control.args /\ control'.frame = control.frame
      /\ control'.disp = control.disp /\ control'.catch = control.catch
      /\ control'.extra = control.extra
  <2> HIDE DEF b
  <2> QED BY <1>1, <1>6, WithBind
<1>8. BindsOK'
  <2> DEFINE D == Depth
  <2>1. D \in Nat \ {0} /\ D \in 1 .. D /\ Act = acts[D] /\ Act.bsp \in Nat
    BY ActIs DEF Typed
  <2>2. D' = D /\ Act' = Act
    BY DEF Depth, Act
  <2>3. \A m \in 1 .. n - 1 : m \in 1 .. n
    BY <1>2
  <2>4. \A m \in 1 .. n : \A d \in 1 .. D : Own(d, m)' <=> Own(d, m)
    BY <2>2 DEF Own
  <2>5. \A m \in 1 .. n - 1 : \A d \in 1 .. D :
          Own(d, m)' /\ m > acts'[d].bsp + 1 => bindings'[m].bind
    <3> HIDE DEF n
    <3> QED BY <1>4, <2>3, <2>4 DEF BindsOK, n
  <2>6. n - 1 > Act.bsp => b.bind
    <3> SUFFICES ASSUME n - 1 > Act.bsp PROVE b.bind
      OBVIOUS
    <3>1. Own(D, n) /\ n > Act.bsp + 1 /\ n \in 1 .. n
      <4>1. D + 1 .. D = {}
        BY <2>1
      <4> QED BY <1>2, <2>1, <4>1 DEF Own
    <3> QED BY <2>1, <3>1 DEF BindsOK
  <2>7. n - 1 > Act.bsp => n > Act.bsp
    BY <1>2, <2>1
  <2> HIDE DEF b, n, D
  <2>8. \A d \in 1 .. D - 1 : acts'[d + 1].bsp > acts'[d].bsp => acts'[d + 1].saved.control.bind
    BY DEF BindsOK, D
  <2>9. op'.in \in {"close", "unwind"} /\ n - 1 > Act.bsp => op'.control.bind
    BY <2>7 DEF BindsOK, n
  <2> QED BY <1>4, <1>7, <2>2, <2>5, <2>6, <2>8, <2>9 DEF BindsOK, D
<1> HIDE DEF b
<1> QED BY <1>1, <1>5, <1>7, <1>8

(* One turn of the loops that unbind. *)
LEMMA UnbindOneInv ==
    ASSUME Typed, FramesOK, OpOK, BindsOK, UnbindOne
    PROVE  Typed' /\ FramesOK' /\ OpOK' /\ BindsOK'
<1>1. /\ UNCHANGED <<stack, fp, lp, sp, continuation, CatchBlockPointer, pc, acts>>
      /\ op.in \in {"unbind", "close", "unwind"} /\ op.left > 0 /\ Unbind
      /\ op' = [op EXCEPT !.left = op.left - 1]
  BY DEF UnbindOne
<1>2. /\ op \in Unbinds \cup Closes
      /\ op.in = "unbind" => op \in Unbinds
      /\ op.in \in {"close", "unwind"} => op \in Closes
  BY <1>1, OpType DEF Typed, Registers
<1>3. /\ op'.in = op.in /\ op' \in Unbinds \cup Closes
      /\ op.in \in {"close", "unwind"} => op'.control = op.control
  BY <1>1, <1>2 DEF Unbinds, Closes
<1>4. /\ BindingsTyped' /\ BindsOK' /\ control' \in Controls
      /\ control' = [control EXCEPT !.bind = control'.bind]
      /\ control'.args = control.args /\ control'.frame = control.frame
      /\ control'.disp = control.disp /\ control'.catch = control.catch
      /\ control'.extra = control.extra
  BY <1>1, <1>3, UnbindKeeps
<1>5. Typed'
  <2>1. Registers' /\ StackTyped'
    BY <1>1, <1>3, <1>4 DEF Typed, Registers, StackTyped
  <2> QED BY <1>1, <1>4, <2>1, ActsTypedSame DEF Typed
<1>6. FramesOK'
  <2>1. /\ Len(stack) \in Nat /\ fp + 1 <= Len(stack) /\ lp = fp + control.args
        /\ Fits(Open, Len(Open), fp, Len(stack), pc)
        /\ \A n \in 1 .. Len(Open) : Open[n].at <= Len(stack)
    BY Current
  <2>2. \A j \in 1 .. Len(stack) : stack'[j] = stack[j]
    BY <1>1
  <2> QED BY <1>1, <1>4, <2>1, <2>2, Steady
<1>7. OpOK'
  <2>1. op.in \in {"close", "unwind"} =>
          [op.control EXCEPT !.bind = control'.bind] = control'
    <3> SUFFICES ASSUME op.in \in {"close", "unwind"}
                 PROVE  [op.control EXCEPT !.bind = control'.bind] = control'
      OBVIOUS
    <3> DEFINE c == op.control
    <3>1. c \in Controls /\ [c EXCEPT !.bind = control.bind] = control
      BY <1>2 DEF Closes, OpOK
    <3> HIDE DEF c
    <3> QED BY <1>4, <3>1 DEF Controls, c
  <2> QED BY <1>1, <1>3, <1>4, <2>1 DEF OpOK
<1> QED BY <1>4, <1>5, <1>6, <1>7

(* A return undoes a binding. *)
LEMMA ReturnUnbindInv ==
    ASSUME Typed, FramesOK, OpOK, BindsOK, ReturnUnbind
    PROVE  Typed' /\ FramesOK' /\ OpOK' /\ BindsOK'
<1>1. /\ UNCHANGED <<stack, fp, lp, sp, continuation, CatchBlockPointer, pc, acts>>
      /\ op.in = "return" /\ Unbind /\ op' = [op EXCEPT !.hop = FALSE]
  BY DEF ReturnUnbind
<1>2. op \in Returns
  BY <1>1, OpType DEF Typed, Registers
<1>3. op'.in = "return" /\ op' \in Returns
  <2> HIDE DEF Words
  <2> QED BY <1>1, <1>2 DEF Returns
<1>4. /\ BindingsTyped' /\ BindsOK' /\ control' \in Controls
      /\ control'.args = control.args /\ control'.frame = control.frame
      /\ control'.disp = control.disp /\ control'.catch = control.catch
      /\ control'.extra = control.extra
  BY <1>1, <1>3, UnbindKeeps
<1>5. Typed'
  <2>1. Registers' /\ StackTyped'
    BY <1>1, <1>3, <1>4 DEF Typed, Registers, StackTyped
  <2> QED BY <1>1, <1>4, <2>1, ActsTypedSame DEF Typed
<1>6. FramesOK'
  <2>1. /\ Len(stack) \in Nat /\ fp + 1 <= Len(stack) /\ lp = fp + control.args
        /\ Fits(Open, Len(Open), fp, Len(stack), pc)
        /\ \A n \in 1 .. Len(Open) : Open[n].at <= Len(stack)
    BY Current
  <2>2. \A j \in 1 .. Len(stack) : stack'[j] = stack[j]
    BY <1>1
  <2> QED BY <1>1, <1>4, <2>1, <2>2, Steady
<1>7. OpOK'
  BY <1>1, <1>3 DEF OpOK
<1> QED BY <1>4, <1>5, <1>6, <1>7

(* A return is given up for an unwind-protect. *)
LEMMA ReturnUnwindInv ==
    ASSUME Typed, FramesOK, OpOK, BindsOK, ReturnUnwind
    PROVE  Typed' /\ FramesOK' /\ OpOK' /\ BindsOK'
<1> DEFINE l == Max0(Len(bindings) - Block.bsp)
<1>1. /\ UNCHANGED <<stack, fp, lp, continuation, control, CatchBlockPointer,
                     bindings, cells, pc, acts>>
      /\ op.in = "return" /\ control.catch /\ sp' = Len(stack)
      /\ op' = [in |-> "unwind", control |-> control, left |-> l]
  BY DEF ReturnUnwind
<1>2. /\ Len(stack) \in Nat /\ fp + 1 <= Len(stack) /\ lp = fp + control.args
      /\ Fits(Open, Len(Open), fp, Len(stack), pc) /\ control \in Controls
      /\ \A n \in 1 .. Len(Open) : Open[n].at <= Len(stack)
      /\ ControlAt(Act, Len(Open), control) /\ Open = Act.open
  BY Current, ActIs DEF Typed, Registers
<1>3. Block.bsp \in Nat /\ Len(bindings) \in Nat
  <2>1. Kinds(Open, Len(Open), "catch") # {}
    BY <1>1, <1>2 DEF ControlAt
  <2> QED BY <2>1, BlockIs, LenProperties DEF Typed, BindingsTyped
<1>4. l \in Nat
  BY <1>3 DEF Max0
<1> HIDE DEF l
<1>5. op' \in Closes /\ op'.in = "unwind" /\ op'.control = control
  BY <1>1, <1>2, <1>4 DEF Closes
<1>6. Typed'
  <2>1. Registers' /\ BindingsTyped' /\ StackTyped'
    BY <1>1, <1>2, <1>5 DEF Typed, Registers, BindingsTyped, StackTyped
  <2> QED BY <1>1, <2>1, ActsTypedSame DEF Typed
<1>7. FramesOK'
  <2>1. (\A j \in 1 .. Len(stack) : stack'[j] = stack[j]) /\ Len(stack') = Len(stack)
    BY <1>1
  <2>2. /\ acts' = acts /\ fp' = fp /\ lp' = fp + control'.args
        /\ continuation' = continuation /\ CatchBlockPointer' = CatchBlockPointer
        /\ Fits(Open, Len(Open), fp, Len(stack'), pc')
    BY <1>1, <1>2
  <2>3. /\ control'.args = control.args /\ control'.frame = control.frame
        /\ control'.disp = control.disp /\ control'.catch = control.catch
        /\ control'.extra = control.extra
    BY <1>1
  <2> DEFINE w == Len(stack)
  <2>4. /\ w \in Nat /\ fp + 1 <= w /\ Len(stack') \in Nat /\ w <= Len(stack')
        /\ (\A j \in 1 .. w : stack'[j] = stack[j])
        /\ \A n \in 1 .. Len(Open) : Open[n].at <= w
    BY <1>2, <2>1
  <2> HIDE DEF w
  <2> QED BY <2>2, <2>3, <2>4, Steady
<1>8. OpOK'
  <2>1. [control EXCEPT !.bind = control.bind] = control
    BY <1>2 DEF Controls
  <2> QED BY <1>1, <1>5, <2>1 DEF OpOK
<1>9. BindsOK'
  BY <1>1, <1>5 DEF BindsOK, Own, Act, Depth
<1> QED BY <1>6, <1>7, <1>8, <1>9

(* A step that changes nothing. *)
LEMMA StutterInv ==
    ASSUME Typed, FramesOK, OpOK, BindsOK, UNCHANGED vars
    PROVE  Typed' /\ FramesOK' /\ OpOK' /\ BindsOK'
<1>1. UNCHANGED <<stack, fp, lp, sp, continuation, control, CatchBlockPointer,
                  bindings, cells, pc, op, acts>>
  BY DEF vars, state, regs
<1>2. Typed' /\ BindsOK'
  BY <1>1 DEF Typed, Registers, StackTyped, ActsTyped, BindingsTyped, BindsOK, Own, Act, Depth
<1>3. FramesOK'
  <2>1. /\ Len(stack) \in Nat /\ fp + 1 <= Len(stack) /\ lp = fp + control.args
        /\ Fits(Open, Len(Open), fp, Len(stack), pc)
        /\ \A n \in 1 .. Len(Open) : Open[n].at <= Len(stack)
        /\ \A j \in 1 .. Len(stack) : stack'[j] = stack[j]
    BY <1>1, Current
  <2> QED BY <1>1, <2>1, Steady
<1>4. OpOK'
  BY <1>1 DEF OpOK
<1> QED BY <1>2, <1>3, <1>4

-----------------------------------------------------------------------------
(* The guest closes what it opened last: the first m items are left. *)
LEMMA ClosesTo ==
    ASSUME Typed, FramesOK, NEW m \in Nat, m <= Len(Open),
           acts' = [acts EXCEPT ![Depth].open = SubSeq(acts[Depth].open, 1, m)]
    PROVE  /\ ActsTyped' /\ Depth' = Depth
           /\ \A d \in 1 .. Depth - 1 : acts'[d] = acts[d]
           /\ acts'[Depth].saved = Act.saved
           /\ \A d \in 1 .. Depth : acts'[d].bsp = acts[d].bsp
           /\ Len(acts'[Depth].open) = m
           /\ \A j \in 1 .. m : acts'[Depth].open[j] = Open[j]
<1> DEFINE o == SubSeq(acts[Depth].open, 1, m)
<1>1. Open = acts[Depth].open /\ Open \in Seq(Items) /\ ActsTyped
  BY ActIs DEF Typed
<1>2. o \in Seq(Items) /\ Len(o) = m /\ \A j \in 1 .. m : o[j] = Open[j]
  BY <1>1, Cut
<1> HIDE DEF o
<1>3. acts' = [acts EXCEPT ![Depth].open = o]
  BY DEF o
<1> QED BY <1>1, <1>2, <1>3, OpensTo

(* The registers are right for what is left if no call and no catch block  *)
(* is closed.                                                              *)
LEMMA StillRight ==
    ASSUME Typed, FramesOK, NEW m \in Nat, m <= Len(Open),
           \A j \in m + 1 .. Len(Open) : Open[j].k # "start" /\ Open[j].k # "catch",
           NEW a, a.saved = Act.saved, \A j \in 1 .. m : a.open[j] = Open[j]
    PROVE  /\ ContinuationAt(Depth, a, m, continuation)
           /\ CatchAt(Depth, a, m, CatchBlockPointer)
           /\ ControlAt(a, m, control)
<1> DEFINE n == Len(Open)
<1>1. /\ Open = Act.open /\ n \in Nat
      /\ ContinuationAt(Depth, Act, n, continuation)
      /\ CatchAt(Depth, Act, n, CatchBlockPointer) /\ ControlAt(Act, n, control)
  BY Current, ActIs DEF Typed
<1> HIDE DEF n
<1>2. m <= n /\ \A j \in m + 1 .. n : Act.open[j].k # "start" /\ Act.open[j].k # "catch"
  BY <1>1 DEF n
<1>3. /\ ContinuationAt(Depth, Act, m, continuation)
      /\ CatchAt(Depth, Act, m, CatchBlockPointer) /\ ControlAt(Act, m, control)
  <2>0. n \in Nat /\ m <= n
    BY <1>1, <1>2
  <2>1. \A p : ContinuationAt(Depth, Act, n, p) <=> ContinuationAt(Depth, Act, m, p)
    <3>1. \A j \in m + 1 .. n : Act.open[j].k # "start"
      BY <1>2
    <3> QED BY <2>0, <3>1, RightDrop
  <2>2. \A p : CatchAt(Depth, Act, n, p) <=> CatchAt(Depth, Act, m, p)
    <3>1. \A j \in m + 1 .. n : Act.open[j].k # "catch"
      BY <1>2
    <3> QED BY <2>0, <3>1, RightDrop
  <2>3. \A c : ControlAt(Act, n, c) <=> ControlAt(Act, m, c)
    BY <1>1, <1>2, RightDrop
  <2> QED BY <1>1, <2>1, <2>2, <2>3
<1>4. \A j \in 1 .. m : a.open[j] = Act.open[j]
  BY <1>1
<1> QED BY <1>3, <1>4, RightSame

(* UNBIND-N is done. *)
LEMMA UnbindNEndInv ==
    ASSUME Typed, FramesOK, OpOK, BindsOK, UnbindNEnd
    PROVE  Typed' /\ FramesOK' /\ OpOK' /\ BindsOK'
<1> DEFINE m == Len(Open) - pc.n
           a2 == acts'[Depth]
<1>1. /\ UNCHANGED <<stack, fp, lp, sp, continuation, control, CatchBlockPointer,
                     bindings, cells>>
      /\ op.in = "unbind" /\ pc' = Code(pc.d) /\ op' = Idle
      /\ acts' = [acts EXCEPT ![Depth].open = SubSeq(acts[Depth].open, 1, m)]
  BY DEF UnbindNEnd, Closed, regs
<1>2. /\ pc.i = "unbind" /\ pc.n \in Nat /\ pc.d \in Nat
  BY <1>1, PCType DEF OpOK, Typed, Registers
<1>3. /\ Fits(Open, Len(Open), fp, Len(stack), pc) /\ fp + 1 <= Len(stack)
      /\ lp = fp + control.args /\ Len(stack) \in Nat /\ fp \in Nat
      /\ \A n \in 1 .. Len(Open) : Open[n].at <= Len(stack)
  BY Current
<1>4. /\ m \in Nat /\ m <= Len(Open) /\ Len(Open) \in Nat
      /\ \A j \in m + 1 .. Len(Open) : Open[j].k = "bind"
  BY <1>2, <1>3, ActIs DEF Fits, Typed
<1>5. /\ ActsTyped' /\ Depth' = Depth
      /\ \A d \in 1 .. Depth - 1 : acts'[d] = acts[d]
      /\ a2.saved = Act.saved /\ Len(a2.open) = m
      /\ \A d \in 1 .. Depth : acts'[d].bsp = acts[d].bsp
      /\ \A j \in 1 .. m : a2.open[j] = Open[j]
  <2> HIDE DEF m
  <2> QED BY <1>1, <1>4, ClosesTo
<1>6. pc' \in PCs /\ pc'.i = "code" /\ op'.in = "idle"
  BY <1>1, <1>2, CodeIs DEF Idle
<1>7. Typed'
  <2>1. Registers' /\ StackTyped' /\ BindingsTyped'
    BY <1>1, <1>6 DEF Typed, Registers, StackTyped, BindingsTyped
  <2> QED BY <1>5, <2>1 DEF Typed
<1>8. RightAt(Depth, a2, Now')
  <2>1. /\ ContinuationAt(Depth, a2, m, continuation)
        /\ CatchAt(Depth, a2, m, CatchBlockPointer) /\ ControlAt(a2, m, control)
    <3>1. \A j \in m + 1 .. Len(Open) : Open[j].k # "start" /\ Open[j].k # "catch"
      BY <1>4
    <3> HIDE DEF m, a2
    <3> QED BY <1>4, <1>5, <3>1, StillRight
  <2>2. /\ Now'.continuation = continuation /\ Now'.catch = CatchBlockPointer
        /\ Now'.control = control /\ Now'.pc = pc'
    BY <1>1 DEF Now
  <2>3. Fits(a2.open, m, Now'.fp, Now'.sp, pc')
    BY <1>6, CodeFits
  <2> HIDE DEF m, a2
  <2> QED BY <1>5, <2>1, <2>2, <2>3 DEF RightAt
<1>9. FramesOK'
  <2> DEFINE o == a2.open
             w == Len(stack)
  <2>1. /\ fp' = fp /\ lp' = fp + control'.args /\ control'.args = control.args
        /\ control'.frame = control.frame /\ control'.disp = control.disp
    BY <1>1, <1>3
  <2>2. /\ w \in Nat /\ fp + 1 <= w /\ Len(stack') \in Nat /\ w <= Len(stack')
        /\ (\A j \in 1 .. w : stack'[j] = stack[j])
        /\ \A n \in 1 .. m : Open[n].at <= w
    BY <1>1, <1>3, <1>4
  <2>3. Len(o) = m /\ ~(Len(o) = m + 1) /\ \A j \in 1 .. m : o[j] = Open[j]
    BY <1>4, <1>5
  <2>4. o = acts'[Depth].open /\ a2 = acts'[Depth]
    OBVIOUS
  <2> HIDE DEF m, o, w, a2
  <2> QED BY <1>4, <1>5, <1>8, <2>1, <2>2, <2>3, <2>4, Reopen
<1>10. OpOK'
  BY <1>1, <1>6, OpType DEF OpOK, Typed, Registers
<1>11. BindsOK'
  <2>1. \A d \in 2 .. Depth : acts'[d].saved = acts[d].saved
    BY <1>5, ActIs DEF Typed
  <2>2. ActsTyped /\ bindings' = bindings /\ (Len(bindings) > Act.bsp => control'.bind)
    BY <1>1 DEF Typed, BindsOK
  <2>3. ~(op'.in \in {"close", "unwind"})
    BY <1>6
  <2> QED BY <1>5, <2>1, <2>2, <2>3, BindsKept
<1> QED BY <1>7, <1>9, <1>10, <1>11

-----------------------------------------------------------------------------
(* The guest opens something. *)
LEMMA OpenOne ==
    ASSUME Typed, NEW x \in Items,
           acts' = [acts EXCEPT ![Depth].open = Append(acts[Depth].open, x)]
    PROVE  /\ ActsTyped' /\ Depth' = Depth
           /\ \A d \in 1 .. Depth - 1 : acts'[d] = acts[d]
           /\ acts'[Depth].saved = Act.saved
           /\ \A d \in 1 .. Depth : acts'[d].bsp = acts[d].bsp
           /\ Len(acts'[Depth].open) = Len(Open) + 1
           /\ \A j \in 1 .. Len(Open) : acts'[Depth].open[j] = Open[j]
           /\ acts'[Depth].open[Len(Open) + 1] = x
<1> DEFINE o == Append(acts[Depth].open, x)
<1>1. Open = acts[Depth].open /\ Open \in Seq(Items) /\ ActsTyped
  BY ActIs DEF Typed
<1>2. /\ o \in Seq(Items) /\ Len(o) = Len(Open) + 1 /\ o[Len(Open) + 1] = x
      /\ \A j \in 1 .. Len(Open) : o[j] = Open[j]
  <2> HIDE DEF Items
  <2> QED BY <1>1, AppendProperties
<1> HIDE DEF o
<1>3. acts' = [acts EXCEPT ![Depth].open = o]
  BY DEF o
<1> QED BY <1>1, <1>2, <1>3, OpensTo

(* The registers it does not concern are right after it. *)
LEMMA AlsoRight ==
    ASSUME Typed, FramesOK, NEW a, a.saved = Act.saved,
           \A j \in 1 .. Len(Open) : a.open[j] = Open[j]
    PROVE  LET n == Len(Open)
               k == a.open[n + 1].k
           IN /\ k # "start" => /\ ContinuationAt(Depth, a, n + 1, continuation)
                                /\ Kinds(a.open, n + 1, "start") = Kinds(Open, n, "start")
              /\ k # "catch" => /\ CatchAt(Depth, a, n + 1, CatchBlockPointer)
                                /\ Kinds(a.open, n + 1, "catch") = Kinds(Open, n, "catch")
              /\ k # "start" /\ k # "catch" => ControlAt(a, n + 1, control)
<1> DEFINE n == Len(Open)
           k == a.open[n + 1].k
<1>1. /\ Open = Act.open /\ n \in Nat
      /\ ContinuationAt(Depth, Act, n, continuation)
      /\ CatchAt(Depth, Act, n, CatchBlockPointer) /\ ControlAt(Act, n, control)
  BY Current, ActIs DEF Typed
<1>2. \A j \in 1 .. n : a.open[j] = Act.open[j] /\ a.open[j].k = Open[j].k
  BY <1>1
<1> HIDE DEF n
<1>3. /\ ContinuationAt(Depth, a, n, continuation)
      /\ CatchAt(Depth, a, n, CatchBlockPointer) /\ ControlAt(a, n, control)
  BY <1>1, <1>2, RightSame
<1>4. /\ n \in Nat /\ n + 1 \in Nat /\ n <= n + 1
      /\ \A j \in n + 1 .. n + 1 : a.open[j].k = k
  BY <1>1
<1> HIDE DEF k
<1>5. \A i : Kinds(a.open, n, i) = Kinds(Open, n, i)
  BY <1>2, KindsSame
<1>6. ASSUME k # "start"
      PROVE  /\ ContinuationAt(Depth, a, n + 1, continuation)
             /\ Kinds(a.open, n + 1, "start") = Kinds(Open, n, "start")
  <2>1. \A j \in n + 1 .. n + 1 : a.open[j].k # "start"
    BY <1>4, <1>6
  <2>2. Kinds(a.open, n + 1, "start") = Kinds(a.open, n, "start")
    BY <1>4, <2>1, KindsDrop
  <2>3. ContinuationAt(Depth, a, n + 1, continuation) <=> ContinuationAt(Depth, a, n, continuation)
    BY <2>2, ContinuationSame
  <2> QED BY <1>3, <1>5, <2>2, <2>3
<1>7. ASSUME k # "catch"
      PROVE  /\ CatchAt(Depth, a, n + 1, CatchBlockPointer)
             /\ Kinds(a.open, n + 1, "catch") = Kinds(Open, n, "catch")
  <2>1. \A j \in n + 1 .. n + 1 : a.open[j].k # "catch"
    BY <1>4, <1>7
  <2>2. Kinds(a.open, n + 1, "catch") = Kinds(a.open, n, "catch")
    BY <1>4, <2>1, KindsDrop
  <2>3. CatchAt(Depth, a, n + 1, CatchBlockPointer) <=> CatchAt(Depth, a, n, CatchBlockPointer)
    BY <2>2, CatchSame
  <2> QED BY <1>3, <1>5, <2>2, <2>3
<1>8. ASSUME k # "start", k # "catch" PROVE ControlAt(a, n + 1, control)
  <2>1. ControlAt(a, n + 1, control) <=> ControlAt(a, n, control)
    BY <1>5, <1>6, <1>7, <1>8, ControlSame
  <2> QED BY <1>3, <2>1
<1> QED BY <1>6, <1>7, <1>8 DEF n, k

(* Where the guest's idea of its bindings is right. *)
LEMMA IntactIs ==
    ASSUME Typed, Intact
    PROVE  /\ Len(bindings) \in Nat /\ Len(bindings) >= Act.bsp
           /\ Len(bindings) > Act.bsp <=> Bound # {}
<1>1. Act.bsp \in Nat /\ Len(Open) \in Nat /\ Len(bindings) \in Nat
  BY ActIs, LenProperties DEF Typed, BindingsTyped
<1>2. IsFiniteSet(1 .. Len(Open)) /\ Bound \subseteq 1 .. Len(Open)
  BY <1>1, FS_Interval DEF Bound
<1>3. IsFiniteSet(Bound)
  BY <1>2, FS_Subset
<1>4. Cardinality(Bound) \in Nat /\ (Cardinality(Bound) = 0 <=> Bound = {})
  BY <1>3, FS_CardinalityType, FS_EmptySet
<1> QED BY <1>1, <1>4 DEF Intact

(* A binding more. *)
LEMMA BindBindsOK ==
    ASSUME Typed, BindsOK, Intact, op'.in = "idle",
           NEW e \in Binding, e.bind = control.bind, bindings' = Append(bindings, e),
           control'.bind = TRUE, Depth' = Depth,
           \A d \in 1 .. Depth : acts'[d].bsp = acts[d].bsp,
           \A d \in 2 .. Depth : acts'[d].saved = acts[d].saved
    PROVE  BindsOK' /\ bindings' \in Seq(Binding)
<1> DEFINE n == Len(bindings)
           D == Depth
<1>1. /\ bindings' \in Seq(Binding) /\ Len(bindings') = n + 1 /\ bindings'[n + 1] = e
      /\ \A j \in 1 .. n : bindings'[j] = bindings[j]
  <2> HIDE DEF Binding
  <2> QED BY AppendProperties DEF Typed, BindingsTyped
<1>2. /\ n \in Nat /\ n >= Act.bsp /\ Act.bsp \in Nat /\ D \in Nat \ {0}
      /\ Act = acts[D] /\ D \in 1 .. D
  BY IntactIs, ActIs DEF Typed
<1>3. \A m \in 1 .. n + 1 : \A d \in 1 .. D : Own(d, m)' <=> Own(d, m)
  <2>1. \A d \in 1 .. D : \A j \in d + 1 .. D : j \in 1 .. D
    BY <1>2
  <2> QED BY <2>1 DEF Own
<1>4. ASSUME NEW m \in 1 .. n + 1, NEW d \in 1 .. D, Own(d, m), m > acts[d].bsp + 1
      PROVE  bindings'[m].bind
  <2>1. CASE m \in 1 .. n
    BY <1>1, <1>4, <2>1 DEF BindsOK
  <2>2. CASE m = n + 1
    <3>1. d = D
      <4> SUFFICES ASSUME d # D PROVE FALSE
        OBVIOUS
      <4>1. D \in d + 1 .. D
        BY <1>2
      <4>2. acts[D].bsp >= m
        BY <1>4, <4>1 DEF Own
      <4> QED BY <1>2, <2>2, <4>2
    <3>2. n > Act.bsp
      BY <1>2, <1>4, <2>2, <3>1
    <3> QED BY <1>1, <2>2, <3>2 DEF BindsOK
  <2> QED BY <1>2, <2>1, <2>2
<1>5. \A d \in 1 .. D - 1 : acts'[d + 1].bsp > acts'[d].bsp => acts'[d + 1].saved.control.bind
  <2>1. \A d \in 1 .. D - 1 : d \in 1 .. D /\ d + 1 \in 1 .. D /\ d + 1 \in 2 .. D
    BY <1>2
  <2> QED BY <2>1 DEF BindsOK
<1>6. \A m \in 1 .. Len(bindings') : \A d \in 1 .. D :
        Own(d, m)' /\ m > acts'[d].bsp + 1 => bindings'[m].bind
  BY <1>1, <1>3, <1>4
<1> QED BY <1>1, <1>5, <1>6 DEF BindsOK

(* The frame stays right when an item more is, and the registers are. *)
LEMMA OpenedFrames ==
    ASSUME Typed, FramesOK, Depth' = Depth,
           \A d \in 1 .. Depth - 1 : acts'[d] = acts[d], acts'[Depth].saved = Act.saved,
           Len(acts'[Depth].open) = Len(Open) + 1,
           \A j \in 1 .. Len(Open) : acts'[Depth].open[j] = Open[j],
           fp' = fp, lp' = lp, control'.args = control.args,
           control'.frame = control.frame, control'.disp = control.disp,
           Len(stack') \in Nat, Len(stack) <= Len(stack'),
           \A j \in 1 .. Len(stack) : stack'[j] = stack[j],
           ItemOK(stack', Depth, acts'[Depth], Now', Len(Open) + 1),
           RightAt(Depth, acts'[Depth], Now')
    PROVE  FramesOK'
<1> DEFINE m == Len(Open)
           w == Len(stack)
           o == acts'[Depth].open
<1>1. /\ fp + 1 <= w /\ w \in Nat /\ lp = fp + control.args /\ m \in Nat
      /\ \A n \in 1 .. m : Open[n].at <= w
  BY Current, ActIs DEF Typed
<1>2. /\ lp' = fp + control'.args /\ (m > 0 => control'.args = control.args)
      /\ Len(o) = m + 1 /\ o = acts'[Depth].open /\ m <= Len(Open)
      /\ \A j \in 1 .. m : o[j] = Open[j]
  BY <1>1
<1>3. /\ Len(stack') \in Nat /\ w <= Len(stack') /\ \A j \in 1 .. w : stack'[j] = stack[j]
  OBVIOUS
<1>4. Len(o) = m + 1 => ItemOK(stack', Depth, acts'[Depth], Now', m + 1)
  OBVIOUS
<1> HIDE DEF m, w, o
<1> QED BY <1>1, <1>2, <1>3, <1>4, Reopen

(* BIND-LOCATIVE-TO-VALUE. *)
LEMMA BindLocativeInv ==
    ASSUME Typed, FramesOK, OpOK, BindsOK, NEW x \in Locs, NEW value,
           value \in {cells[x], Len(bindings) + 1}, BindLocativeToValue(x, value)
    PROVE  Typed' /\ FramesOK' /\ OpOK' /\ BindsOK'
<1> DEFINE e == [loc |-> x, old |-> cells[x], bind |-> control.bind, new |-> value]
           i == [k |-> "bind", at |-> sp]
           n == Len(Open)
           a2 == acts'[Depth]
<1>1. /\ UNCHANGED <<stack, fp, lp, sp, continuation, CatchBlockPointer, pc, op>>
      /\ op = Idle /\ pc.i = "code" /\ Intact /\ sp = Base /\ Len(bindings) < MaxBindings
      /\ bindings' = Append(bindings, e) /\ cells' = [cells EXCEPT ![x] = value]
      /\ control' = [control EXCEPT !.bind = TRUE]
      /\ acts' = [acts EXCEPT ![Depth].open = Append(acts[Depth].open, i)]
  BY DEF BindLocativeToValue, Guest, Opening, Opened
<1>2. /\ control' \in Controls /\ control'.bind = TRUE /\ control'.catch = control.catch
      /\ control'.extra = control.extra /\ control'.args = control.args
      /\ control'.frame = control.frame /\ control'.disp = control.disp
      /\ control.bind \in BOOLEAN
  BY <1>1, WithBind DEF Typed, Registers, Controls
<1>3. /\ sp \in Nat /\ fp + 1 <= sp /\ sp <= Len(stack) /\ Len(stack) \in Nat
      /\ lp = fp + control.args /\ n \in Nat /\ \A j \in 1 .. n : Open[j].at <= sp
  BY <1>1, BaseIs, Current, ActIs DEF Typed, Registers
<1>4. i \in Items /\ i.k = "bind" /\ i.at = sp
  BY <1>3 DEF Items, Others
<1>5. e \in Binding /\ e.bind = control.bind
  <2>1. cells[x] \in 0 .. MaxBindings /\ value \in Nat
    BY IntactIs, <1>1 DEF Typed, BindingsTyped
  <2> QED BY <1>2, <2>1 DEF Binding
<1>6. /\ ActsTyped' /\ Depth' = Depth
      /\ \A d \in 1 .. Depth - 1 : acts'[d] = acts[d]
      /\ a2.saved = Act.saved
      /\ \A d \in 1 .. Depth : acts'[d].bsp = acts[d].bsp
      /\ Len(a2.open) = n + 1
      /\ \A j \in 1 .. n : a2.open[j] = Open[j]
      /\ a2.open[n + 1] = i
  <2> HIDE DEF i
  <2> QED BY <1>1, <1>4, OpenOne
<1>7. op'.in = "idle"
  BY <1>1 DEF Idle
<1>8. BindsOK' /\ bindings' \in Seq(Binding)
  <2>1. \A d \in 2 .. Depth : acts'[d].saved = acts[d].saved
    BY <1>6, ActIs DEF Typed
  <2> HIDE DEF e
  <2> QED BY <1>1, <1>2, <1>5, <1>6, <1>7, <2>1, BindBindsOK
<1>9. Typed'
  <2>1. cells' \in [Locs -> 0 .. MaxBindings]
    <3>1. Len(bindings) \in Nat /\ MaxBindings \in Nat
      BY <1>1, IntactIs, FramesAssumption DEF FramesAssumption
    <3>2. value \in 0 .. MaxBindings
      BY <1>1, <3>1 DEF Typed, BindingsTyped
    <3> QED BY <1>1, <3>2 DEF Typed, BindingsTyped
  <2>2. Registers' /\ StackTyped' /\ BindingsTyped'
    BY <1>1, <1>2, <1>8, <2>1 DEF Typed, Registers, StackTyped, BindingsTyped
  <2> QED BY <1>6, <2>2 DEF Typed
<1> HIDE DEF i, e, n, a2
<1>10. RightAt(Depth, a2, Now')
  <2>1. /\ ContinuationAt(Depth, a2, n + 1, continuation)
        /\ CatchAt(Depth, a2, n + 1, CatchBlockPointer)
        /\ ControlAt(a2, n + 1, control)
    <3>1. a2.open[n + 1].k = "bind"
      BY <1>4, <1>6
    <3> QED BY <1>6, <3>1, AlsoRight DEF n
  <2>2. ControlAt(a2, n + 1, control')
    BY <1>2, <2>1, ControlSame
  <2>3. /\ Now'.continuation = continuation /\ Now'.catch = CatchBlockPointer
        /\ Now'.control = control' /\ Now'.pc = pc'
    BY <1>1 DEF Now
  <2>4. Fits(a2.open, n + 1, Now'.fp, Now'.sp, pc')
    BY <1>1, CodeFits
  <2> QED BY <1>6, <2>1, <2>2, <2>3, <2>4 DEF RightAt
<1>11. ItemOK(stack', Depth, a2, Now', n + 1)
  <2>1. Now'.fp = fp /\ Now'.sp = Len(stack)
    BY <1>1 DEF Now
  <2>2. \A m \in 1 .. n + 1 - 1 : a2.open[m].at <= i.at
    BY <1>3, <1>4, <1>6
  <2> QED BY <1>3, <1>4, <1>6, <2>1, <2>2 DEF ItemOK
<1>12. FramesOK'
  <2>1. stack' = stack /\ Len(stack') \in Nat /\ Len(stack) <= Len(stack')
        /\ \A j \in 1 .. Len(stack) : stack'[j] = stack[j]
    BY <1>1, <1>3
  <2> QED BY <1>1, <1>2, <1>6, <1>10, <1>11, <2>1, OpenedFrames DEF a2, n
<1>13. OpOK'
  BY <1>1, <1>7, OpType DEF OpOK, Typed, Registers
<1> QED BY <1>8, <1>9, <1>12, <1>13

(* START-CALL. *)
LEMMA StartCallInv ==
    ASSUME Typed, FramesOK, OpOK, BindsOK, NEW extra \in BOOLEAN, StartCall(extra)
    PROVE  Typed' /\ FramesOK' /\ OpOK' /\ BindsOK'
<1> DEFINE A == <<PC(continuation), Control(control)>>
           B == IF extra THEN <<Value(1)>> ELSE <<>>
           t == A \o B
           i == [k |-> "start", at |-> sp', sp |-> sp,
                 continuation |-> continuation, control |-> control]
           n == Len(Open)
           a2 == acts'[Depth]
<1>1. /\ UNCHANGED <<fp, lp, CatchBlockPointer, bindings, cells, pc, op>>
      /\ op = Idle /\ pc.i = "code" /\ Intact /\ sp = Base /\ Room(3)
      /\ stack' = (stack \o A) \o B /\ sp' = Len(stack')
      /\ control' = [control EXCEPT !.started = TRUE, !.extra = extra]
      /\ continuation' = Code(Depth + 1)
      /\ acts' = [acts EXCEPT ![Depth].open = Append(acts[Depth].open, i)]
  BY DEF StartCall, Guest, Opening, Opened
<1>2. /\ control' \in Controls /\ control'.bind = control.bind
      /\ control'.catch = control.catch /\ control'.extra = extra
      /\ control'.args = control.args /\ control'.frame = control.frame
      /\ control'.disp = control.disp /\ control \in Controls
  BY <1>1 DEF Typed, Registers, Controls
<1>3. /\ sp \in Nat /\ fp + 1 <= sp /\ sp = Len(stack) /\ Len(stack) \in Nat /\ fp \in Nat
      /\ lp = fp + control.args /\ n \in Nat /\ \A j \in 1 .. n : Open[j].at <= sp
      /\ Depth \in Nat /\ Open = Act.open /\ continuation \in PCs
  BY <1>1, BaseIs, Current, ActIs, OpType DEF Typed, Registers, OpOK
<1>4. /\ A \in Seq(Words) /\ Len(A) = 2 /\ A[1] = PC(continuation) /\ A[2] = Control(control)
      /\ B \in Seq(Words) /\ Len(B) = IF extra THEN 1 ELSE 0
  <2>1. PC(continuation) \in Words /\ Control(control) \in Words /\ Value(1) \in Words
    BY <1>2, <1>3 DEF PC, Control, Value, Words, PCWords, Saves, Plain
  <2> HIDE DEF Words
  <2>2. /\ A \in Seq(Words) /\ Len(A) = 2
        /\ A[1] = PC(continuation) /\ A[2] = Control(control)
    BY <2>1, Two
  <2>3. CASE extra
    BY <2>1, <2>2, <2>3
  <2>4. CASE ~extra
    BY <2>2, <2>4, EmptySeq
  <2> QED BY <2>3, <2>4
<1> HIDE DEF A, B
<1>5. /\ t \in Seq(Words) /\ Len(t) = 2 + (IF extra THEN 1 ELSE 0)
      /\ t[1] = PC(continuation) /\ t[2] = Control(control) /\ stack' = stack \o t
  <2>1. /\ t \in Seq(Words) /\ Len(t) = Len(A) + Len(B) /\ \A j \in 1 .. Len(A) : t[j] = A[j]
    BY <1>4, Joined
  <2>2. (stack \o A) \o B = stack \o t
    BY <1>4, ConcatAssociative DEF Typed, StackTyped
  <2>3. 1 \in 1 .. Len(A) /\ 2 \in 1 .. Len(A)
    BY <1>4
  <2> HIDE DEF t
  <2> QED BY <1>1, <1>4, <2>1, <2>2, <2>3
<1> HIDE DEF t
<1>6. /\ StackTyped' /\ Len(stack') = sp + Len(t)
      /\ \A j \in 1 .. Len(stack) : stack'[j] = stack[j]
      /\ \A j \in 1 .. Len(t) : stack'[sp + j] = t[j]
  <2>1. Room(Len(t))
    BY <1>1, <1>3, <1>5, FramesAssumption DEF Room, FramesAssumption
  <2> QED BY <1>3, <1>5, <2>1, Pushes
<1>7. /\ (sp' = sp + 2 \/ sp' = sp + 3) /\ (extra <=> sp' = sp + 3) /\ sp' \in Nat
      /\ stack'[sp + 1] = PC(continuation) /\ stack'[sp + 2] = Control(control)
  <2>1. 1 \in 1 .. Len(t) /\ 2 \in 1 .. Len(t) /\ Len(t) = 2 + (IF extra THEN 1 ELSE 0)
    BY <1>5
  <2>2. stack'[sp + 1] = PC(continuation) /\ stack'[sp + 2] = Control(control)
    BY <1>5, <1>6, <2>1
  <2> QED BY <1>1, <1>3, <1>6, <2>1, <2>2
<1>8. /\ i \in Starts /\ i \in Items /\ i.k = "start" /\ i.at = sp' /\ i.sp = sp
      /\ i.continuation = continuation /\ i.control = control
  BY <1>2, <1>3, <1>7 DEF Items, Starts
<1> HIDE DEF i
<1>9. /\ ActsTyped' /\ Depth' = Depth
      /\ \A d \in 1 .. Depth - 1 : acts'[d] = acts[d]
      /\ a2.saved = Act.saved
      /\ \A d \in 1 .. Depth : acts'[d].bsp = acts[d].bsp
      /\ Len(a2.open) = n + 1
      /\ \A j \in 1 .. n : a2.open[j] = Open[j]
      /\ a2.open[n + 1] = i
  BY <1>1, <1>8, OpenOne
<1>10. op'.in = "idle" /\ continuation' \in PCs
  <2>1. Depth + 1 \in Nat
    BY <1>3
  <2>2. Code(Depth + 1) \in PCs
    BY <2>1, CodeIs
  <2>3. op'.in = "idle"
    BY <1>1 DEF Idle
  <2> QED BY <1>1, <2>2, <2>3
<1>11. BindsOK'
  <2>1. \A d \in 2 .. Depth : acts'[d].saved = acts[d].saved
    BY <1>9, ActIs DEF Typed
  <2>2. ActsTyped /\ bindings' = bindings /\ (Len(bindings) > Act.bsp => control'.bind)
    BY <1>1, <1>2 DEF Typed, BindsOK
  <2>3. ~(op'.in \in {"close", "unwind"})
    BY <1>10
  <2> QED BY <1>9, <2>1, <2>2, <2>3, BindsKept
<1>12. Typed'
  <2>1. Registers' /\ BindingsTyped'
    BY <1>1, <1>2, <1>7, <1>10 DEF Typed, Registers, BindingsTyped
  <2> QED BY <1>6, <1>9, <2>1 DEF Typed
<1> HIDE DEF n, a2
<1>13. /\ ContinuationAt(Depth, a2, n, continuation) /\ ControlAt(a2, n, control)
       /\ CatchAt(Depth, a2, n + 1, CatchBlockPointer)
       /\ Kinds(a2.open, n + 1, "catch") = Kinds(Open, n, "catch")
       /\ \A k : Kinds(a2.open, n, k) = Kinds(Open, n, k)
  <2>1. a2.open[n + 1].k # "catch"
    BY <1>8, <1>9
  <2>2. /\ CatchAt(Depth, a2, n + 1, CatchBlockPointer)
        /\ Kinds(a2.open, n + 1, "catch") = Kinds(Open, n, "catch")
    BY <1>9, <2>1, AlsoRight DEF n
  <2>3. \A j \in 1 .. n : a2.open[j] = Act.open[j] /\ a2.open[j].k = Open[j].k
    BY <1>3, <1>9
  <2>4. ContinuationAt(Depth, Act, n, continuation) /\ ControlAt(Act, n, control)
    BY Current DEF n
  <2>5. ContinuationAt(Depth, a2, n, continuation) /\ ControlAt(a2, n, control)
    BY <1>9, <2>3, <2>4, RightSame
  <2> QED BY <2>2, <2>3, <2>5, KindsSame
<1>14. RightAt(Depth, a2, Now')
  <2>1. /\ Last(a2.open, n + 1, "start") = {n + 1} /\ Kinds(a2.open, n + 1, "start") # {}
    <3>1. n + 1 \in Nat /\ n + 1 > 0 /\ a2.open[n + 1].k = "start"
      BY <1>3, <1>8, <1>9
    <3> QED BY <3>1, LastOfAll
  <2>2. ContinuationAt(Depth, a2, n + 1, continuation')
    BY <1>1, <2>1 DEF ContinuationAt
  <2>3. control.catch <=> Kinds(Open, n, "catch") # {}
    BY <1>3, Current DEF ControlAt, n
  <2>4. ControlAt(a2, n + 1, control')
    BY <1>2, <1>7, <1>8, <1>9, <1>13, <2>1, <2>3 DEF ControlAt
  <2>5. /\ Now'.continuation = continuation' /\ Now'.catch = CatchBlockPointer
        /\ Now'.control = control' /\ Now'.pc = pc'
    BY <1>1 DEF Now
  <2>6. Fits(a2.open, n + 1, Now'.fp, Now'.sp, pc')
    BY <1>1, CodeFits
  <2> QED BY <1>9, <1>13, <2>2, <2>4, <2>5, <2>6 DEF RightAt
<1>15. ItemOK(stack', Depth, a2, Now', n + 1)
  <2>1. Now'.fp = fp /\ Now'.sp = sp' /\ Now'.control = control'
    BY <1>1 DEF Now
  <2> DEFINE N == n + 1
  <2>2. N - 1 = n /\ \A m \in 1 .. n : a2.open[m].at <= i.sp
    <3>1. n \in Nat /\ i.sp = sp /\ \A m \in 1 .. n : Open[m].at <= sp
      BY <1>3, <1>8
    <3>2. \A m \in 1 .. n : a2.open[m] = Open[m]
      BY <1>9
    <3>3. N - 1 = n
      BY <3>1
    <3>4. \A m \in 1 .. n : a2.open[m].at <= i.sp
      BY <3>1, <3>2, Zenon
    <3> QED BY <3>3, <3>4
  <2>3. \A m \in 1 .. n : a2.open[m].at <= i.at
    <3>1. \A m \in 1 .. n : Open[m].at \in Nat
      BY Current DEF n
    <3>2. sp <= i.at /\ i.at \in Nat
      BY <1>3, <1>7, <1>8
    <3>3. \A m \in 1 .. n : a2.open[m].at \in Nat /\ a2.open[m].at <= sp
      BY <1>3, <1>9, <3>1
    <3> QED BY <1>3, <3>2, <3>3
  <2>7. a2.open[N] = i
    BY <1>9
  <2>4. Kinds(a2.open, n, "bind") # {} => control.bind
    <3> SUFFICES ASSUME Kinds(a2.open, n, "bind") # {} PROVE control.bind
      OBVIOUS
    <3>1. Bound # {}
      BY <1>13 DEF Bound, Kinds, n
    <3> QED BY <1>1, <3>1, IntactIs DEF BindsOK
  <2> HIDE DEF N
  <2>8. i.sp >= fp + 1 /\ (i.at = i.sp + 2 \/ i.at = i.sp + 3)
    BY <1>3, <1>7, <1>8
  <2>5. StartOK(stack', Depth, a2, Now', N)
    BY <1>2, <1>7, <1>8, <1>13, <2>1, <2>2, <2>4, <2>7, <2>8, Zenon DEF StartOK
  <2>6. i.at >= fp + 1 /\ i.at <= sp'
    BY <1>3, <1>7, <1>8
  <2>9. ItemOK(stack', Depth, a2, Now', N)
    BY <1>8, <2>1, <2>2, <2>3, <2>5, <2>6, <2>7 DEF ItemOK
  <2> QED BY <2>9 DEF N
<1>16. FramesOK'
  <2>1. Len(stack') \in Nat /\ Len(stack) <= Len(stack')
    BY <1>1, <1>3, <1>7
  <2> QED BY <1>1, <1>2, <1>6, <1>9, <1>14, <1>15, <2>1, OpenedFrames DEF a2, n
<1>17. OpOK'
  BY <1>1, <1>10, OpType DEF OpOK, Typed, Registers
<1> QED BY <1>11, <1>12, <1>16, <1>17

(* CATCH-OPEN. *)
LEMMA CatchOpenInv ==
    ASSUME Typed, FramesOK, OpOK, BindsOK, NEW uwp \in BOOLEAN, CatchOpen(uwp)
    PROVE  Typed' /\ FramesOK' /\ OpOK' /\ BindsOK'
<1> DEFINE mark == [t |-> "bsp", n |-> Len(bindings), uwp |-> uwp]
           link == [t |-> "previous", p |-> CatchBlockPointer,
                    extra |-> control.extra, catch |-> control.catch]
           A == <<PC(pc), mark, link>>
           B == IF uwp THEN <<>> ELSE <<PC(continuation)>>
           t == A \o B
           i == [k |-> "catch", at |-> sp', block |-> sp + 1, uwp |-> uwp]
           n == Len(Open)
           a2 == acts'[Depth]
<1>1. /\ UNCHANGED <<fp, lp, continuation, bindings, cells, pc, op>>
      /\ op = Idle /\ pc.i = "code" /\ Intact /\ sp = Base /\ Room(4)
      /\ stack' = (stack \o A) \o B /\ sp' = Len(stack')
      /\ control' = [control EXCEPT !.catch = TRUE]
      /\ CatchBlockPointer' = sp + 1
      /\ acts' = [acts EXCEPT ![Depth].open = Append(acts[Depth].open, i)]
  BY DEF CatchOpen, Guest, Opening, Opened
<1>2. /\ control' \in Controls /\ control'.bind = control.bind
      /\ control'.catch = TRUE /\ control'.extra = control.extra
      /\ control'.args = control.args /\ control'.frame = control.frame
      /\ control'.disp = control.disp
      /\ control.extra \in BOOLEAN /\ control.catch \in BOOLEAN
  BY <1>1 DEF Typed, Registers, Controls
<1>3. /\ sp \in Nat /\ fp + 1 <= sp /\ sp = Len(stack) /\ Len(stack) \in Nat /\ fp \in Nat
      /\ lp = fp + control.args /\ n \in Nat /\ \A j \in 1 .. n : Open[j].at <= sp
      /\ Open = Act.open /\ continuation \in PCs /\ pc \in PCs /\ CatchBlockPointer \in Nat
      /\ Len(bindings) \in Nat
  BY <1>1, BaseIs, Current, ActIs, OpType, IntactIs DEF Typed, Registers, OpOK
<1>4. /\ PC(pc) \in PCWords /\ PC(pc).pc = pc /\ mark \in Marks /\ mark.uwp = uwp
      /\ link \in Links /\ link.p = CatchBlockPointer
      /\ link.extra = control.extra /\ link.catch = control.catch
      /\ PC(continuation) \in PCWords
  BY <1>2, <1>3 DEF PC, PCWords, Marks, Links
<1> HIDE DEF mark, link
<1>5. /\ A \in Seq(Words) /\ Len(A) = 3 /\ A[1] = PC(pc) /\ A[2] = mark /\ A[3] = link
      /\ B \in Seq(Words) /\ Len(B) = IF uwp THEN 0 ELSE 1
  <2>1. PC(pc) \in Words /\ mark \in Words /\ link \in Words /\ PC(continuation) \in Words
    BY <1>4 DEF Words
  <2> HIDE DEF Words
  <2>2. A \in Seq(Words) /\ Len(A) = 3 /\ A[1] = PC(pc) /\ A[2] = mark /\ A[3] = link
    BY <2>1, Three
  <2>3. CASE uwp
    BY <2>2, <2>3, EmptySeq
  <2>4. CASE ~uwp
    BY <2>1, <2>2, <2>4
  <2> QED BY <2>3, <2>4
<1> HIDE DEF A, B
<1>6. /\ t \in Seq(Words) /\ Len(t) = 3 + (IF uwp THEN 0 ELSE 1)
      /\ t[1] = PC(pc) /\ t[2] = mark /\ t[3] = link /\ stack' = stack \o t
  <2>1. /\ t \in Seq(Words) /\ Len(t) = Len(A) + Len(B) /\ \A j \in 1 .. Len(A) : t[j] = A[j]
    BY <1>5, Joined
  <2>2. (stack \o A) \o B = stack \o t
    BY <1>5, ConcatAssociative DEF Typed, StackTyped
  <2>3. 1 \in 1 .. Len(A) /\ 2 \in 1 .. Len(A) /\ 3 \in 1 .. Len(A)
    BY <1>5
  <2> HIDE DEF t
  <2> QED BY <1>1, <1>5, <2>1, <2>2, <2>3
<1> HIDE DEF t
<1>7. /\ StackTyped' /\ Len(stack') = sp + Len(t)
      /\ \A j \in 1 .. Len(stack) : stack'[j] = stack[j]
      /\ \A j \in 1 .. Len(t) : stack'[sp + j] = t[j]
  <2>1. Room(Len(t))
    BY <1>1, <1>3, <1>6, FramesAssumption DEF Room, FramesAssumption
  <2> QED BY <1>3, <1>6, <2>1, Pushes
<1>8. /\ sp + 3 <= sp' /\ sp' \in Nat
      /\ stack'[sp + 1] = PC(pc) /\ stack'[sp + 2] = mark /\ stack'[sp + 3] = link
  <2>1. 1 \in 1 .. Len(t) /\ 2 \in 1 .. Len(t) /\ 3 \in 1 .. Len(t)
        /\ Len(t) = 3 + (IF uwp THEN 0 ELSE 1)
    BY <1>6
  <2>2. stack'[sp + 1] = PC(pc) /\ stack'[sp + 2] = mark /\ stack'[sp + 3] = link
    BY <1>6, <1>7, <2>1
  <2> QED BY <1>1, <1>3, <1>7, <2>1, <2>2
<1>9. /\ i \in Blocks /\ i \in Items /\ i.k = "catch" /\ i.at = sp' /\ i.block = sp + 1
      /\ i.uwp = uwp
  BY <1>3, <1>8 DEF Items, Blocks
<1> HIDE DEF i
<1>10. /\ ActsTyped' /\ Depth' = Depth
       /\ \A d \in 1 .. Depth - 1 : acts'[d] = acts[d]
       /\ a2.saved = Act.saved
       /\ \A d \in 1 .. Depth : acts'[d].bsp = acts[d].bsp
       /\ Len(a2.open) = n + 1
       /\ \A j \in 1 .. n : a2.open[j] = Open[j]
       /\ a2.open[n + 1] = i
  BY <1>1, <1>9, OpenOne
<1>11. op'.in = "idle" /\ CatchBlockPointer' \in Nat
  BY <1>1, <1>3 DEF Idle
<1>12. BindsOK'
  <2>1. \A d \in 2 .. Depth : acts'[d].saved = acts[d].saved
    BY <1>10, ActIs DEF Typed
  <2>2. ActsTyped /\ bindings' = bindings /\ (Len(bindings) > Act.bsp => control'.bind)
    BY <1>1, <1>2 DEF Typed, BindsOK
  <2>3. ~(op'.in \in {"close", "unwind"})
    BY <1>11
  <2> QED BY <1>10, <2>1, <2>2, <2>3, BindsKept
<1>13. Typed'
  <2>1. Registers' /\ BindingsTyped'
    BY <1>1, <1>2, <1>8, <1>11 DEF Typed, Registers, BindingsTyped
  <2> QED BY <1>7, <1>10, <2>1 DEF Typed
<1> HIDE DEF n, a2
<1>14. /\ CatchAt(Depth, a2, n, CatchBlockPointer) /\ ControlAt(a2, n, control)
       /\ ContinuationAt(Depth, a2, n + 1, continuation)
       /\ Kinds(a2.open, n + 1, "start") = Kinds(Open, n, "start")
       /\ \A k : Kinds(a2.open, n, k) = Kinds(Open, n, k)
  <2>1. a2.open[n + 1].k # "start"
    BY <1>9, <1>10
  <2>2. /\ ContinuationAt(Depth, a2, n + 1, continuation)
        /\ Kinds(a2.open, n + 1, "start") = Kinds(Open, n, "start")
    BY <1>10, <2>1, AlsoRight DEF n
  <2>3. \A j \in 1 .. n : a2.open[j] = Act.open[j] /\ a2.open[j].k = Open[j].k
    BY <1>3, <1>10
  <2>4. CatchAt(Depth, Act, n, CatchBlockPointer) /\ ControlAt(Act, n, control)
    BY Current DEF n
  <2>5. CatchAt(Depth, a2, n, CatchBlockPointer) /\ ControlAt(a2, n, control)
    BY <1>10, <2>3, <2>4, RightSame
  <2> QED BY <2>2, <2>3, <2>5, KindsSame
<1>15. RightAt(Depth, a2, Now')
  <2>1. /\ Last(a2.open, n + 1, "catch") = {n + 1} /\ Kinds(a2.open, n + 1, "catch") # {}
    <3>1. n + 1 \in Nat /\ n + 1 > 0 /\ a2.open[n + 1].k = "catch"
      BY <1>3, <1>9, <1>10
    <3> QED BY <3>1, LastOfAll
  <2>2. CatchAt(Depth, a2, n + 1, CatchBlockPointer')
    BY <1>1, <1>9, <1>10, <2>1 DEF CatchAt
  <2>3. ControlAt(a2, n + 1, control')
    <3>1. Kinds(a2.open, n + 1, "start") = Kinds(a2.open, n, "start")
      BY <1>14
    <3>2. Last(a2.open, n + 1, "start") = Last(a2.open, n, "start")
      BY <3>1 DEF Last
    <3> QED BY <1>2, <1>14, <2>1, <3>1, <3>2 DEF ControlAt
  <2>4. /\ Now'.continuation = continuation /\ Now'.catch = CatchBlockPointer'
        /\ Now'.control = control' /\ Now'.pc = pc'
    BY <1>1 DEF Now
  <2>5. Fits(a2.open, n + 1, Now'.fp, Now'.sp, pc')
    BY <1>1, CodeFits
  <2> QED BY <1>10, <1>14, <2>2, <2>3, <2>4, <2>5 DEF RightAt
<1>16. ItemOK(stack', Depth, a2, Now', n + 1)
  <2> DEFINE N == n + 1
             b == i.block
  <2>1. Now'.fp = fp /\ Now'.sp = sp' /\ Now'.control = control'
    BY <1>1 DEF Now
  <2>2. /\ N - 1 = n /\ a2.open[N] = i /\ b = sp + 1 /\ b + 1 = sp + 2 /\ b + 2 = sp + 3
    BY <1>3, <1>9, <1>10
  <2>3. \A m \in 1 .. n : a2.open[m].at <= i.at /\ a2.open[m].at < b
    <3>1. \A m \in 1 .. n : Open[m].at \in Nat
      BY Current DEF n
    <3>2. sp <= i.at /\ i.at \in Nat
      BY <1>3, <1>8, <1>9
    <3>3. \A m \in 1 .. n : a2.open[m].at \in Nat /\ a2.open[m].at <= sp
      BY <1>3, <1>10, <3>1
    <3> QED BY <1>3, <1>9, <3>2, <3>3
  <2>4. b > fp + 1 /\ b + 2 <= i.at /\ i.at >= fp + 1 /\ i.at <= sp'
    BY <1>3, <1>8, <1>9
  <2>5. ControlAt(a2, n, link)
    BY <1>4, <1>14, ControlSame
  <2>6. /\ stack'[b] \in PCWords /\ stack'[b].pc.i = "code"
        /\ stack'[b + 1] \in Marks /\ stack'[b + 1].uwp = i.uwp /\ stack'[b + 2] \in Links
        /\ CatchAt(Depth, a2, n, stack'[b + 2].p) /\ ControlAt(a2, n, stack'[b + 2])
    BY <1>1, <1>4, <1>8, <1>9, <1>14, <2>2, <2>5
  <2> HIDE DEF N, b
  <2>7. CatchOK(stack', Depth, a2, Now', N)
    BY <1>9, <2>1, <2>2, <2>3, <2>4, <2>6, Zenon DEF CatchOK, b
  <2>8. ItemOK(stack', Depth, a2, Now', N)
    BY <1>9, <2>1, <2>2, <2>3, <2>4, <2>7 DEF ItemOK
  <2> QED BY <2>8 DEF N
<1>17. FramesOK'
  <2>1. Len(stack') \in Nat /\ Len(stack) <= Len(stack')
    BY <1>1, <1>3, <1>8
  <2> QED BY <1>1, <1>2, <1>7, <1>10, <1>15, <1>16, <2>1, OpenedFrames DEF a2, n
<1>18. OpOK'
  BY <1>1, <1>11, OpType DEF OpOK, Typed, Registers
<1> QED BY <1>12, <1>13, <1>17, <1>18

(* %JUMP out of cleanup code. *)
LEMMA JumpInv ==
    ASSUME Typed, FramesOK, OpOK, BindsOK, Jump
    PROVE  Typed' /\ FramesOK' /\ OpOK' /\ BindsOK'
<1> DEFINE n == Len(Open)
           m == n - 1
           a2 == acts'[Depth]
           w == sp - 1
           u == stack[sp]
<1>1. /\ UNCHANGED <<fp, lp, continuation, CatchBlockPointer, bindings, cells, op>>
      /\ op = Idle /\ sp = Base /\ Innermost.k = "cleanup"
      /\ pc' = u.pc /\ control' = [control EXCEPT !.inProgress = u.inProgress]
      /\ stack' = SubSeq(stack, 1, w) /\ sp' = w
      /\ acts' = [acts EXCEPT ![Depth].open = SubSeq(acts[Depth].open, 1, m)]
  BY DEF Jump, Guest, Closed
<1>2. /\ n \in Nat /\ n > 0 /\ sp = Open[n].at /\ Open[n].k = "cleanup" /\ n \in 1 .. n
      /\ Open = Act.open /\ Len(stack) \in Nat /\ sp <= Len(stack) /\ fp \in Nat
      /\ lp = fp + control.args /\ sp \in Nat /\ Now.fp = fp
  BY <1>1, BaseIs, Current, ActIs DEF Typed
<1>3. CleanupOK(stack, Act, Now, n)
  <2>1. ItemOK(stack, Depth, Act, Now, n)
    BY <1>2, Current DEF ItemsOK
  <2> QED BY <1>2, <2>1 DEF ItemOK
<1>4. /\ sp > fp + 1 /\ u \in Resumes /\ u.pc.i \in {"code", "return"}
      /\ \A j \in 1 .. n - 1 : Open[j].at < sp
      /\ Fits(Open, n - 1, fp, sp - 1, u.pc)
  BY <1>2, <1>3 DEF CleanupOK
<1>5. /\ m \in Nat /\ m <= n /\ w \in Nat /\ w <= Len(stack) /\ fp + 1 <= w
      /\ \A j \in m + 1 .. n : Open[j].k = "cleanup"
  <2>1. m \in Nat /\ m <= n /\ \A j \in m + 1 .. n : j = n
    BY <1>2
  <2>2. sp \in Nat /\ fp \in Nat /\ Len(stack) \in Nat /\ sp <= Len(stack) /\ sp > fp + 1
    BY <1>2, <1>4
  <2>3. w \in Nat /\ w <= Len(stack) /\ fp + 1 <= w
    <3> HIDE DEF u
    <3> QED BY <2>2
  <2> QED BY <1>2, <2>1, <2>3
<1>6. \A j \in 1 .. m : Open[j].at <= w
  <2>1. \A j \in 1 .. m : Open[j].at \in Nat
    BY <1>2, Current
  <2>2. \A j \in 1 .. m : Open[j].at < sp
    BY <1>4
  <2>3. sp \in Nat
    BY <1>2
  <2> QED BY <2>1, <2>2, <2>3, SMTT(30)
<1>7. u.pc \in PCs /\ u.inProgress \in BOOLEAN
  BY <1>4 DEF Resumes
<1> HIDE DEF u
<1>8. /\ control' \in Controls /\ control'.bind = control.bind
      /\ control'.catch = control.catch /\ control'.extra = control.extra
      /\ control'.args = control.args /\ control'.frame = control.frame
      /\ control'.disp = control.disp
  BY <1>1, <1>7 DEF Typed, Registers, Controls
<1> HIDE DEF n, m, a2, w
<1>9. /\ stack' \in Seq(Words) /\ Len(stack') = w
      /\ \A j \in 1 .. w : stack'[j] = stack[j]
  BY <1>1, <1>5, Cut DEF Typed, StackTyped
<1>10. /\ ActsTyped' /\ Depth' = Depth
       /\ \A d \in 1 .. Depth - 1 : acts'[d] = acts[d]
       /\ a2.saved = Act.saved /\ Len(a2.open) = m
       /\ \A d \in 1 .. Depth : acts'[d].bsp = acts[d].bsp
       /\ \A j \in 1 .. m : a2.open[j] = Open[j]
  BY <1>1, <1>5, ClosesTo DEF a2, n
<1>11. Typed'
  <2>1. StackTyped'
    BY <1>2, <1>5, <1>9, FramesAssumption DEF Typed, StackTyped, FramesAssumption
  <2>2. Registers' /\ BindingsTyped'
    BY <1>1, <1>5, <1>7, <1>8 DEF Typed, Registers, BindingsTyped
  <2> QED BY <1>10, <2>1, <2>2 DEF Typed
<1>12. RightAt(Depth, a2, Now')
  <2>1. /\ ContinuationAt(Depth, a2, m, continuation)
        /\ CatchAt(Depth, a2, m, CatchBlockPointer) /\ ControlAt(a2, m, control)
    <3>1. \A j \in m + 1 .. Len(Open) : Open[j].k # "start" /\ Open[j].k # "catch"
      BY <1>5 DEF n
    <3>2. m <= Len(Open)
      BY <1>5 DEF n
    <3> QED BY <1>5, <1>10, <3>1, <3>2, StillRight
  <2>2. ControlAt(a2, m, control')
    BY <1>8, <2>1, ControlSame
  <2>3. /\ Now'.continuation = continuation /\ Now'.catch = CatchBlockPointer
        /\ Now'.control = control' /\ Now'.pc = pc' /\ Now'.fp = fp /\ Now'.sp = w
    BY <1>1, <1>9 DEF Now
  <2>4. Fits(a2.open, m, fp, w, pc')
    <3> DEFINE p == pc'
    <3>1. p \in PCs /\ Fits(Open, m, fp, w, p)
      BY <1>1, <1>4, <1>7 DEF m, w
    <3> HIDE DEF p
    <3>2. (p.i = "return" => p.n \in Int) /\ (p.i = "unbind" => p.n \in Nat)
      BY <3>1, PCType
    <3>3. \A j \in 1 .. m : a2.open[j].k = Open[j].k
      BY <1>10
    <3>4. w \in Int /\ w >= w /\ fp \in Int
      BY <1>2, <1>5
    <3>5. Fits(a2.open, m, fp, w, p)
      BY <1>5, <3>1, <3>2, <3>3, <3>4, FitsSame
    <3> QED BY <3>5 DEF p
  <2> QED BY <1>10, <2>1, <2>2, <2>3, <2>4 DEF RightAt
<1>13. FramesOK'
  <2> DEFINE o == a2.open
  <2>1. fp' = fp /\ lp' = fp + control'.args
    BY <1>1, <1>2, <1>8
  <2>2. Len(stack') \in Nat /\ w <= Len(stack') /\ m <= Len(Open)
    BY <1>5, <1>9 DEF n
  <2>3. Len(o) = m /\ ~(Len(o) = m + 1) /\ \A j \in 1 .. m : o[j] = Open[j]
    BY <1>5, <1>10
  <2>4. o = acts'[Depth].open /\ a2 = acts'[Depth]
    BY DEF a2
  <2> HIDE DEF o
  <2> QED BY <1>5, <1>6, <1>8, <1>9, <1>10, <1>12, <2>1, <2>2, <2>3, <2>4, Reopen
<1>14. OpOK'
  BY <1>1, <1>9, OpType DEF OpOK, Typed, Registers
<1>15. BindsOK'
  <2>1. \A d \in 2 .. Depth : acts'[d].saved = acts[d].saved
    BY <1>10, ActIs DEF Typed, a2
  <2>2. ActsTyped /\ bindings' = bindings /\ (Len(bindings) > Act.bsp => control'.bind)
    BY <1>1, <1>8 DEF Typed, BindsOK
  <2>3. ~(op'.in \in {"close", "unwind"})
    BY <1>1 DEF Idle
  <2> QED BY <1>10, <2>1, <2>2, <2>3, BindsKept
<1> QED BY <1>11, <1>13, <1>14, <1>15

-----------------------------------------------------------------------------
(* What is kept for the end of CATCH-CLOSE and HandleUnwindProtect. *)
LEMMA OpControl ==
    ASSUME Typed, OpOK, op.in \in {"close", "unwind"}
    PROVE  /\ op.control \in Controls /\ op.control.args = control.args
           /\ op.control.frame = control.frame /\ op.control.disp = control.disp
<1> DEFINE c == op.control
<1>1. c \in Controls /\ control \in Controls
  BY OpType DEF Typed, Registers, Closes
<1>2. [c EXCEPT !.bind = control.bind] = control
  BY DEF OpOK
<1> HIDE DEF c
<1>3. c.args = control.args /\ c.frame = control.frame /\ c.disp = control.disp
  <2> DEFINE e == [c EXCEPT !.bind = control.bind]
  <2>1. e.args = c.args /\ e.frame = c.frame /\ e.disp = c.disp
    BY <1>1 DEF Controls
  <2> QED BY <1>2, <2>1
<1> QED BY <1>1, <1>3 DEF c

(* The innermost catch block is taken away, and t opened instead. *)
LEMMA CloseCatchIs ==
    ASSUME Typed, FramesOK, Kinds(Open, Len(Open), "catch") # {},
           NEW t \in Seq(Items), CloseCatch(t)
    PROVE  LET q == InnermostCatch(Act) - 1
               o == acts'[Depth].open
           IN /\ ActsTyped' /\ Depth' = Depth
              /\ \A d \in 1 .. Depth - 1 : acts'[d] = acts[d]
              /\ acts'[Depth].saved = Act.saved
              /\ \A d \in 1 .. Depth : acts'[d].bsp = acts[d].bsp
              /\ q \in Nat /\ q + 1 <= Len(Open) /\ Len(o) = q + Len(t) /\ Len(t) \in Nat
              /\ \A j \in 1 .. q : o[j] = Open[j]
              /\ \A j \in 1 .. Len(t) : o[q + j] = t[j]
<1> DEFINE q == InnermostCatch(Act) - 1
           s == SubSeq(Open, 1, q)
           o == s \o t
<1>1. Open \in Seq(Items) /\ Len(Open) \in Nat /\ ActsTyped
  BY ActIs DEF Typed
<1>2. q \in Nat /\ q + 1 <= Len(Open)
  <2> DEFINE m == InnermostCatch(Act)
  <2>1. m \in 1 .. Len(Open)
    <3> HIDE DEF m
    <3> QED BY BlockIs DEF m
  <2> HIDE DEF m
  <2>2. m - 1 \in Nat /\ m - 1 + 1 <= Len(Open)
    BY <1>1, <2>1
  <2> QED BY <2>2 DEF m
<1>3. acts' = [acts EXCEPT ![Depth].open = o]
  BY DEF CloseCatch
<1> HIDE DEF q
<1>4. s \in Seq(Items) /\ Len(s) = q /\ \A j \in 1 .. q : s[j] = Open[j]
  <2>1. q <= Len(Open)
    BY <1>1, <1>2
  <2> QED BY <1>1, <1>2, <2>1, Cut
<1> HIDE DEF s
<1>5. /\ o \in Seq(Items) /\ Len(o) = q + Len(t) /\ Len(t) \in Nat
      /\ \A j \in 1 .. q : o[j] = Open[j]
      /\ \A j \in 1 .. Len(t) : o[q + j] = t[j]
  <2>1. /\ o \in Seq(Items) /\ Len(o) = Len(s) + Len(t) /\ Len(t) \in Nat
        /\ \A j \in 1 .. Len(s) : o[j] = s[j]
        /\ \A j \in 1 .. Len(t) : o[Len(s) + j] = t[j]
    <3> HIDE DEF Items
    <3>1. s \in Seq(Items) /\ t \in Seq(Items)
      BY <1>4
    <3> QED BY <3>1, Joined
  <2> HIDE DEF o
  <2>2. \A j \in 1 .. q : o[j] = Open[j]
    BY <1>4, <2>1
  <2> QED BY <1>4, <2>1, <2>2
<1> HIDE DEF o
<1>6. /\ ActsTyped' /\ Depth' = Depth
      /\ \A d \in 1 .. Depth - 1 : acts'[d] = acts[d]
      /\ acts'[Depth].open = o /\ acts'[Depth].saved = Act.saved
      /\ \A d \in 1 .. Depth : acts'[d].bsp = acts[d].bsp
  BY <1>1, <1>3, <1>5, OpensTo
<1> QED BY <1>2, <1>5, <1>6 DEF q

(* The registers it kept are those of the items before it. *)
LEMMA UncatchRight ==
    ASSUME Typed, FramesOK, Kinds(Open, Len(Open), "catch") # {},
           \A j \in InnermostCatch(Act) .. Len(Open) : Open[j].k # "start",
           NEW a, a.saved = Act.saved,
           \A j \in 1 .. InnermostCatch(Act) - 1 : a.open[j] = Open[j]
    PROVE  LET q == InnermostCatch(Act) - 1
           IN /\ ContinuationAt(Depth, a, q, continuation)
              /\ CatchAt(Depth, a, q, Block.previous.p)
              /\ \A c : c.extra = Block.previous.extra /\ c.catch = Block.previous.catch =>
                          ControlAt(a, q, c)
<1> DEFINE q == InnermostCatch(Act) - 1
           n == Len(Open)
           b == Block.previous
<1>1. /\ q \in Nat /\ q <= n /\ n \in Nat
      /\ CatchAt(Depth, Act, q, b.p) /\ ControlAt(Act, q, b)
      /\ Open = Act.open /\ ContinuationAt(Depth, Act, n, continuation)
  <2> DEFINE m == InnermostCatch(Act)
  <2>1. /\ m \in 1 .. Len(Open) /\ CatchAt(Depth, Act, m - 1, b.p)
        /\ ControlAt(Act, m - 1, b)
    <3> HIDE DEF m, b
    <3> QED BY BlockIs DEF m, b
  <2>2. Len(Open) \in Nat /\ Open = Act.open
    BY ActIs DEF Typed
  <2>3. ContinuationAt(Depth, Act, Len(Open), continuation)
    BY Current
  <2> HIDE DEF m, b
  <2>4. m - 1 \in Nat /\ m - 1 <= Len(Open)
    BY <2>1, <2>2
  <2> QED BY <2>1, <2>2, <2>3, <2>4 DEF m
<1>2. \A j \in q + 1 .. n : Act.open[j].k # "start"
  <2> DEFINE m == InnermostCatch(Act)
  <2>1. m \in Nat /\ q + 1 = m
    <3> HIDE DEF m
    <3>1. m \in 1 .. Len(Open)
      BY BlockIs DEF m
    <3>2. m \in Nat /\ m - 1 + 1 = m
      BY <3>1
    <3> QED BY <3>2 DEF m
  <2> QED BY <1>1, <2>1
<1>3. \A j \in 1 .. q : a.open[j] = Act.open[j]
  BY <1>1
<1> HIDE DEF q, n, b
<1>4. ContinuationAt(Depth, Act, q, continuation)
  <2>1. Kinds(Act.open, n, "start") = Kinds(Act.open, q, "start")
    BY <1>1, <1>2, KindsDrop
  <2> QED BY <1>1, <2>1, ContinuationSame
<1>5. ContinuationAt(Depth, a, q, continuation) /\ CatchAt(Depth, a, q, b.p) /\ ControlAt(a, q, b)
  BY <1>1, <1>3, <1>4, RightSame
<1>6. ASSUME NEW c, c.extra = b.extra, c.catch = b.catch PROVE ControlAt(a, q, c)
  BY <1>5, <1>6, ControlSame
<1> QED BY <1>5, <1>6 DEF q, b

(* The cleanup code of an unwind-protect is entered, to come back to p. *)
LEMMA EnterCleanupInv ==
    ASSUME Typed, FramesOK, OpOK, BindsOK, op.in \in {"close", "unwind"},
           NEW p \in PCs, p.i = "code" \/ (p = pc /\ pc.i = "return"),
           Kinds(Open, Len(Open), "catch") # {},
           \A j \in InnermostCatch(Act) .. Len(Open) : Open[j].k # "start",
           CatchBlockPointer' = Block.previous.p, Room(1), op' = Idle,
           EnterCleanup(Uncaught(op.control), p),
           CloseCatch(<<[k |-> "cleanup", at |-> sp']>>),
           UNCHANGED <<fp, lp, continuation, bindings, cells>>
    PROVE  Typed' /\ FramesOK' /\ OpOK' /\ BindsOK'
<1> DEFINE c == op.control
           e == Uncaught(c)
           u == [t |-> "pc", pc |-> p, inProgress |-> e.inProgress]
           i == [k |-> "cleanup", at |-> sp']
           b == Block
           q == InnermostCatch(Act) - 1
           a2 == acts'[Depth]
           w == Len(stack)
<1>1. /\ stack' = Append(stack, u) /\ sp' = Len(stack) + 1 /\ pc' = b.handler
      /\ control' = [e EXCEPT !.inProgress = TRUE]
      /\ e = [c EXCEPT !.extra = b.previous.extra, !.catch = b.previous.catch]
  BY DEF EnterCleanup, Uncaught
<1>2. /\ c \in Controls /\ c.args = control.args /\ c.frame = control.frame
      /\ c.disp = control.disp
  BY OpControl
<1>3. /\ b.handler \in PCs /\ b.handler.i = "code" /\ b.previous \in Links
  <2> HIDE DEF b
  <2> QED BY BlockIs DEF b
<1>4. b.previous.p \in Nat /\ b.previous.extra \in BOOLEAN /\ b.previous.catch \in BOOLEAN
  <2> HIDE DEF b
  <2> QED BY <1>3 DEF Links
<1> HIDE DEF c, b
<1>5. /\ control' \in Controls /\ control'.bind = c.bind
      /\ control'.catch = b.previous.catch /\ control'.extra = b.previous.extra
      /\ control'.args = control.args /\ control'.frame = control.frame
      /\ control'.disp = control.disp /\ e.inProgress \in BOOLEAN
  <2> HIDE DEF e
  <2>1. /\ e \in Controls /\ e.bind = c.bind /\ e.catch = b.previous.catch
        /\ e.extra = b.previous.extra /\ e.args = c.args /\ e.frame = c.frame
        /\ e.disp = c.disp
    BY <1>1, <1>2, <1>4 DEF Controls
  <2> QED BY <1>1, <1>2, <2>1 DEF Controls
<1> HIDE DEF e
<1>6. u \in Resumes /\ u.pc = p /\ u \in Words
  BY <1>5 DEF Resumes, Words
<1> HIDE DEF u
<1>7. /\ w \in Nat /\ fp + 1 <= w /\ fp \in Nat /\ lp = fp + control.args
      /\ Len(Open) \in Nat /\ Fits(Open, Len(Open), fp, w, pc) /\ Open = Act.open
      /\ \A j \in 1 .. Len(Open) : Open[j].at \in Nat /\ Open[j].at <= w
  BY Current, ActIs DEF Typed
<1>8. /\ StackTyped' /\ Len(stack') = w + 1 /\ sp' = w + 1 /\ stack'[w + 1] = u
      /\ \A j \in 1 .. w : stack'[j] = stack[j]
  <2>1. /\ stack' \in Seq(Words) /\ Len(stack') = w + 1 /\ stack'[w + 1] = u
        /\ \A j \in 1 .. w : stack'[j] = stack[j]
    <3> HIDE DEF Words
    <3> QED BY <1>1, <1>6, AppendProperties DEF Typed, StackTyped
  <2>2. w + 1 <= MaxWords
    BY DEF Room
  <2> QED BY <1>1, <2>1, <2>2 DEF StackTyped
<1>9. i \in Items /\ i.k = "cleanup" /\ i.at = w + 1
  BY <1>7, <1>8 DEF Items, Others
<1> HIDE DEF i
<1>10. /\ ActsTyped' /\ Depth' = Depth
       /\ \A d \in 1 .. Depth - 1 : acts'[d] = acts[d]
       /\ a2.saved = Act.saved
       /\ \A d \in 1 .. Depth : acts'[d].bsp = acts[d].bsp
       /\ q \in Nat /\ q <= Len(Open) /\ Len(a2.open) = q + 1
       /\ \A j \in 1 .. q : a2.open[j] = Open[j]
       /\ a2.open[q + 1] = i
  <2> DEFINE t == <<i>>
  <2>1. t \in Seq(Items) /\ Len(t) = 1 /\ t[1] = i /\ CloseCatch(t)
    BY <1>9 DEF i
  <2> HIDE DEF t, q, a2
  <2>2. /\ ActsTyped' /\ Depth' = Depth
        /\ \A d \in 1 .. Depth - 1 : acts'[d] = acts[d]
        /\ a2.saved = Act.saved
        /\ \A d \in 1 .. Depth : acts'[d].bsp = acts[d].bsp
        /\ q \in Nat /\ q + 1 <= Len(Open) /\ Len(a2.open) = q + Len(t)
        /\ \A j \in 1 .. q : a2.open[j] = Open[j]
        /\ \A j \in 1 .. Len(t) : a2.open[q + j] = t[j]
    BY <2>1, CloseCatchIs DEF q, a2
  <2>3. 1 \in 1 .. Len(t)
    BY <2>1
  <2>4. a2.open[q + 1] = i
    BY <2>1, <2>2, <2>3
  <2> QED BY <1>7, <2>1, <2>2, <2>4
<1>11. /\ ContinuationAt(Depth, a2, q, continuation)
       /\ CatchAt(Depth, a2, q, CatchBlockPointer')
       /\ ControlAt(a2, q, control')
  <2> HIDE DEF q, a2
  <2>1. /\ ContinuationAt(Depth, a2, q, continuation)
        /\ CatchAt(Depth, a2, q, Block.previous.p)
        /\ \A f : f.extra = Block.previous.extra /\ f.catch = Block.previous.catch =>
                    ControlAt(a2, q, f)
    BY <1>10, UncatchRight DEF q
  <2> QED BY <1>5, <2>1 DEF b
<1> HIDE DEF q, a2, w
<1>12. /\ ContinuationAt(Depth, a2, q + 1, continuation)
       /\ CatchAt(Depth, a2, q + 1, CatchBlockPointer')
       /\ ControlAt(a2, q + 1, control')
  <2>1. \A j \in q + 1 .. q + 1 : a2.open[j].k # "start" /\ a2.open[j].k # "catch"
    BY <1>9, <1>10
  <2>2. /\ Kinds(a2.open, q + 1, "start") = Kinds(a2.open, q, "start")
        /\ Kinds(a2.open, q + 1, "catch") = Kinds(a2.open, q, "catch")
    <3>1. q \in Nat /\ q + 1 \in Nat /\ q <= q + 1
      BY <1>10
    <3> QED BY <2>1, <3>1, KindsDrop
  <2> QED BY <1>11, <2>2, ContinuationSame, CatchSame, ControlSame
<1>13. op'.in = "idle" /\ pc' \in PCs /\ pc'.i = "code" /\ CatchBlockPointer' \in Nat
  BY <1>1, <1>3, <1>4 DEF Idle, b
<1>14. Typed'
  <2>1. Registers' /\ BindingsTyped'
    BY <1>5, <1>7, <1>8, <1>13 DEF Typed, Registers, BindingsTyped
  <2> QED BY <1>8, <1>10, <2>1 DEF Typed
<1>15. RightAt(Depth, a2, Now')
  <2>1. /\ Now'.continuation = continuation /\ Now'.catch = CatchBlockPointer'
        /\ Now'.control = control' /\ Now'.pc = pc'
    BY DEF Now
  <2>2. Fits(a2.open, q + 1, Now'.fp, Now'.sp, pc')
    BY <1>13, CodeFits
  <2> QED BY <1>10, <1>12, <2>1, <2>2 DEF RightAt
<1>16. ItemOK(stack', Depth, a2, Now', q + 1)
  <2> DEFINE N == q + 1
  <2>1. Now'.fp = fp /\ Now'.sp = w + 1
    BY <1>8 DEF Now
  <2>2. N - 1 = q /\ a2.open[N] = i
    BY <1>10
  <2>3. \A m \in 1 .. q : a2.open[m].at < i.at /\ a2.open[m].at <= i.at
    <3> TAKE m \in 1 .. q
    <3>1. m \in 1 .. Len(Open) /\ a2.open[m] = Open[m]
      BY <1>7, <1>10
    <3>2. Open[m].at \in Nat /\ Open[m].at <= w /\ w \in Nat /\ i.at = w + 1
      BY <1>7, <1>9, <3>1
    <3> QED BY <3>1, <3>2
  <2>4. i.at > fp + 1 /\ i.at >= fp + 1 /\ i.at <= w + 1 /\ i.at - 1 = w
    BY <1>7, <1>9
  <2>5. Fits(a2.open, q, fp, w, p)
    <3>1. CASE p.i = "code"
      BY <3>1, CodeFits
    <3>2. CASE p = pc /\ pc.i = "return"
      <4>1. Kinds(Open, Len(Open), "start") = {} /\ w - pc.n >= fp + 1
        BY <1>7, <3>2 DEF Fits
      <4>2. Kinds(a2.open, q, "start") = {}
        <5>1. \A m \in 1 .. q : a2.open[m].k = Open[m].k /\ m \in 1 .. Len(Open)
          BY <1>7, <1>10
        <5> QED BY <4>1, <5>1 DEF Kinds
      <4> QED BY <3>2, <4>1, <4>2 DEF Fits
    <3> QED BY <3>1, <3>2
  <2>6. stack'[i.at] \in Resumes /\ stack'[i.at].pc = p /\ p.i \in {"code", "return"}
    BY <1>6, <1>8, <1>9
  <2> HIDE DEF N
  <2>7. CleanupOK(stack', a2, Now', N)
    BY <2>1, <2>2, <2>3, <2>4, <2>5, <2>6, Zenon DEF CleanupOK
  <2>8. ItemOK(stack', Depth, a2, Now', N)
    BY <1>9, <2>1, <2>2, <2>3, <2>4, <2>7 DEF ItemOK
  <2> QED BY <2>8 DEF N
<1>17. FramesOK'
  <2> DEFINE o == a2.open
  <2>1. /\ fp' = fp /\ lp' = fp + control'.args /\ (q > 0 => control'.args = control.args)
    BY <1>5, <1>7
  <2>2. Len(stack') \in Nat /\ w <= Len(stack') /\ \A n \in 1 .. q : Open[n].at <= w
    <3>1. \A n \in 1 .. q : n \in 1 .. Len(Open)
      BY <1>7, <1>10
    <3> QED BY <1>7, <1>8, <3>1
  <2>3. Len(o) = q + 1 /\ \A j \in 1 .. q : o[j] = Open[j]
    BY <1>10
  <2>4. o = acts'[Depth].open /\ a2 = acts'[Depth]
    BY DEF a2
  <2>5. Len(o) = q + 1 => ItemOK(stack', Depth, acts'[Depth], Now', q + 1)
    BY <1>16 DEF a2
  <2>6. acts'[Depth].saved = Act.saved /\ RightAt(Depth, acts'[Depth], Now')
    BY <1>10, <1>15 DEF a2
  <2> HIDE DEF o
  <2>7. Depth' = Depth /\ q \in Nat /\ q <= Len(Open) /\ \A d \in 1 .. Depth - 1 : acts'[d] = acts[d]
    BY <1>10
  <2>8. /\ control'.frame = control.frame /\ control'.disp = control.disp
        /\ w \in Nat /\ fp + 1 <= w /\ \A j \in 1 .. w : stack'[j] = stack[j]
    BY <1>5, <1>7, <1>8
  <2> QED BY <2>1, <2>2, <2>3, <2>4, <2>5, <2>6, <2>7, <2>8, Reopen
<1>18. OpOK'
  BY <1>8, <1>13 DEF OpOK
<1>19. BindsOK'
  <2>1. \A d \in 2 .. Depth : acts'[d].saved = acts[d].saved
    BY <1>10, ActIs DEF Typed, a2
  <2>2. ActsTyped /\ bindings' = bindings /\ (Len(bindings) > Act.bsp => control'.bind)
    BY <1>5 DEF Typed, BindsOK, c
  <2>3. ~(op'.in \in {"close", "unwind"})
    BY <1>13
  <2> QED BY <1>10, <2>1, <2>2, <2>3, BindsKept
<1> QED BY <1>14, <1>17, <1>18, <1>19

(* CATCH-CLOSE is done. *)
LEMMA CatchCloseEndInv ==
    ASSUME Typed, FramesOK, OpOK, BindsOK, CatchCloseEnd
    PROVE  Typed' /\ FramesOK' /\ OpOK' /\ BindsOK'
<1> DEFINE c == op.control
           e == Uncaught(c)
           b == Block
           q == InnermostCatch(Act) - 1
           a2 == acts'[Depth]
           w == Len(stack)
<1>1. /\ op.in = "close" /\ CatchBlockPointer' = b.previous.p /\ op' = Idle
      /\ UNCHANGED <<fp, lp, continuation, bindings, cells>>
  BY DEF CatchCloseEnd
<1>2. /\ pc.i = "close" /\ pc.d \in Nat /\ Code(pc.d) \in PCs /\ Code(pc.d).i = "code"
  BY <1>1, PCType, CodeIs DEF OpOK, Typed, Registers
<1>3. /\ w \in Nat /\ fp + 1 <= w /\ lp = fp + control.args /\ sp = w
      /\ Len(Open) \in Nat /\ Fits(Open, Len(Open), fp, w, pc)
      /\ \A j \in 1 .. Len(Open) : Open[j].at <= w
  BY <1>1, Current, ActIs DEF Typed, OpOK
<1>4. PICK m \in 1 .. Len(Open) : /\ Open[m].k = "catch"
                                  /\ \A j \in m + 1 .. Len(Open) : Open[j].k = "bind"
  BY <1>2, <1>3 DEF Fits
<1>5. Kinds(Open, Len(Open), "catch") # {}
  BY <1>4 DEF Kinds
<1>6. \A j \in InnermostCatch(Act) .. Len(Open) : Open[j].k # "start"
  <2> DEFINE i == InnermostCatch(Act)
  <2> HIDE DEF i
  <2>1. i \in 1 .. Len(Open) /\ Open[i].k = "catch" /\ \A j \in i + 1 .. Len(Open) : Open[j].k # "catch"
    BY <1>5, BlockIs DEF i
  <2>2. m <= i
    BY <1>3, <1>4, <2>1
  <2>3. ASSUME NEW j \in i .. Len(Open) PROVE Open[j].k # "start"
    <3>1. j = i \/ j \in m + 1 .. Len(Open)
      BY <1>3, <2>1, <2>2
    <3> QED BY <1>4, <2>1, <3>1
  <2> QED BY <2>3 DEF i
<1>7. CASE b.uwp
  <2>1. /\ Room(1) /\ EnterCleanup(Uncaught(op.control), Code(pc.d))
        /\ CloseCatch(<<[k |-> "cleanup", at |-> sp']>>)
    BY <1>7 DEF CatchCloseEnd
  <2> QED BY <1>1, <1>2, <1>5, <1>6, <2>1, EnterCleanupInv
<1>8. CASE ~b.uwp
  <2>1. /\ control' = e /\ pc' = Code(pc.d) /\ CloseCatch(<<>>) /\ stack' = stack /\ sp' = sp
        /\ e = [c EXCEPT !.extra = b.previous.extra, !.catch = b.previous.catch]
    BY <1>8 DEF CatchCloseEnd, Uncaught
  <2>2. /\ c \in Controls /\ c.args = control.args /\ c.frame = control.frame
        /\ c.disp = control.disp
    BY <1>1, OpControl
  <2>3. b.previous \in Links
    <3> HIDE DEF b
    <3> QED BY <1>5, BlockIs DEF b
  <2>4. b.previous.p \in Nat /\ b.previous.extra \in BOOLEAN /\ b.previous.catch \in BOOLEAN
    <3> HIDE DEF b
    <3> QED BY <2>3 DEF Links
  <2> HIDE DEF c, b, e
  <2>5. /\ control' \in Controls /\ control'.bind = c.bind
        /\ control'.catch = b.previous.catch /\ control'.extra = b.previous.extra
        /\ control'.args = control.args /\ control'.frame = control.frame
        /\ control'.disp = control.disp
    BY <2>1, <2>2, <2>4 DEF Controls
  <2> HIDE DEF q, a2, w
  <2>6. /\ ActsTyped' /\ Depth' = Depth
        /\ \A d \in 1 .. Depth - 1 : acts'[d] = acts[d]
        /\ a2.saved = Act.saved
        /\ \A d \in 1 .. Depth : acts'[d].bsp = acts[d].bsp
        /\ q \in Nat /\ q <= Len(Open) /\ Len(a2.open) = q
        /\ \A j \in 1 .. q : a2.open[j] = Open[j]
    <3> DEFINE t == <<>>
    <3>1. t \in Seq(Items) /\ Len(t) = 0 /\ CloseCatch(t)
      BY <2>1, EmptySeq
    <3> HIDE DEF t
    <3>2. /\ ActsTyped' /\ Depth' = Depth
          /\ \A d \in 1 .. Depth - 1 : acts'[d] = acts[d]
          /\ a2.saved = Act.saved
          /\ \A d \in 1 .. Depth : acts'[d].bsp = acts[d].bsp
          /\ q \in Nat /\ q + 1 <= Len(Open) /\ Len(a2.open) = q + Len(t)
          /\ \A j \in 1 .. q : a2.open[j] = Open[j]
      BY <1>5, <3>1, CloseCatchIs DEF q, a2
    <3>3. q <= Len(Open) /\ q + Len(t) = q
      BY <1>3, <3>1, <3>2
    <3> QED BY <3>2, <3>3
  <2>7. /\ ContinuationAt(Depth, a2, q, continuation)
        /\ CatchAt(Depth, a2, q, CatchBlockPointer')
        /\ ControlAt(a2, q, control')
    <3>1. /\ ContinuationAt(Depth, a2, q, continuation)
          /\ CatchAt(Depth, a2, q, Block.previous.p)
          /\ \A f : f.extra = Block.previous.extra /\ f.catch = Block.previous.catch =>
                      ControlAt(a2, q, f)
      BY <1>5, <1>6, <2>6, UncatchRight DEF q
    <3> QED BY <1>1, <2>5, <3>1 DEF b
  <2>8. op'.in = "idle" /\ CatchBlockPointer' \in Nat
    BY <1>1, <2>4 DEF Idle, b
  <2>9. Typed'
    <3>1. Registers' /\ BindingsTyped' /\ StackTyped'
      BY <1>1, <1>2, <2>1, <2>5, <2>8 DEF Typed, Registers, BindingsTyped, StackTyped
    <3> QED BY <2>6, <3>1 DEF Typed
  <2>10. RightAt(Depth, a2, Now')
    <3>1. /\ Now'.continuation = continuation /\ Now'.catch = CatchBlockPointer'
          /\ Now'.control = control' /\ Now'.pc = pc'
      BY <1>1 DEF Now
    <3>2. Fits(a2.open, q, Now'.fp, Now'.sp, pc')
      BY <1>2, <2>1, CodeFits
    <3> QED BY <2>6, <2>7, <3>1, <3>2 DEF RightAt
  <2>11. FramesOK'
    <3> DEFINE o == a2.open
    <3>1. /\ fp' = fp /\ lp' = fp + control'.args /\ control'.args = control.args
          /\ control'.frame = control.frame /\ control'.disp = control.disp
      BY <1>1, <1>3, <2>5
    <3>2. /\ w \in Nat /\ fp + 1 <= w /\ Len(stack') \in Nat /\ w <= Len(stack')
          /\ (\A j \in 1 .. w : stack'[j] = stack[j])
          /\ \A n \in 1 .. q : Open[n].at <= w
      <4>1. \A n \in 1 .. q : n \in 1 .. Len(Open)
        BY <1>3, <2>6
      <4> QED BY <1>3, <2>1, <4>1 DEF w
    <3>3. Len(o) = q /\ ~(Len(o) = q + 1) /\ \A j \in 1 .. q : o[j] = Open[j]
      BY <2>6
    <3>4. o = acts'[Depth].open /\ a2 = acts'[Depth]
      BY DEF a2
    <3>5. /\ Depth' = Depth /\ q \in Nat /\ q <= Len(Open)
          /\ \A d \in 1 .. Depth - 1 : acts'[d] = acts[d]
      BY <2>6
    <3>6. acts'[Depth].saved = Act.saved /\ RightAt(Depth, acts'[Depth], Now')
      BY <2>6, <2>10 DEF a2
    <3> HIDE DEF o
    <3> QED BY <3>1, <3>2, <3>3, <3>4, <3>5, <3>6, Reopen
  <2>12. OpOK'
    BY <1>3, <2>1, <2>8 DEF OpOK, w
  <2>13. BindsOK'
    <3>1. \A d \in 2 .. Depth : acts'[d].saved = acts[d].saved
      BY <2>6, ActIs DEF Typed, a2
    <3>2. ActsTyped /\ bindings' = bindings /\ (Len(bindings) > Act.bsp => control'.bind)
      BY <1>1, <2>5 DEF Typed, BindsOK, c
    <3>3. ~(op'.in \in {"close", "unwind"})
      BY <2>8
    <3> QED BY <2>6, <3>1, <3>2, <3>3, BindsKept
  <2> QED BY <2>9, <2>11, <2>12, <2>13
<1> QED BY <1>7, <1>8

(* A return's unwind-protect. *)
LEMMA HandleUnwindProtectInv ==
    ASSUME Typed, FramesOK, OpOK, BindsOK, HandleUnwindProtect
    PROVE  Typed' /\ FramesOK' /\ OpOK' /\ BindsOK'
<1>1. /\ op.in = "unwind" /\ CatchBlockPointer' = Block.previous.p /\ op' = Idle /\ Room(1)
      /\ UNCHANGED <<fp, lp, continuation, bindings, cells>>
      /\ EnterCleanup(Uncaught(op.control), pc)
      /\ CloseCatch(<<[k |-> "cleanup", at |-> sp']>>)
  BY DEF HandleUnwindProtect
<1>2. pc.i = "return" /\ control.catch /\ pc \in PCs
  BY <1>1 DEF OpOK, Typed, Registers
<1>3. /\ ControlAt(Act, Len(Open), control) /\ Open = Act.open /\ Len(Open) \in Nat
      /\ Fits(Open, Len(Open), fp, Len(stack), pc)
  BY Current, ActIs DEF Typed
<1>4. Kinds(Open, Len(Open), "catch") # {} /\ Kinds(Open, Len(Open), "start") = {}
  BY <1>2, <1>3 DEF ControlAt, Fits
<1>5. \A j \in InnermostCatch(Act) .. Len(Open) : Open[j].k # "start"
  <2> DEFINE i == InnermostCatch(Act)
  <2> HIDE DEF i
  <2>1. i \in 1 .. Len(Open)
    BY <1>4, BlockIs DEF i
  <2>2. \A j \in i .. Len(Open) : j \in 1 .. Len(Open)
    BY <1>3, <2>1
  <2> QED BY <1>4, <2>2 DEF Kinds, i
<1> QED BY <1>1, <1>2, <1>4, <1>5, EnterCleanupInv

(* The items above the innermost catch block stay when it is taken away. *)
LEMMA WithoutCatch ==
    ASSUME Typed, FramesOK, Kinds(Open, Len(Open), "catch") # {},
           CloseCatch(SubSeq(Open, InnermostCatch(Act) + 1, Len(Open)))
    PROVE  LET q == InnermostCatch(Act) - 1
               n == Len(Open)
               o == acts'[Depth].open
           IN /\ ActsTyped' /\ Depth' = Depth
              /\ \A d \in 1 .. Depth - 1 : acts'[d] = acts[d]
              /\ acts'[Depth].saved = Act.saved
              /\ \A d \in 1 .. Depth : acts'[d].bsp = acts[d].bsp
              /\ q \in Nat /\ q + 1 <= n /\ n \in Nat /\ Len(o) = n - 1
              /\ \A j \in 1 .. q : o[j] = Open[j]
              /\ \A j \in q + 1 .. n - 1 : o[j] = Open[j + 1] /\ Open[j + 1].k # "catch"
<1> DEFINE c == InnermostCatch(Act)
           q == c - 1
           n == Len(Open)
           t == SubSeq(Open, c + 1, n)
           o == acts'[Depth].open
<1>1. c \in 1 .. n /\ \A j \in c + 1 .. n : Open[j].k # "catch"
  <2> HIDE DEF c
  <2> QED BY BlockIs DEF c
<1>2. n \in Nat /\ Open \in Seq(Items)
  BY ActIs DEF Typed
<1>3. t \in Seq(Items) /\ Len(t) = n - c /\ \A j \in 1 .. n - c : t[j] = Open[c + j]
  <2> HIDE DEF c, Items
  <2>1. c \in Nat /\ c <= Len(Open)
    BY <1>1, <1>2
  <2> QED BY <1>2, <2>1, Cut
<1>4. /\ ActsTyped' /\ Depth' = Depth
      /\ \A d \in 1 .. Depth - 1 : acts'[d] = acts[d]
      /\ acts'[Depth].saved = Act.saved
      /\ \A d \in 1 .. Depth : acts'[d].bsp = acts[d].bsp
      /\ q \in Nat /\ q + 1 <= n /\ Len(o) = q + Len(t)
      /\ \A j \in 1 .. q : o[j] = Open[j]
      /\ \A j \in 1 .. Len(t) : o[q + j] = t[j]
  <2>1. CloseCatch(t)
    OBVIOUS
  <2> HIDE DEF t, c, Items
  <2> QED BY <1>3, <2>1, CloseCatchIs DEF c
<1> HIDE DEF c, n, t, o
<1>5. Len(o) = n - 1
  BY <1>1, <1>2, <1>3, <1>4
<1>6. \A j \in q + 1 .. n - 1 : o[j] = Open[j + 1] /\ Open[j + 1].k # "catch"
  <2> TAKE j \in q + 1 .. n - 1
  <2> DEFINE i == j - q
  <2>1. c \in Nat /\ q \in Nat /\ n \in Nat /\ j \in Nat
    BY <1>1, <1>2, <1>4
  <2>2. i \in 1 .. n - c /\ q + i = j /\ c + i = j + 1 /\ j + 1 \in c + 1 .. n
    BY <2>1
  <2> HIDE DEF i, q
  <2>3. o[q + i] = t[i] /\ t[i] = Open[c + i]
    BY <1>3, <1>4, <2>2
  <2> QED BY <1>1, <2>2, <2>3
<1> QED BY <1>2, <1>4, <1>5, <1>6 DEF c, n, o

(* A return takes a catch block away. *)
LEMMA ReturnUncatchInv ==
    ASSUME Typed, FramesOK, OpOK, BindsOK, ReturnUncatch
    PROVE  Typed' /\ FramesOK' /\ OpOK' /\ BindsOK'
<1> DEFINE b == Block
           q == InnermostCatch(Act) - 1
           n == Len(Open)
           a2 == acts'[Depth]
           o == a2.open
           w == Len(stack)
<1>1. /\ op.in = "return" /\ control.catch
      /\ control' = [control EXCEPT !.extra = b.previous.extra, !.catch = b.previous.catch]
      /\ CatchBlockPointer' = b.previous.p
      /\ CloseCatch(SubSeq(Open, InnermostCatch(Act) + 1, Len(Open)))
      /\ op' = [op EXCEPT !.hop = FALSE]
      /\ UNCHANGED <<stack, fp, lp, sp, continuation, bindings, cells, pc>>
  BY DEF ReturnUncatch, Uncaught
<1>2. /\ w \in Nat /\ fp + 1 <= w /\ lp = fp + control.args /\ fp \in Nat /\ n \in Nat
      /\ Open = Act.open /\ ControlAt(Act, n, control) /\ Fits(Open, n, fp, w, pc)
      /\ pc.i = "return" /\ ItemsOK(stack, Depth, Act, Now)
      /\ Now.fp = fp /\ Now.control = control
  BY <1>1, Current, ActIs DEF Typed, OpOK
<1>3. /\ Kinds(Open, n, "start") = {} /\ Kinds(Open, n, "catch") # {}
      /\ w - pc.n >= fp + 1
  BY <1>1, <1>2 DEF Fits, ControlAt
<1>4. /\ ActsTyped' /\ Depth' = Depth
      /\ \A d \in 1 .. Depth - 1 : acts'[d] = acts[d]
      /\ a2.saved = Act.saved
      /\ \A d \in 1 .. Depth : acts'[d].bsp = acts[d].bsp
      /\ q \in Nat /\ q + 1 <= n /\ Len(o) = n - 1
      /\ \A j \in 1 .. q : o[j] = Open[j]
      /\ \A j \in q + 1 .. n - 1 : o[j] = Open[j + 1] /\ Open[j + 1].k # "catch"
  BY <1>1, <1>3, WithoutCatch
<1>5. \A j \in 1 .. n : Open[j].k # "start"
  BY <1>3 DEF Kinds
<1>6. b.previous \in Links
  <2> HIDE DEF b
  <2> QED BY <1>3, BlockIs DEF b, n
<1>7. b.previous.p \in Nat /\ b.previous.extra \in BOOLEAN /\ b.previous.catch \in BOOLEAN
  <2> HIDE DEF b
  <2> QED BY <1>6 DEF Links
<1> HIDE DEF b
<1>8. /\ control' \in Controls /\ control'.bind = control.bind
      /\ control'.catch = b.previous.catch /\ control'.extra = b.previous.extra
      /\ control'.args = control.args /\ control'.frame = control.frame
      /\ control'.disp = control.disp
  BY <1>1, <1>7 DEF Typed, Registers, Controls
<1>9. op' \in Returns /\ op'.in = "return"
  <2>1. op \in Returns
    BY <1>1, OpType DEF Typed, Registers
  <2> HIDE DEF Words
  <2> QED BY <1>1, <2>1 DEF Returns
<1>10. Typed'
  <2>1. CatchBlockPointer' \in Nat
    BY <1>1, <1>7 DEF b
  <2>2. Registers' /\ BindingsTyped' /\ StackTyped'
    BY <1>1, <1>8, <1>9, <2>1 DEF Typed, Registers, BindingsTyped, StackTyped
  <2> QED BY <1>4, <2>2 DEF Typed
<1>11. \A j \in InnermostCatch(Act) .. n : Open[j].k # "start"
  <2> DEFINE c == InnermostCatch(Act)
  <2>1. c \in 1 .. n
    <3> HIDE DEF c
    <3> QED BY <1>3, BlockIs DEF n, c
  <2> HIDE DEF c
  <2>2. \A j \in c .. n : j \in 1 .. n
    BY <1>2, <2>1
  <2> QED BY <1>5, <2>2 DEF c
<1>12. /\ ContinuationAt(Depth, a2, q, continuation)
       /\ CatchAt(Depth, a2, q, CatchBlockPointer') /\ ControlAt(a2, q, control')
  <2> HIDE DEF q, a2, o, n
  <2>1. /\ ContinuationAt(Depth, a2, q, continuation)
        /\ CatchAt(Depth, a2, q, Block.previous.p)
        /\ \A f : f.extra = Block.previous.extra /\ f.catch = Block.previous.catch =>
                    ControlAt(a2, q, f)
    BY <1>3, <1>4, <1>11, UncatchRight DEF q, n, o
  <2> QED BY <1>1, <1>8, <2>1 DEF b
<1> HIDE DEF q, a2
<1>13. \A j \in 1 .. n - 1 : o[j].k # "start"
  <2> TAKE j \in 1 .. n - 1
  <2>1. CASE j \in 1 .. q
    <3>1. o[j] = Open[j] /\ j \in 1 .. n
      BY <1>2, <1>4, <2>1
    <3> QED BY <1>5, <3>1
  <2>2. CASE ~(j \in 1 .. q)
    <3>1. j \in q + 1 .. n - 1 /\ j + 1 \in 1 .. n
      BY <1>2, <1>4, <2>2
    <3>2. o[j] = Open[j + 1]
      BY <1>4, <3>1
    <3> QED BY <1>5, <3>1, <3>2
  <2> QED BY <2>1, <2>2
<1>14. RightAt(Depth, a2, Now')
  <2>1. /\ Now'.continuation = continuation /\ Now'.catch = CatchBlockPointer'
        /\ Now'.control = control' /\ Now'.pc = pc /\ Now'.fp = fp /\ Now'.sp = w
    BY <1>1 DEF Now
  <2> DEFINE m == n - 1
  <2>2. m \in Nat /\ q \in Nat /\ q <= m /\ Len(o) = m
    BY <1>2, <1>4
  <2>3. \A j \in q + 1 .. m : o[j].k # "start" /\ o[j].k # "catch"
    <3> TAKE j \in q + 1 .. m
    <3>1. j \in 1 .. n - 1
      BY <2>2
    <3> QED BY <1>4, <1>13, <3>1
  <2>4. Kinds(o, m, "start") = {}
    BY <1>13 DEF Kinds
  <2> HIDE DEF m
  <2>5. /\ Kinds(o, m, "start") = Kinds(o, q, "start")
        /\ Kinds(o, m, "catch") = Kinds(o, q, "catch")
    BY <2>2, <2>3, KindsDrop
  <2>6. /\ ContinuationAt(Depth, a2, m, continuation)
        /\ CatchAt(Depth, a2, m, CatchBlockPointer') /\ ControlAt(a2, m, control')
    BY <1>12, <2>5, ContinuationSame, CatchSame, ControlSame
  <2>7. Fits(o, m, fp, w, pc)
    BY <1>2, <1>3, <2>4 DEF Fits
  <2> QED BY <2>1, <2>2, <2>6, <2>7 DEF RightAt
<1>15. \A j \in 1 .. q : ItemOK(stack', Depth, a2, Now', j)
  <2>1. \A j \in 1 .. q : a2.open[j] = Act.open[j] /\ Act.open[j].at <= w
    <3> TAKE j \in 1 .. q
    <3>1. j \in 1 .. n
      BY <1>2, <1>4
    <3> QED BY <1>2, <1>4, <3>1, Current
  <2>2. Now'.fp = fp /\ Now'.sp = w /\ Now'.control = control'
    BY <1>1 DEF Now
  <2>3. q <= Len(Act.open) /\ Act.open \in Seq(Items) /\ q \in Nat
    BY <1>2, <1>4, ActIs DEF Typed
  <2>4. /\ Now'.control.args = Now.control.args /\ Now'.control.frame = Now.control.frame
        /\ Now'.control.disp = Now.control.disp
    BY <1>2, <1>8, <2>2
  <2>5. stack' = stack /\ a2.saved = Act.saved
    BY <1>1, <1>4
  <2>6. \A j \in 1 .. w : stack'[j] = stack[j]
    BY <2>5
  <2>7. Now'.fp = Now.fp /\ Now.fp \in Nat /\ w <= Now'.sp /\ Now'.sp \in Nat /\ w \in Nat
    BY <1>2, <2>2
  <2> DEFINE r2 == Now'
             st2 == stack'
  <2> HIDE DEF o, n, w, r2, st2
  <2> QED BY <1>2, <2>1, <2>3, <2>4, <2>5, <2>6, <2>7, ItemsSame DEF r2, st2
<1>16. \A j \in q + 1 .. n - 1 : ItemOK(stack', Depth, a2, Now', j)
  <2> TAKE j \in q + 1 .. n - 1
  <2> DEFINE i == j + 1
             x == Open[i]
             k == j - 1
  <2>1. i \in 1 .. n /\ i - 1 = j /\ k \in Nat /\ j - 1 = k /\ j \in Nat
    BY <1>2, <1>4
  <2>2. o[j] = x /\ x \in Items /\ x.k # "start" /\ x.k # "catch"
    BY <1>4, <1>5, <2>1, Current
  <2>3. ItemOK(stack, Depth, Act, Now, i)
    BY <1>2, <2>1 DEF ItemsOK
  <2>4. \A m \in 1 .. k : \E h \in 1 .. j : o[m] = Open[h]
    <3> TAKE m \in 1 .. k
    <3>1. CASE m \in 1 .. q
      <4>1. m \in 1 .. j
        BY <2>1
      <4> QED BY <1>4, <3>1, <4>1
    <3>2. CASE ~(m \in 1 .. q)
      <4>1. m \in q + 1 .. n - 1 /\ m + 1 \in 1 .. j
        BY <1>2, <1>4, <2>1, <3>2
      <4> QED BY <1>4, <4>1
    <3> QED BY <3>1, <3>2
  <2>5. Now'.fp = fp /\ Now'.sp = w /\ stack' = stack /\ Now.sp = w
    BY <1>1, <1>2 DEF Now
  <2>6. x.at >= fp + 1 /\ x.at <= w /\ \A h \in 1 .. j : Open[h].at <= x.at
    BY <1>2, <2>1, <2>3, <2>5 DEF ItemOK
  <2>7. \A m \in 1 .. k : o[m].at <= x.at
    BY <2>4, <2>6
  <2>8. ASSUME x.k = "cleanup" PROVE CleanupOK(stack', a2, Now', j)
    <3>1. CleanupOK(stack, Act, Now, i)
      BY <1>2, <2>3, <2>8 DEF ItemOK
    <3>2. /\ x.at > fp + 1 /\ (\A h \in 1 .. j : Open[h].at < x.at)
          /\ stack[x.at] \in Resumes /\ stack[x.at].pc.i \in {"code", "return"}
          /\ Fits(Open, j, fp, x.at - 1, stack[x.at].pc)
      BY <1>2, <2>1, <3>1 DEF CleanupOK
    <3>3. \A m \in 1 .. k : o[m].at < x.at
      BY <2>4, <3>2
    <3> DEFINE p == stack[x.at].pc
    <3>4. Fits(o, k, fp, x.at - 1, p)
      <4>1. CASE p.i = "code"
        BY <4>1, CodeFits
      <4>2. CASE p.i = "return"
        <5>1. x.at - 1 - p.n >= fp + 1
          BY <3>2, <4>2 DEF Fits
        <5>2. Kinds(o, k, "start") = {}
          <6>1. \A m \in 1 .. k : m \in 1 .. n - 1
            BY <1>2, <2>1
          <6> QED BY <1>13, <6>1 DEF Kinds
        <5> QED BY <4>2, <5>1, <5>2 DEF Fits
      <4> QED BY <3>2, <4>1, <4>2
    <3> HIDE DEF p, k, x
    <3> QED BY <2>1, <2>2, <2>5, <3>2, <3>3, <3>4, Zenon DEF CleanupOK, p
  <2> HIDE DEF x, k
  <2> QED BY <2>1, <2>2, <2>5, <2>6, <2>7, <2>8, Zenon DEF ItemOK
<1>17. ItemsOK(stack', Depth, a2, Now')
  <2>1. \A j \in 1 .. Len(o) : j \in 1 .. q \/ j \in q + 1 .. n - 1
    BY <1>2, <1>4
  <2> QED BY <1>15, <1>16, <2>1 DEF ItemsOK
<1>18. FramesOK'
  <2>1. fp' = fp /\ lp' = fp + control'.args /\ stack' = stack /\ Len(stack') >= fp + 1
    BY <1>1, <1>2, <1>8
  <2>2. \A j \in 1 .. fp + 1 : stack'[j] = stack[j]
    BY <2>1
  <2>3. /\ ItemsOK(stack', Depth, acts'[Depth], Now') /\ RightAt(Depth, acts'[Depth], Now')
        /\ acts'[Depth].saved = Act.saved
    BY <1>4, <1>14, <1>17 DEF a2
  <2>4. Depth' = Depth /\ \A d \in 1 .. Depth - 1 : acts'[d] = acts[d]
    BY <1>4
  <2> QED BY <1>8, <2>1, <2>2, <2>3, <2>4, Here
<1>19. OpOK'
  BY <1>1, <1>9 DEF OpOK
<1>20. BindsOK'
  <2>1. \A d \in 2 .. Depth : acts'[d].saved = acts[d].saved
    BY <1>4, ActIs DEF Typed, a2
  <2>2. ActsTyped /\ bindings' = bindings /\ (Len(bindings) > Act.bsp => control'.bind)
    BY <1>1, <1>8 DEF Typed, BindsOK
  <2>3. ~(op'.in \in {"close", "unwind"})
    BY <1>9
  <2> QED BY <1>4, <2>1, <2>2, <2>3, BindsKept
<1> QED BY <1>10, <1>18, <1>19, <1>20

-----------------------------------------------------------------------------
(* A frame that was just entered. *)
LEMMA Entered ==
    ASSUME NEW st, NEW d \in Nat, d > 1, NEW a, a.open = <<>>, NEW r,
           a.saved \in Saved, r.fp \in Nat,
           r.fp = a.saved.sp + 1, r.fp + 1 <= r.sp, r.lp = r.fp + r.control.args,
           r.control.frame = r.fp - a.saved.fp, ~r.control.catch, ~r.control.extra,
           r.continuation = a.saved.pc, r.catch = a.saved.catch, r.pc.i = "code",
           st[r.fp] = PC(a.saved.continuation), st[r.fp + 1] = Control(a.saved.control)
    PROVE  ActOK(st, d, a, r)
<1>1. Len(a.open) = 0
  OBVIOUS
<1>2. FrameOK(st, d, a, r)
  <2>1. r.fp >= 1 /\ st[r.fp].t = "pc" /\ st[r.fp + 1].t = "control"
    BY DEF Saved, PC, Control
  <2> QED BY <2>1, Zenon DEF FrameOK
<1>3. ItemsOK(st, d, a, r)
  BY <1>1 DEF ItemsOK
<1>4. \A k : Kinds(a.open, 0, k) = {} /\ Last(a.open, 0, k) = {}
  BY DEF Kinds, Last
<1>5. ContinuationAt(d, a, 0, r.continuation)
  BY <1>4 DEF ContinuationAt, Ret
<1>6. CatchAt(d, a, 0, r.catch)
  BY <1>4 DEF CatchAt, Outer
<1>7. ControlAt(a, 0, r.control)
  BY <1>4 DEF ControlAt
<1>8. Fits(a.open, 0, r.fp, r.sp, r.pc)
  BY CodeFits
<1> QED BY <1>1, <1>2, <1>3, <1>5, <1>6, <1>7, <1>8 DEF ActOK, RightAt

(* An activation is begun: s is what is saved of the registers of the one  *)
(* that called it, or was trapped.                                         *)
LEMMA Calls ==
    ASSUME Typed, FramesOK, Depth' = Depth + 1,
           \A d \in 1 .. Depth - 1 : acts'[d] = acts[d],
           acts'[Depth].saved = Act.saved,
           NEW s \in Saved, acts'[Depth + 1].saved = s,
           s.fp = fp, s.control.disp = control.disp, s.sp >= fp, fp' > s.sp,
           \A j \in 1 .. fp : stack'[j] = stack[j],
           ActOK(stack', Depth, acts'[Depth], s),
           ActOK(stack', Depth + 1, acts'[Depth + 1], Now'), fp' \in Nat,
           control'.disp = "return" =>
             Kinds(acts'[Depth].open, Len(acts'[Depth].open), "start") = {}
    PROVE  FramesOK'
<1>0. PICK D \in Nat \ {0} : D = Depth
  BY DEF Typed, ActsTyped
<1> USE <1>0
<1>1. D \in 1 .. D /\ Act = acts[D] /\ ActsTyped /\ fp \in Nat /\ Depth' = D + 1
  BY <1>0, ActIs DEF Typed, Registers
<1>2. \A d \in 2 .. D : acts'[d].saved = acts[d].saved
  BY <1>1
<1>3. \A d \in 1 .. D - 1 : d \in 1 .. D /\ d + 1 \in 2 .. D /\ d # D /\ d # D + 1
  BY <1>1
<1>4. \A d \in 1 .. D - 1 : R(d)' = R(d) /\ R(d) = acts[d + 1].saved
  BY <1>2, <1>3 DEF R
<1>5. R(D) = Now /\ R(D)' = s /\ R(D + 1)' = Now'
  BY <1>1 DEF R
<1>6. Now.fp = fp /\ Now'.fp = fp' /\ Now.control = control /\ Now'.control = control'
  BY DEF Now
<1>7. ASSUME NEW d \in 1 .. D - 1 PROVE ActOK(stack', d, acts'[d], R(d)')
  <2>1. ActOK(stack, d, acts[d], R(d)) /\ acts[d] \in Activations /\ R(d) \in Saved
    BY <1>1, <1>3, ActType, RType DEF FramesOK
  <2>2. acts[d + 1].saved.sp < R(D).fp
    BY <1>1, <1>3 DEF FramesOK, Above
  <2>3. R(d).sp < fp /\ R(d).sp \in Nat
    BY <1>4, <1>5, <1>6, <2>1, <2>2 DEF Saved
  <2>4. \A j \in 1 .. R(d).sp : stack'[j] = stack[j]
    <3>1. \A j \in 1 .. R(d).sp : j \in 1 .. fp
      BY <1>1, <2>3
    <3> QED BY <3>1
  <2>5. ActOK(stack', d, acts[d], R(d))
    BY <2>1, <2>4, ActSame
  <2> QED BY <1>4, <2>5
<1>8. ASSUME NEW d \in 1 .. D + 1 PROVE ActOK(stack', d, acts'[d], R(d)')
  <2>1. d \in 1 .. D - 1 \/ d = D \/ d = D + 1
    BY <1>1
  <2> QED BY <1>5, <1>7, <2>1
<1>9. Above'
  <2>1. \A e \in 1 .. D : R(e)'.fp = R(e).fp
    BY <1>1, <1>4, <1>5, <1>6
  <2>2. ASSUME NEW e \in 1 .. D + 1, NEW d \in 2 .. e PROVE acts'[d].saved.sp < R(e)'.fp
    <3>1. CASE e \in 1 .. D
      <4>1. d \in 2 .. D
        BY <1>1, <3>1
      <4>2. acts[d].saved.sp < R(e).fp
        BY <3>1 DEF FramesOK, Above
      <4> QED BY <1>2, <2>1, <3>1, <4>1, <4>2
    <3>2. CASE e = D + 1 /\ d = D + 1
      BY <1>5, <1>6, <3>2
    <3>3. CASE e = D + 1 /\ d # D + 1
      <4>1. d \in 2 .. D
        BY <1>1, <3>3
      <4>2. acts[d].saved.sp < R(D).fp /\ acts[d].saved \in Saved
        BY <1>1, <4>1 DEF FramesOK, Above, ActsTyped
      <4>3. acts[d].saved.sp \in Nat /\ s.sp \in Nat
        BY <4>2 DEF Saved
      <4>4. acts'[d].saved.sp = acts[d].saved.sp /\ R(e)'.fp = fp' /\ R(D).fp = fp
        BY <1>2, <1>5, <1>6, <3>3, <4>1
      <4> QED BY <1>1, <4>2, <4>3, <4>4
    <3> QED BY <1>1, <3>1, <3>2, <3>3
  <2> QED BY <2>2 DEF Above
<1>10. Passing'
  <2>1. ASSUME NEW d \in 2 .. D + 1, R(d)'.control.disp = "return"
        PROVE  Kinds(acts'[d - 1].open, Len(acts'[d - 1].open), "start") = {}
    <3>1. CASE d = D + 1
      <4>1. d - 1 = D
        BY <1>1, <3>1
      <4>2. control'.disp = "return"
        BY <1>5, <1>6, <2>1, <3>1
      <4> QED BY <4>1, <4>2
    <3>2. CASE d # D + 1
      <4>1. d \in 2 .. D /\ d - 1 \in 1 .. D - 1 /\ (d = D \/ d \in 1 .. D - 1)
        BY <1>1, <3>2
      <4>2. R(d).control.disp = "return"
        BY <1>4, <1>5, <1>6, <2>1, <4>1
      <4>3. acts'[d - 1] = acts[d - 1]
        BY <4>1
      <4> QED BY <4>1, <4>2, <4>3 DEF FramesOK, Passing
    <3> QED BY <3>1, <3>2
  <2> QED BY <2>1 DEF Passing
<1> QED BY <1>8, <1>9, <1>10 DEF FramesOK

(* Its activation is typed, and the bindings are those of the others. *)
LEMMA Activated ==
    ASSUME Typed, NEW b, b \in Seq(Activations), Len(b) = Depth,
           \A d \in 1 .. Depth : b[d].bsp = acts[d].bsp /\ b[d].saved = acts[d].saved,
           NEW s \in Saved,
           acts' = Append(b, [open |-> <<>>, bsp |-> Len(bindings), saved |-> s])
    PROVE  /\ ActsTyped' /\ Depth' = Depth + 1
           /\ \A d \in 1 .. Depth : acts'[d] = b[d]
           /\ acts'[Depth + 1].open = <<>> /\ acts'[Depth + 1].saved = s
           /\ (BindsOK /\ UNCHANGED bindings /\ ~(op'.in \in {"close", "unwind"})
               /\ (Len(bindings) > Act.bsp => s.control.bind)) => BindsOK'
<1> DEFINE D == Depth
           l == Len(bindings)
           x == [open |-> <<>>, bsp |-> l, saved |-> s]
<1>1. D \in Nat \ {0} /\ ActsTyped /\ l \in Nat /\ Act = acts[D] /\ D \in 1 .. D
  BY ActIs, LenProperties DEF Typed, BindingsTyped
<1>2. x \in Activations
  <2>1. <<>> \in Seq(Items)
    BY EmptySeq
  <2> HIDE DEF Items, Saved
  <2> QED BY <1>1, <2>1 DEF Activations
<1>3. x.open = <<>> /\ x.bsp = l /\ x.saved = s
  OBVIOUS
<1> HIDE DEF x
<1>4. /\ acts' \in Seq(Activations) /\ Len(acts') = D + 1 /\ acts'[D + 1] = x
      /\ \A d \in 1 .. D : acts'[d] = b[d]
  <2>1. acts' = Append(b, x)
    BY DEF x
  <2> HIDE DEF D, Activations
  <2> QED BY <1>2, <2>1, AppendProperties DEF D
<1>5. Depth' = D + 1
  BY <1>4 DEF Depth
<1>6. \A d \in 1 .. D : acts'[d].bsp = acts[d].bsp /\ acts'[d].saved = acts[d].saved
  BY <1>4
<1>7. ActsTyped'
  <2>1. \A d \in 2 .. D + 1 : acts'[d].saved \in Saved
    <3> TAKE d \in 2 .. D + 1
    <3>1. CASE d = D + 1
      BY <1>3, <1>4, <3>1
    <3>2. CASE d # D + 1
      <4>1. d \in 2 .. D /\ d \in 1 .. D
        BY <1>1, <3>2
      <4> QED BY <1>1, <1>6, <4>1 DEF ActsTyped
    <3> QED BY <3>1, <3>2
  <2> QED BY <1>1, <1>4, <1>5, <2>1 DEF ActsTyped
<1>8. ASSUME BindsOK, UNCHANGED bindings, ~(op'.in \in {"close", "unwind"}),
             l > Act.bsp => s.control.bind
      PROVE  BindsOK'
  <2>1. Act' = x /\ Act'.bsp = l
    BY <1>3, <1>4, <1>5 DEF Act
  <2>2. ~(Len(bindings)' > Act'.bsp)
    BY <1>1, <1>8, <2>1
  <2>3. \A d \in 1 .. D : acts'[d + 1].bsp > acts'[d].bsp => acts'[d + 1].saved.control.bind
    <3> TAKE d \in 1 .. D
    <3>1. CASE d = D
      BY <1>1, <1>3, <1>4, <1>6, <1>8, <3>1
    <3>2. CASE d # D
      <4>1. d \in 1 .. D - 1 /\ d + 1 \in 1 .. D
        BY <1>1, <3>2
      <4> QED BY <1>6, <1>8, <4>1 DEF BindsOK
    <3> QED BY <3>1, <3>2
  <2>4. ASSUME NEW m \in 1 .. l, NEW d \in 1 .. D + 1, Own(d, m)', m > acts'[d].bsp + 1
        PROVE  bindings'[m].bind
    <3>1. acts'[d].bsp < m /\ \A e \in d + 1 .. D + 1 : acts'[e].bsp >= m
      BY <1>5, <2>4 DEF Own
    <3>2. d # D + 1
      BY <1>1, <1>3, <1>4, <3>1
    <3>3. d \in 1 .. D /\ acts'[d].bsp = acts[d].bsp
      BY <1>1, <1>6, <3>2
    <3>4. \A e \in d + 1 .. D : acts[e].bsp >= m
      <4> TAKE e \in d + 1 .. D
      <4>1. e \in d + 1 .. D + 1 /\ e \in 1 .. D
        BY <1>1, <3>3
      <4> QED BY <1>6, <3>1, <4>1
    <3>5. Own(d, m)
      BY <3>1, <3>3, <3>4 DEF Own
    <3> QED BY <1>8, <2>4, <3>3, <3>5 DEF BindsOK
  <2>5. Depth' - 1 = D
    BY <1>1, <1>5
  <2> QED BY <1>5, <1>8, <2>2, <2>3, <2>4, <2>5 DEF BindsOK
<1> QED BY <1>3, <1>4, <1>5, <1>7, <1>8

(* A trap: p is where its handler begins. *)
LEMMA TrapInv ==
    ASSUME Typed, FramesOK, OpOK, BindsOK, NEW n \in Nat, Len(stack) + 4 + n <= MaxWords,
           stack' = (stack \o <<PC(continuation), Control(control), NIL, PC(pc)>>) \o Values(n),
           fp' = Len(stack) + 1, sp' = Len(stack) + 4 + n, lp' = sp' + 1,
           control' = Fresh(control, lp' - fp', fp' - fp, "effect"),
           continuation' = pc, pc' = Code(Depth + 1), op' = Idle,
           acts' = Append(acts, [open |-> <<>>, bsp |-> Len(bindings), saved |-> Now]),
           UNCHANGED <<CatchBlockPointer, bindings, cells>>
    PROVE  Typed' /\ FramesOK' /\ OpOK' /\ BindsOK'
<1> DEFINE w == Len(stack)
           f == <<PC(continuation), Control(control), NIL, PC(pc)>>
           g == stack \o f
           D == Depth
<1>1. /\ w \in Nat /\ fp \in Nat /\ fp + 1 <= w /\ Now \in Saved /\ Now.fp = fp /\ Now.sp = w
      /\ ActOK(stack, D, Act, Now) /\ Now.control = control
      /\ D \in Nat \ {0} /\ Act = acts[D] /\ acts \in Seq(Activations)
      /\ pc \in PCs /\ continuation \in PCs /\ control \in Controls /\ Act \in Activations
      /\ D \in 1 .. D
  BY Current, ActIs DEF Typed, Registers, ActsTyped
<1>2. Now.continuation = continuation /\ Now.pc = pc /\ Now.catch = CatchBlockPointer
  BY DEF Now
<1>3. f \in Seq(Words) /\ Len(f) = 4 /\ f[1] = PC(continuation) /\ f[2] = Control(control)
  <2>1. /\ PC(continuation) \in Words /\ Control(control) \in Words
        /\ NIL \in Words /\ PC(pc) \in Words
    BY <1>1 DEF PC, Control, NIL, Value, Words, PCWords, Saves, Plain
  <2> HIDE DEF Words
  <2> QED BY <2>1, Four
<1> HIDE DEF f, w, D
<1>4. /\ g \in Seq(Words) /\ Len(g) = w + 4
      /\ \A j \in 1 .. w : g[j] = stack[j]
      /\ g[w + 1] = PC(continuation) /\ g[w + 2] = Control(control)
  <2> HIDE DEF g, Words
  <2>1. stack \in Seq(Words)
    BY DEF Typed, StackTyped
  <2>2. /\ g \in Seq(Words) /\ Len(g) = w + Len(f)
        /\ \A j \in 1 .. w : g[j] = stack[j]
        /\ \A j \in 1 .. Len(f) : g[w + j] = f[j]
    <3>1. f \in Seq(Words)
      BY <1>3
    <3>2. /\ stack \o f \in Seq(Words) /\ Len(stack \o f) = Len(stack) + Len(f)
          /\ \A j \in 1 .. Len(stack) : (stack \o f)[j] = stack[j]
          /\ \A j \in 1 .. Len(f) : (stack \o f)[Len(stack) + j] = f[j]
      BY <2>1, <3>1, Joined
    <3> QED BY <3>2 DEF g, w
  <2>3. 1 \in 1 .. Len(f) /\ 2 \in 1 .. Len(f)
    BY <1>3
  <2> QED BY <1>3, <2>2, <2>3
<1>5. stack' = g \o Values(n)
  BY DEF f
<1> HIDE DEF g
<1>6. /\ stack' \in Seq(Words) /\ Len(stack') = w + 4 + n
      /\ \A j \in 1 .. w + 4 : stack'[j] = g[j]
  <2> DEFINE t == Values(n)
  <2>1. t \in Seq(Words) /\ Len(t) = n
    BY ValuesType
  <2> HIDE DEF t, Words
  <2>2. /\ g \o t \in Seq(Words) /\ Len(g \o t) = Len(g) + Len(t)
        /\ \A j \in 1 .. Len(g) : (g \o t)[j] = g[j]
    BY <1>4, <2>1, Joined
  <2> QED BY <1>4, <1>5, <2>1, <2>2 DEF t
<1>7. /\ \A j \in 1 .. w : stack'[j] = stack[j]
      /\ stack'[w + 1] = PC(continuation) /\ stack'[w + 2] = Control(control)
  <2>1. \A j \in 1 .. w : j \in 1 .. w + 4
    BY <1>1
  <2>2. w + 1 \in 1 .. w + 4 /\ w + 2 \in 1 .. w + 4
    BY <1>1
  <2> QED BY <1>4, <1>6, <2>1, <2>2
<1>8. fp' = w + 1 /\ sp' = w + 4 + n /\ lp' = w + 4 + n + 1 /\ fp' \in Nat /\ sp' \in Nat /\ lp' \in Int
  <2>1. fp' = w + 1 /\ sp' = w + 4 + n /\ lp' = sp' + 1
    BY DEF w
  <2>2. w \in Nat
    BY <1>1
  <2>3. fp' \in Nat /\ sp' \in Nat
    BY <2>1, <2>2, SMTT(30)
  <2> QED BY <2>1, <2>3, SMTT(30)
<1>9. /\ control' \in Controls /\ control'.args = lp' - fp' /\ control'.frame = fp' - fp
      /\ control'.disp = "effect" /\ ~control'.catch /\ ~control'.extra
  <2>1. lp' - fp' \in Int /\ fp' - fp \in Int
    BY <1>1, <1>8
  <2> DEFINE x == lp' - fp'
             y == fp' - fp
  <2>2. control' = Fresh(control, x, y, "effect") /\ x \in Int /\ y \in Int
    BY <2>1
  <2> HIDE DEF x, y
  <2>3. /\ control' \in Controls /\ control'.args = x /\ control'.frame = y
        /\ control'.disp = "effect" /\ ~control'.catch /\ ~control'.extra
    BY <1>1, <2>2 DEF Fresh, Controls, Dispositions
  <2> QED BY <2>3 DEF x, y
<1>10. Code(D + 1) \in PCs /\ Code(D + 1).i = "code" /\ pc' = Code(D + 1)
  <2>1. D + 1 \in Nat
    BY <1>1
  <2>2. Code(D + 1) \in PCs /\ Code(D + 1).i = "code"
    BY <2>1, CodeIs
  <2>3. pc' = Code(D + 1)
    BY DEF D
  <2> QED BY <2>2, <2>3
<1>11. /\ ActsTyped' /\ Depth' = D + 1
       /\ \A d \in 1 .. D : acts'[d] = acts[d]
       /\ acts'[D + 1].open = <<>> /\ acts'[D + 1].saved = Now
       /\ (BindsOK /\ UNCHANGED bindings /\ ~(op'.in \in {"close", "unwind"})
           /\ (Len(bindings) > Act.bsp => Now.control.bind)) => BindsOK'
  <2> DEFINE s == Now
  <2>1. s \in Saved /\ acts' = Append(acts, [open |-> <<>>, bsp |-> Len(bindings), saved |-> s])
    BY <1>1
  <2>2. /\ Len(acts) = Depth /\ acts \in Seq(Activations)
        /\ \A d \in 1 .. Depth : acts[d].bsp = acts[d].bsp /\ acts[d].saved = acts[d].saved
    BY <1>1 DEF Depth
  <2> HIDE DEF s
  <2>3. /\ ActsTyped' /\ Depth' = Depth + 1
        /\ \A d \in 1 .. Depth : acts'[d] = acts[d]
        /\ acts'[Depth + 1].open = <<>> /\ acts'[Depth + 1].saved = s
        /\ (BindsOK /\ UNCHANGED bindings /\ ~(op'.in \in {"close", "unwind"})
            /\ (Len(bindings) > Act.bsp => s.control.bind)) => BindsOK'
    BY <2>1, <2>2, Activated
  <2> QED BY <2>3 DEF s, D
<1>12. Typed'
  <2>1. Registers' /\ BindingsTyped' /\ StackTyped'
    BY <1>1, <1>6, <1>8, <1>9, <1>10
       DEF Typed, Registers, BindingsTyped, StackTyped, w
  <2> QED BY <1>11, <2>1 DEF Typed
<1>13. FramesOK'
  <2> DEFINE s == Now
             a == acts'[D + 1]
             r == Now'
  <2>1. /\ r.fp = fp' /\ r.sp = Len(stack') /\ r.lp = lp' /\ r.control = control'
        /\ r.continuation = continuation' /\ r.catch = CatchBlockPointer' /\ r.pc = pc'
    BY DEF Now
  <2>2. /\ s \in Saved /\ s.fp = fp /\ s.sp = w /\ s.continuation = continuation /\ s.pc = pc
        /\ s.control = control /\ s.catch = CatchBlockPointer
        /\ a.open = <<>> /\ a.saved = s
    BY <1>1, <1>2, <1>11
  <2>3. ActOK(stack', D, acts'[D], s)
    <3>1. acts'[D] = Act
      BY <1>1, <1>11
    <3> DEFINE st == stack'
    <3> HIDE DEF s, st
    <3>2. ActOK(stack, D, Act, s) /\ \A j \in 1 .. s.sp : st[j] = stack[j]
      BY <1>1, <1>7, <2>2 DEF s, st
    <3>3. Act \in Activations /\ s \in Saved
      BY <1>1, <2>2
    <3>4. ActOK(st, D, Act, s)
      BY <3>2, <3>3, ActSame
    <3> QED BY <3>1, <3>4 DEF st
  <2> HIDE DEF s, a, r
  <2>4. /\ r.fp \in Nat /\ r.fp = s.sp + 1 /\ r.fp + 1 <= r.sp
        /\ r.lp = r.fp + r.control.args /\ r.control.frame = r.fp - s.fp
    <3>1. r.fp \in Nat /\ r.fp = s.sp + 1
      BY <1>8, <2>1, <2>2
    <3>2. r.fp = w + 1 /\ r.sp = w + 4 + n
      BY <1>6, <1>8, <2>1
    <3>3. r.fp + 1 <= r.sp
      BY <1>1, <3>2
    <3>4. r.control.args = lp' - fp' /\ r.control.frame = r.fp - s.fp
      BY <1>9, <2>1, <2>2
    <3>5. r.lp = r.fp + r.control.args
      BY <1>8, <2>1, <3>4
    <3> QED BY <3>1, <3>3, <3>4, <3>5
  <2>5. /\ ~r.control.catch /\ ~r.control.extra /\ r.continuation = s.pc
        /\ r.catch = s.catch /\ r.pc.i = "code"
    BY <1>9, <1>10, <2>1, <2>2
  <2>6. stack'[r.fp] = PC(s.continuation) /\ stack'[r.fp + 1] = Control(s.control)
    <3>1. r.fp = w + 1 /\ r.fp + 1 = w + 2
      BY <1>1, <1>8, <2>1
    <3> QED BY <1>7, <2>2, <3>1
  <2>7. ActOK(stack', D + 1, a, r)
    <3>1. D + 1 \in Nat /\ D + 1 > 1
      BY <1>1
    <3> DEFINE d == D + 1
               st == stack'
    <3> HIDE DEF d, st
    <3>2. ActOK(st, d, a, r)
      BY <2>2, <2>4, <2>5, <2>6, <3>1, Entered DEF d, st
    <3> QED BY <3>2 DEF d, st
  <2>8. Depth' = Depth + 1 /\ \A d \in 1 .. Depth - 1 : acts'[d] = acts[d]
    <3>1. \A d \in 1 .. D - 1 : d \in 1 .. D
      BY <1>1
    <3>2. Depth' = D + 1 /\ \A d \in 1 .. D - 1 : acts'[d] = acts[d]
      BY <1>11, <3>1
    <3> QED BY <3>2 DEF D
  <2>9. /\ acts'[Depth].saved = Act.saved /\ acts'[Depth + 1].saved = s /\ s \in Saved
        /\ ActOK(stack', Depth, acts'[Depth], s)
        /\ ActOK(stack', Depth + 1, acts'[Depth + 1], Now')
    BY <1>1, <1>11, <2>2, <2>3, <2>7 DEF D, a, r
  <2>10. /\ s.fp = fp /\ s.control.disp = control.disp /\ s.sp >= fp /\ fp' > s.sp /\ fp' \in Nat
         /\ \A j \in 1 .. fp : stack'[j] = stack[j]
    <3>1. \A j \in 1 .. fp : j \in 1 .. w
      BY <1>1
    <3>2. \A j \in 1 .. fp : stack'[j] = stack[j]
      BY <1>7, <3>1
    <3>3. w >= fp /\ fp' > w /\ fp' \in Nat
      BY <1>1, <1>8
    <3> QED BY <2>2, <3>2, <3>3
  <2>11. control'.disp # "return"
    BY <1>9
  <2> QED BY <2>8, <2>9, <2>10, <2>11, Calls
<1>14. op'.in = "idle"
  BY DEF Idle
<1>15. OpOK'
  BY <1>6, <1>8, <1>14 DEF OpOK
<1>16. BindsOK'
  BY <1>1, <1>11, <1>14 DEF BindsOK
<1> QED BY <1>12, <1>13, <1>15, <1>16

LEMMA PreTrapInv ==
    ASSUME Typed, FramesOK, OpOK, BindsOK, PreTrap
    PROVE  Typed' /\ FramesOK' /\ OpOK' /\ BindsOK'
<1>1. Room(4) /\ TrapFrame(stack)
  BY DEF PreTrap
<1> DEFINE f == <<PC(continuation), Control(control), NIL, PC(pc)>>
<1>2. /\ stack' = stack \o f /\ sp' = Len(stack) + 4 /\ fp' = Len(stack) + 1
      /\ lp' = sp' + 1 /\ control' = Fresh(control, lp' - fp', fp' - fp, "effect")
      /\ continuation' = pc /\ pc' = Code(Depth + 1) /\ op' = Idle
      /\ acts' = Append(acts, [open |-> <<>>, bsp |-> Len(bindings), saved |-> Now])
      /\ UNCHANGED <<CatchBlockPointer, bindings, cells>>
  BY <1>1 DEF TrapFrame, Now
<1>3. Len(stack) \in Nat /\ Len(stack) + 4 <= MaxWords /\ pc \in PCs
      /\ continuation \in PCs /\ control \in Controls /\ stack \in Seq(Words)
  BY <1>1, LenProperties DEF Typed, Registers, StackTyped, Room
<1>4. f \in Seq(Words)
  <2>1. /\ PC(continuation) \in Words /\ Control(control) \in Words
        /\ NIL \in Words /\ PC(pc) \in Words
    BY <1>3 DEF PC, Control, NIL, Value, Words, PCWords, Saves, Plain
  <2> HIDE DEF Words
  <2> QED BY <2>1, Four
<1>5. (stack \o f) \o Values(0) = stack \o f
  <2>1. Values(0) = <<>>
    <3>1. Values(0) \in Seq(Words) /\ Len(Values(0)) = 0
      BY ValuesType
    <3> HIDE DEF Words
    <3> QED BY <3>1, EmptySeq
  <2> HIDE DEF f, Words
  <2>2. stack \o f \in Seq(Words)
    BY <1>3, <1>4, ConcatProperties
  <2> QED BY <2>1, <2>2, ConcatEmptySeq
<1>6. /\ stack' = (stack \o f) \o Values(0) /\ Len(stack) + 4 + 0 <= MaxWords
      /\ sp' = Len(stack) + 4 + 0
  BY <1>2, <1>3, <1>5
<1>7. 0 \in Nat
  OBVIOUS
<1> QED BY <1>2, <1>6, <1>7, TrapInv

LEMMA PostTrapInv ==
    ASSUME Typed, FramesOK, OpOK, BindsOK, NEW arity \in Nat, PostTrap(arity)
    PROVE  Typed' /\ FramesOK' /\ OpOK' /\ BindsOK'
<1> DEFINE f == <<PC(continuation), Control(control), NIL, PC(pc)>>
<1>0. /\ sp' = sp + arity + 4 /\ fp' = (sp + arity) - (arity - 1) /\ lp' = sp' + 1
      /\ stack' = stack \o f \o Values(arity)
  <2>1. sp' = sp + arity + 4 /\ fp' = (sp + arity) - (arity - 1) /\ lp' = sp' + 1
    BY Zenon DEF PostTrap
  <2>2. stack' = stack \o f \o Values(arity)
    BY Zenon DEF PostTrap
  <2> QED BY <2>1, <2>2
<1> HIDE DEF f
<1>a. Guest /\ Room(4 + arity)
  BY Zenon DEF PostTrap
<1>b. control' = Fresh(control, lp' - fp', fp' - fp, "effect")
  BY Zenon DEF PostTrap
<1>c. UNCHANGED <<CatchBlockPointer, bindings, cells, op>>
  BY Zenon DEF PostTrap
<1>1. /\ Guest /\ Room(4 + arity) /\ op' = op
      /\ control' = Fresh(control, lp' - fp', fp' - fp, "effect")
      /\ continuation' = pc /\ pc' = Code(Depth + 1)
      /\ acts' = Append(acts, [open |-> <<>>, bsp |-> Len(bindings),
                   saved |-> [fp |-> fp, lp |-> lp, sp |-> sp,
                              continuation |-> continuation, control |-> control,
                              pc |-> pc, catch |-> CatchBlockPointer]])
      /\ UNCHANGED <<CatchBlockPointer, bindings, cells>>
  <2>1. /\ continuation' = pc /\ pc' = Code(Depth + 1)
        /\ acts' = Append(acts, [open |-> <<>>, bsp |-> Len(bindings),
                     saved |-> [fp |-> fp, lp |-> lp, sp |-> sp,
                                continuation |-> continuation, control |-> control,
                                pc |-> pc, catch |-> CatchBlockPointer]])
    BY Zenon DEF PostTrap
  <2> QED BY <1>a, <1>b, <1>c, <2>1
<1>2. op = Idle /\ sp = Len(stack) /\ Len(stack) \in Nat
  BY <1>1, LenProperties DEF Guest, OpOK, Idle, Typed, StackTyped
<1>3. acts' = Append(acts, [open |-> <<>>, bsp |-> Len(bindings), saved |-> Now])
  BY <1>1, <1>2 DEF Now
<1>4. fp' = Len(stack) + 1 /\ sp' = Len(stack) + 4 + arity /\ Len(stack) + 4 + arity <= MaxWords
  <2>1. Len(stack) + (4 + arity) <= MaxWords
    BY <1>1 DEF Room
  <2> QED BY <1>0, <1>2, <2>1, FramesAssumption DEF FramesAssumption
<1>5. op' = Idle
  BY <1>1, <1>2
<1>6. stack' = (stack \o <<PC(continuation), Control(control), NIL, PC(pc)>>) \o Values(arity)
  BY <1>0 DEF f
<1> QED BY <1>0, <1>1, <1>3, <1>4, <1>5, <1>6, TrapInv

(* FINISH-CALL-N: what the call saves, and what the function gets. *)
LEMMA FinishCallIs ==
    ASSUME Typed, FramesOK, OpOK, NEW args \in Nat, NEW disp, FinishCall(args, disp)
    PROVE  LET n == Len(Open)
               x == Open[n]
               w == Len(stack)
               s == [fp |-> fp, lp |-> lp, sp |-> x.sp, continuation |-> x.continuation,
                     control |-> x.control, pc |-> pc, catch |-> CatchBlockPointer]
           IN /\ n \in Nat /\ n > 0 /\ x \in Starts /\ x.k = "start"
              /\ StartOK(stack, Depth, Act, Now, n) /\ x.at = w
              /\ s \in Saved /\ Intact /\ pc.i = "code" /\ op = Idle
              /\ w \in Nat /\ w + args <= MaxWords
              /\ sp' = w + args /\ fp' = x.sp + 1 /\ lp' = w + args + 1
              /\ control' = Fresh(control, lp' - fp', fp' - fp, disp)
              /\ stack' = stack \o Values(args) /\ pc' = Code(Depth + 1)
              /\ continuation' = pc
              /\ acts' = Append([acts EXCEPT ![Depth].open = SubSeq(@, 1, n - 1)],
                           [open |-> <<>>, bsp |-> Len(bindings), saved |-> s])
              /\ (disp = "return" => Started = {n})
              /\ UNCHANGED <<CatchBlockPointer, bindings, cells, op>>
<1> DEFINE n == Len(Open)
           x == Open[n]
           w == Len(stack)
           s == [fp |-> fp, lp |-> lp, sp |-> x.sp, continuation |-> x.continuation,
                 control |-> x.control, pc |-> pc, catch |-> CatchBlockPointer]
           b == IF control.extra THEN 1 ELSE 0
           top == sp + args
           op1 == top - (args + 1) - b
           op2 == top + 1
           i == Innermost
<1>1. Guest /\ Innermost.k = "start" /\ sp = Base /\ Room(args)
      /\ (disp = "return" => Depth > 1 /\ Started = {Len(Open)})
  BY Zenon DEF FinishCall
<1>2. sp' = top /\ fp' = op1 /\ lp' = op2 /\ control' = Fresh(control, op2 - op1, op1 - fp, disp)
  BY Zenon DEF FinishCall
<1>3. acts' = Append(Closed(Len(Open) - 1),
                [open |-> <<>>, bsp |-> Len(bindings),
                 saved |-> [fp |-> fp, lp |-> lp, sp |-> i.sp,
                            continuation |-> i.continuation, control |-> i.control,
                            pc |-> pc, catch |-> CatchBlockPointer]])
  BY Zenon DEF FinishCall
<1>4. stack' = stack \o Values(args) /\ pc' = continuation /\ continuation' = pc
  BY Zenon DEF FinishCall
<1>5. UNCHANGED <<CatchBlockPointer, bindings, cells, op, traps>>
  BY Zenon DEF FinishCall
<1> HIDE DEF top, op1, op2, b
<1>6. /\ n \in Nat /\ n > 0 /\ Innermost = x /\ Base = x.at /\ n \in 1 .. n
      /\ w \in Nat /\ fp \in Nat /\ Open = Act.open /\ x \in Items /\ x.at \in Nat
      /\ ItemsOK(stack, Depth, Act, Now) /\ ControlAt(Act, n, control)
      /\ ContinuationAt(Depth, Act, n, continuation)
  BY <1>1, BaseIs, Current, ActIs DEF Typed
<1>7. op = Idle /\ pc.i = "code" /\ Intact /\ sp = w /\ x.at = w /\ x.k = "start"
  BY <1>1, <1>6 DEF Guest, OpOK, Idle
<1> HIDE DEF w
<1>8. StartOK(stack, Depth, Act, Now, n) /\ x \in Starts
  <2>1. ItemOK(stack, Depth, Act, Now, n)
    BY <1>6 DEF ItemsOK
  <2>2. x.k = "start" => StartOK(stack, Depth, Act, Now, n)
    BY <1>6, <2>1 DEF ItemOK
  <2> QED BY <1>6, <1>7, <2>2, ItemType
<1> DEFINE o == Act.open
<1> HIDE DEF n
<1>9. Last(Act.open, n, "start") = {n} /\ Kinds(Act.open, n, "start") # {}
  <2>1. Act.open[n].k = "start"
    BY <1>6, <1>7
  <2> QED BY <1>6, <2>1, LastOfAll
<1>10. continuation = Code(Depth + 1) /\ (control.extra <=> x.at = x.sp + 3)
  BY <1>6, <1>9 DEF ContinuationAt, ControlAt
<1>11. x.at = x.sp + 2 \/ x.at = x.sp + 3
  BY <1>6, <1>8 DEF StartOK
<1>12. x.sp \in Nat /\ x.continuation \in PCs /\ x.control \in Controls
  BY <1>8 DEF Starts
<1> HIDE DEF x
<1>13. w - 1 - b = x.sp + 1
  <2>1. CASE control.extra
    <3>1. b = 1 /\ w = x.sp + 3
      BY <1>7, <1>10, <2>1 DEF b
    <3> QED BY <1>12, <3>1
  <2>2. CASE ~control.extra
    <3>1. b = 0 /\ w = x.sp + 2
      BY <1>7, <1>10, <1>11, <2>2 DEF b
    <3> QED BY <1>12, <3>1
  <2> QED BY <2>1, <2>2
<1>14. b \in Int
  BY DEF b
<1>15. top = w + args /\ op2 = w + args + 1 /\ op1 = x.sp + 1
  <2>1. top = w + args /\ op2 = w + args + 1
    BY <1>7 DEF top, op2
  <2>2. op1 = (w + args) - (args + 1) - b
    BY <2>1 DEF op1
  <2>3. (w + args) - (args + 1) - b = w - 1 - b
    BY <1>6, <1>14
  <2> QED BY <1>13, <2>1, <2>2, <2>3
<1>16. /\ sp' = w + args /\ fp' = x.sp + 1 /\ lp' = w + args + 1
       /\ control' = Fresh(control, lp' - fp', fp' - fp, disp)
  BY <1>2, <1>15
<1>17. s \in Saved
  BY <1>6, <1>12 DEF Typed, Registers, Saved
<1>18. w + args <= MaxWords
  BY <1>1 DEF Room, w
<1>19. acts' = Append([acts EXCEPT ![Depth].open = SubSeq(@, 1, n - 1)],
                 [open |-> <<>>, bsp |-> Len(bindings), saved |-> s])
  BY <1>3, <1>6 DEF Closed, n, x
<1>20. Code(Depth + 1) = pc'
  BY <1>4, <1>10
<1> QED BY <1>1, <1>4, <1>5, <1>6, <1>7, <1>8, <1>16, <1>17, <1>18, <1>19, <1>20 DEF n, x, w

LEMMA FinishCallInv ==
    ASSUME Typed, FramesOK, OpOK, BindsOK, NEW args \in Nat, NEW disp \in Dispositions,
           FinishCall(args, disp)
    PROVE  Typed' /\ FramesOK' /\ OpOK' /\ BindsOK'
<1> DEFINE n == Len(Open)
           m == n - 1
           x == Open[n]
           w == Len(stack)
           D == Depth
           s == [fp |-> fp, lp |-> lp, sp |-> x.sp, continuation |-> x.continuation,
                 control |-> x.control, pc |-> pc, catch |-> CatchBlockPointer]
           b == [acts EXCEPT ![Depth].open = SubSeq(@, 1, n - 1)]
           a1 == acts'[D]
           a == acts'[D + 1]
           r == Now'
<1>1. /\ n \in Nat /\ n > 0 /\ x \in Starts /\ x.k = "start"
      /\ StartOK(stack, D, Act, Now, n) /\ x.at = w
      /\ s \in Saved /\ Intact /\ pc.i = "code" /\ op = Idle
      /\ w \in Nat /\ w + args <= MaxWords
      /\ sp' = w + args /\ fp' = x.sp + 1 /\ lp' = w + args + 1
      /\ control' = Fresh(control, lp' - fp', fp' - fp, disp)
      /\ stack' = stack \o Values(args) /\ pc' = Code(D + 1) /\ continuation' = pc
      /\ acts' = Append(b, [open |-> <<>>, bsp |-> Len(bindings), saved |-> s])
      /\ (disp = "return" => Started = {n})
      /\ UNCHANGED <<CatchBlockPointer, bindings, cells, op>>
  BY FinishCallIs
<1>2. /\ s.fp = fp /\ s.lp = lp /\ s.sp = x.sp /\ s.continuation = x.continuation
      /\ s.control = x.control /\ s.pc = pc /\ s.catch = CatchBlockPointer
  OBVIOUS
<1> HIDE DEF s, w, b, r
<1>3. /\ fp \in Nat /\ fp + 1 <= w /\ Open = Act.open /\ ItemsOK(stack, D, Act, Now)
      /\ Now.fp = fp /\ Now.sp = w /\ Now.control = control /\ lp = fp + control.args
      /\ CatchAt(D, Act, n, CatchBlockPointer) /\ ActOK(stack, D, Act, Now)
      /\ D \in Nat \ {0} /\ Act = acts[D] /\ D \in 1 .. D
      /\ Open \in Seq(Items) /\ ActsTyped /\ Act \in Activations
  BY Current, ActIs DEF Typed, w
<1>4. /\ x.sp \in Nat /\ x.sp >= fp + 1 /\ x.sp + 2 <= w
      /\ x.continuation \in PCs /\ x.control \in Controls
  <2>1. x.sp \in Nat /\ x.continuation \in PCs /\ x.control \in Controls
    BY <1>1 DEF Starts
  <2>2. x.sp >= fp + 1 /\ (x.at = x.sp + 2 \/ x.at = x.sp + 3)
    BY <1>1, <1>3 DEF StartOK
  <2> HIDE DEF x
  <2> QED BY <1>1, <2>1, <2>2
<1>5. /\ stack[x.sp + 1] = PC(x.continuation) /\ stack[x.sp + 2] = Control(x.control)
      /\ ContinuationAt(D, Act, m, x.continuation) /\ ControlAt(Act, m, x.control)
      /\ x.control.args = control.args /\ x.control.frame = control.frame
      /\ x.control.disp = control.disp
      /\ (Kinds(Act.open, m, "bind") # {} => x.control.bind)
      /\ \A j \in 1 .. m : Act.open[j].at <= x.sp
  BY <1>1, <1>3, Zenon DEF StartOK
<1>6. m \in Nat /\ m <= n /\ n \in 1 .. n /\ m + 1 = n
  BY <1>1
<1> HIDE DEF x
(* The stack. *)
<1>7. /\ stack' \in Seq(Words) /\ Len(stack') = w + args
      /\ \A j \in 1 .. w : stack'[j] = stack[j]
  <2> DEFINE t == Values(args)
  <2>1. t \in Seq(Words) /\ Len(t) = args
    BY ValuesType
  <2> HIDE DEF t, Words
  <2>2. stack \in Seq(Words)
    BY DEF Typed, StackTyped
  <2>3. /\ stack \o t \in Seq(Words) /\ Len(stack \o t) = Len(stack) + Len(t)
        /\ \A j \in 1 .. Len(stack) : (stack \o t)[j] = stack[j]
    BY <2>1, <2>2, Joined
  <2> QED BY <1>1, <2>1, <2>3 DEF t, w
(* The activations. *)
<1>8. /\ b \in Seq(Activations) /\ Len(b) = D
      /\ \A d \in 1 .. D - 1 : b[d] = acts[d]
      /\ b[D].saved = Act.saved /\ Len(b[D].open) = m
      /\ \A j \in 1 .. m : b[D].open[j] = Open[j]
      /\ \A d \in 1 .. D : b[d].bsp = acts[d].bsp /\ b[d].saved = acts[d].saved
  <2> DEFINE o == SubSeq(Open, 1, m)
             y == [acts[D] EXCEPT !.open = o]
  <2>1. o \in Seq(Items) /\ Len(o) = m /\ \A j \in 1 .. m : o[j] = Open[j]
    <3> HIDE DEF Items
    <3>1. m <= Len(Open)
      BY <1>6
    <3> QED BY <1>3, <1>6, <3>1, Cut
  <2> HIDE DEF o
  <2>2. b = [acts EXCEPT ![D] = y]
    BY <1>3 DEF b, o
  <2>3. y \in Activations /\ y.open = o /\ y.saved = acts[D].saved /\ y.bsp = acts[D].bsp
    BY <1>3, <2>1 DEF Activations
  <2> HIDE DEF y
  <2>4. acts \in Seq(Activations) /\ D = Len(acts)
    BY DEF Typed, ActsTyped, Depth
  <2> HIDE DEF D, m, n, Activations
  <2>5. /\ b \in Seq(Activations) /\ Len(b) = Len(acts)
        /\ \A j \in 1 .. Len(acts) : b[j] = IF j = D THEN y ELSE acts[j]
    <3>1. LET c == [acts EXCEPT ![D] = y]
          IN /\ c \in Seq(Activations) /\ Len(c) = Len(acts)
             /\ \A j \in 1 .. Len(acts) : c[j] = IF j = D THEN y ELSE acts[j]
      BY <1>3, <2>3, <2>4, ExceptSeq
    <3> QED BY <2>2, <3>1
  <2>6. b[D] = y /\ \A d \in 1 .. D - 1 : b[d] = acts[d]
    BY <1>3, <2>4, <2>5
  <2>7. \A d \in 1 .. D : b[d].bsp = acts[d].bsp /\ b[d].saved = acts[d].saved
    BY <2>3, <2>4, <2>5
  <2> QED BY <1>3, <2>1, <2>3, <2>4, <2>5, <2>6, <2>7
<1>9. /\ ActsTyped' /\ Depth' = D + 1
      /\ \A d \in 1 .. D : acts'[d] = b[d]
      /\ a.open = <<>> /\ a.saved = s
      /\ (BindsOK /\ UNCHANGED bindings /\ ~(op'.in \in {"close", "unwind"})
          /\ (Len(bindings) > Act.bsp => s.control.bind)) => BindsOK'
  BY <1>1, <1>8, Activated
<1>10. /\ a1.saved = Act.saved /\ Len(a1.open) = m
       /\ \A j \in 1 .. m : a1.open[j] = Act.open[j]
  <2>1. a1 = b[D]
    <3>1. D \in 1 .. D
      BY <1>3
    <3> QED BY <1>9, <3>1
  <2>2. Open = Act.open
    BY <1>3
  <2> QED BY <1>8, <2>1, <2>2
<1> HIDE DEF a, a1, m, n, D
(* The registers. *)
<1>11. /\ control' \in Controls /\ control'.args = lp' - fp' /\ control'.frame = fp' - fp
       /\ control'.disp = disp /\ ~control'.catch /\ ~control'.extra
  <2> DEFINE y == lp' - fp'
             z == fp' - fp
  <2>0. lp' \in Int /\ fp' \in Int /\ fp \in Int
    <3>1. w \in Nat /\ fp' = x.sp + 1 /\ lp' = w + args + 1
      BY <1>1
    <3>2. x.sp \in Nat /\ fp \in Nat
      BY <1>3, <1>4
    <3> QED BY <3>1, <3>2
  <2>1. control' = Fresh(control, y, z, disp) /\ y \in Int /\ z \in Int /\ control \in Controls
    <3>1. y \in Int /\ z \in Int
      BY <2>0
    <3>2. control' = Fresh(control, y, z, disp)
      BY <1>1
    <3> QED BY <3>1, <3>2 DEF Typed, Registers
  <2> HIDE DEF y, z
  <2>2. /\ control' \in Controls /\ control'.args = y /\ control'.frame = z
        /\ control'.disp = disp /\ ~control'.catch /\ ~control'.extra
    BY <2>1 DEF Fresh, Controls
  <2> QED BY <2>2 DEF y, z
<1>12. pc' \in PCs /\ pc'.i = "code"
  BY <1>1, <1>3, CodeIs
<1>13. Typed'
  <2>1. continuation' \in PCs /\ op' \in {Idle} \cup Unbinds \cup Closes \cup Returns
    BY <1>1 DEF Typed, Registers
  <2>2. sp' \in Nat /\ fp' \in Nat /\ lp' \in Int /\ CatchBlockPointer' \in Nat
    <3>1. w \in Nat /\ x.sp \in Nat
      BY <1>1, <1>4
    <3>2. sp' = w + args /\ fp' = x.sp + 1 /\ lp' = w + args + 1
      BY <1>1
    <3>3. CatchBlockPointer' \in Nat
      BY <1>1 DEF Typed, Registers
    <3> QED BY <3>1, <3>2, <3>3
  <2>3. Registers'
    BY <1>11, <1>12, <2>1, <2>2 DEF Registers
  <2>4. BindingsTyped' /\ StackTyped'
    BY <1>1, <1>7 DEF Typed, BindingsTyped, StackTyped
  <2> QED BY <1>9, <2>3, <2>4 DEF Typed
(* The frame that called. *)
<1>14. FrameOK(stack', D, a1, s)
  <2>1. FrameOK(stack, D, Act, Now)
    BY <1>3 DEF ActOK
  <2>2. /\ s.fp = Now.fp /\ s.control.frame = Now.control.frame
        /\ s.fp >= 1 /\ s.fp + 1 <= s.sp /\ s.lp = s.fp + s.control.args
    BY <1>2, <1>3, <1>4, <1>5, <2>1 DEF FrameOK
  <2>3. stack'[s.fp] = stack[s.fp] /\ stack'[s.fp + 1] = stack[s.fp + 1]
    <3>1. s.fp \in 1 .. w /\ s.fp + 1 \in 1 .. w
      BY <1>1, <1>2, <1>3, <2>2
    <3> QED BY <1>7, <3>1
  <2> QED BY <1>10, <2>1, <2>2, <2>3 DEF FrameOK
<1>15. ItemsOK(stack', D, a1, s)
  <2> DEFINE v == x.sp
             st == stack'
  <2>1. \A j \in 1 .. v : st[j] = stack[j]
    <3>1. \A j \in 1 .. v : j \in 1 .. w
      BY <1>1, <1>4
    <3> QED BY <1>7, <3>1
  <2>2. v \in Nat /\ v <= s.sp /\ s.sp \in Nat
    BY <1>2, <1>4
  <2>3. m <= Len(Act.open) /\ Act.open \in Seq(Items) /\ m \in Nat
    BY <1>3, <1>6 DEF n
  <2>4. /\ s.control.args = Now.control.args /\ s.control.frame = Now.control.frame
        /\ s.control.disp = Now.control.disp /\ s.fp = Now.fp /\ Now.fp \in Nat
    BY <1>2, <1>3, <1>5
  <2>5. \A j \in 1 .. m : Act.open[j].at <= v
    BY <1>5
  <2>6. ItemsOK(stack, D, Act, Now)
    BY <1>3
  <2> HIDE DEF v, st
  <2>7. \A j \in 1 .. m : ItemOK(st, D, a1, s, j)
    BY <1>10, <2>1, <2>2, <2>3, <2>4, <2>5, <2>6, ItemsSame
  <2> QED BY <1>10, <2>7 DEF ItemsOK, st
<1>16. RightAt(D, a1, s)
  <2>1. /\ ContinuationAt(D, a1, m, x.continuation) /\ ControlAt(a1, m, x.control)
    BY <1>5, <1>10, RightSame
  <2>2. CatchAt(D, a1, m, CatchBlockPointer)
    <3>1. Act.open[n].k # "catch"
      BY <1>1, <1>3 DEF x
    <3>2. \A j \in m + 1 .. n : Act.open[j].k # "catch"
      BY <1>6, <3>1
    <3>3. m \in Nat /\ n \in Nat /\ m <= n
      BY <1>1, <1>6
    <3>4. CatchAt(D, Act, m, CatchBlockPointer)
      BY <1>3, <3>2, <3>3, RightDrop
    <3> QED BY <1>10, <3>4, RightSame
  <2>3. Fits(a1.open, m, s.fp, s.sp, s.pc)
    BY <1>1, <1>2, CodeFits
  <2> QED BY <1>2, <1>10, <2>1, <2>2, <2>3 DEF RightAt
(* The frame that is entered. *)
<1>17. /\ r.fp = fp' /\ r.sp = w + args /\ r.lp = lp' /\ r.control = control'
       /\ r.continuation = pc /\ r.catch = CatchBlockPointer /\ r.pc = pc'
  BY <1>1, <1>7 DEF Now, r
<1>18. ActOK(stack', D + 1, a, r)
  <2>1. /\ r.fp \in Nat /\ r.fp = s.sp + 1 /\ r.fp + 1 <= r.sp
    <3>1. x.sp + 1 \in Nat /\ x.sp + 1 + 1 <= w + args
      <4>1. w \in Nat /\ x.sp \in Nat /\ x.sp + 2 <= w
        BY <1>1, <1>4
      <4> QED BY <4>1, SMTT(30)
    <3> QED BY <1>1, <1>2, <1>17, <3>1
  <2>2. r.lp = r.fp + r.control.args /\ r.control.frame = r.fp - s.fp
    <3>1. fp' \in Nat /\ lp' \in Int
      BY <1>13 DEF Typed, Registers
    <3> QED BY <1>2, <1>11, <1>17, <3>1
  <2>3. /\ ~r.control.catch /\ ~r.control.extra /\ r.continuation = s.pc
        /\ r.catch = s.catch /\ r.pc.i = "code"
    BY <1>2, <1>11, <1>12, <1>17
  <2>4. stack'[r.fp] = PC(s.continuation) /\ stack'[r.fp + 1] = Control(s.control)
    <3>1. r.fp = x.sp + 1
      BY <1>1, <1>17
    <3>2. x.sp + 1 + 1 = x.sp + 2 /\ x.sp + 1 \in 1 .. w /\ x.sp + 2 \in 1 .. w
      <4>1. w \in Nat /\ x.sp \in Nat /\ x.sp + 2 <= w
        BY <1>1, <1>4
      <4> QED BY <4>1
    <3>3. r.fp + 1 = x.sp + 2
      BY <3>1, <3>2
    <3>4. stack'[x.sp + 1] = PC(x.continuation) /\ stack'[x.sp + 2] = Control(x.control)
      BY <1>5, <1>7, <3>2
    <3> QED BY <1>2, <3>1, <3>3, <3>4
  <2>5. D + 1 \in Nat /\ D + 1 > 1 /\ a.open = <<>> /\ a.saved = s /\ s \in Saved
    BY <1>1, <1>3, <1>9
  <2> DEFINE d == D + 1
             st == stack'
  <2> HIDE DEF d, st
  <2>6. ActOK(st, d, a, r)
    BY <2>1, <2>2, <2>3, <2>4, <2>5, Entered DEF d, st
  <2> QED BY <2>6 DEF d, st
<1>19. FramesOK'
  <2>1. Depth' = Depth + 1 /\ \A d \in 1 .. Depth - 1 : acts'[d] = acts[d]
    <3>1. \A d \in 1 .. D - 1 : d \in 1 .. D
      BY <1>3
    <3>2. Depth' = D + 1 /\ \A d \in 1 .. D - 1 : acts'[d] = acts[d]
      BY <1>8, <1>9, <3>1
    <3> QED BY <3>2 DEF D
  <2>2. /\ acts'[Depth].saved = Act.saved /\ acts'[Depth + 1].saved = s /\ s \in Saved
        /\ ActOK(stack', Depth, acts'[Depth], s)
        /\ ActOK(stack', Depth + 1, acts'[Depth + 1], Now')
    BY <1>1, <1>9, <1>10, <1>14, <1>15, <1>16, <1>18 DEF ActOK, D, a, a1, r
  <2>3. /\ s.fp = fp /\ s.control.disp = control.disp /\ s.sp >= fp /\ fp' > s.sp /\ fp' \in Nat
    <3>1. x.sp >= fp /\ x.sp + 1 > x.sp /\ x.sp + 1 \in Nat
      BY <1>3, <1>4
    <3>2. fp' = x.sp + 1 /\ s.sp = x.sp
      BY <1>1, <1>2
    <3> QED BY <1>2, <1>5, <3>1, <3>2
  <2>4. \A j \in 1 .. fp : stack'[j] = stack[j]
    <3>1. \A j \in 1 .. fp : j \in 1 .. w
      BY <1>1, <1>3
    <3> QED BY <1>7, <3>1
  <2>5. control'.disp = "return" => Kinds(acts'[Depth].open, Len(acts'[Depth].open), "start") = {}
    <3> SUFFICES ASSUME control'.disp = "return" PROVE Kinds(a1.open, Len(a1.open), "start") = {}
      BY DEF a1, D
    <3>1. Started = {n}
      BY <1>1, <1>11
    <3>2. \A j \in 1 .. m : a1.open[j].k # "start"
      <4> TAKE j \in 1 .. m
      <4>1. j \in 1 .. Len(Open) /\ j # n
        BY <1>1, <1>6 DEF n
      <4>2. Open[j].k # "start"
        BY <3>1, <4>1 DEF Started
      <4> QED BY <1>3, <1>10, <4>2
    <3> QED BY <1>10, <3>2 DEF Kinds
  <2> QED BY <2>1, <2>2, <2>3, <2>4, <2>5, Calls
<1>20. op'.in = "idle"
  BY <1>1 DEF Idle
<1>21. OpOK'
  BY <1>1, <1>7, <1>20 DEF OpOK
<1>22. BindsOK'
  <2>1. Len(bindings) > Act.bsp => s.control.bind
    <3> SUFFICES ASSUME Len(bindings) > Act.bsp PROVE x.control.bind
      BY <1>2
    <3>1. Bound # {}
      BY <1>1, IntactIs
    <3>2. PICK j \in 1 .. n : Open[j].k = "bind"
      BY <3>1 DEF Bound, n
    <3>3. j # n
      BY <1>1, <3>2 DEF x
    <3>4. j \in 1 .. m
      BY <1>1, <1>6, <3>3
    <3> QED BY <1>3, <1>5, <3>2, <3>4 DEF Kinds
  <2> QED BY <1>1, <1>9, <1>20, <2>1
<1> QED BY <1>13, <1>19, <1>21, <1>22

-----------------------------------------------------------------------------
(* What a return finds in its frame that has nothing left to clean up:     *)
(* the registers of the activation it goes back to.                        *)
LEMMA ReturnFinds ==
    ASSUME Typed, FramesOK, OpOK, op.in = "return", CleanedUp, Depth > 1
    PROVE  LET s == Act.saved
           IN /\ s \in Saved /\ R(Depth - 1) = s /\ ActOK(stack, Depth - 1, acts[Depth - 1], s)
              /\ fp = s.sp + 1 /\ s.sp \in Nat /\ s.fp \in Nat /\ s.fp + 1 <= s.sp
              /\ stack[fp].pc = s.continuation /\ stack[fp + 1].c = s.control
              /\ fp - control.frame = s.fp /\ s.lp = s.fp + s.control.args
              /\ continuation = s.pc /\ CatchBlockPointer = s.catch
              /\ pc.i = "return" /\ pc.n \in Nat /\ Kinds(Open, Len(Open), "start") = {}
              /\ Kinds(Open, Len(Open), "catch") = {}
              /\ Len(stack) - pc.n >= fp + 1
<1> DEFINE D == Depth
           s == Act.saved
<1>1. /\ fp \in Nat /\ ActOK(stack, D, Act, Now)
      /\ Now.fp = fp /\ Now.control = control /\ D \in Nat \ {0} /\ Act = acts[D]
      /\ ContinuationAt(D, Act, Len(Open), continuation)
      /\ CatchAt(D, Act, Len(Open), CatchBlockPointer) /\ ControlAt(Act, Len(Open), control)
      /\ Fits(Open, Len(Open), fp, Len(stack), pc) /\ Open = Act.open
  BY Current, ActIs DEF Typed
<1>2. pc.i = "return" /\ pc.n \in Nat
  BY PCType DEF OpOK, Typed, Registers
<1>3. Kinds(Open, Len(Open), "start") = {} /\ Len(stack) - pc.n >= fp + 1
  BY <1>1, <1>2 DEF Fits
<1>4. continuation = Ret(D, Act)
  BY <1>1, <1>3 DEF ContinuationAt
<1>5. Kinds(Open, Len(Open), "catch") = {}
  BY <1>1 DEF ControlAt, CleanedUp
<1>6. CatchBlockPointer = Outer(D, Act)
  BY <1>1, <1>5 DEF CatchAt
<1>7. continuation = s.pc /\ CatchBlockPointer = s.catch
  BY <1>1, <1>4, <1>6 DEF Ret, Outer
<1>8. s \in Saved
  BY <1>1 DEF Typed, ActsTyped
<1>9. /\ stack[fp] = PC(s.continuation) /\ stack[fp + 1] = Control(s.control)
      /\ fp = s.sp + 1 /\ control.frame = fp - s.fp
  BY <1>1 DEF ActOK, FrameOK
<1>10. s.sp \in Nat /\ s.fp \in Nat
  BY <1>8 DEF Saved
<1>11. D - 1 \in 1 .. D /\ D - 1 # D /\ D - 1 + 1 = D
  BY <1>1
<1>12. R(D - 1) = s
  BY <1>1, <1>11 DEF R
<1>13. ActOK(stack, D - 1, acts[D - 1], s)
  BY <1>11, <1>12 DEF FramesOK
<1>14. s.fp + 1 <= s.sp /\ s.lp = s.fp + s.control.args
  BY <1>13 DEF ActOK, FrameOK
<1>15. fp - control.frame = s.fp
  BY <1>1, <1>9, <1>10
<1>16. stack[fp].pc = s.continuation /\ stack[fp + 1].c = s.control
  BY <1>9 DEF PC, Control
<1> QED BY <1>2, <1>3, <1>5, <1>7, <1>8, <1>9, <1>10, <1>12, <1>13, <1>14, <1>15, <1>16

(* The words it pushes: no more than there are above the frame's own.      *)
LEMMA ReturnedIs ==
    ASSUME Typed, FramesOK, OpOK, op.in = "return", NEW disp \in Dispositions
    PROVE  LET t == Returned(disp, pc.n)
           IN /\ t \in Seq(Words) /\ Len(t) \in Nat
              /\ Len(t) <= pc.n + 1 /\ fp - 1 + Len(t) <= Len(stack)
              /\ disp = "return" => /\ Len(t) <= pc.n
                                    /\ pc.k = "multiple" => Len(t) = pc.n
<1> DEFINE n == pc.n
           a == sp - n + 1
           block == SubSeq(stack, a, sp)
           first == IF n = 0 THEN NIL
                    ELSE IF pc.k = "single" THEN op.scratch ELSE block[1]
           t == Returned(disp, n)
<1>1. /\ fp \in Nat /\ fp >= 1 /\ fp + 1 <= Len(stack) /\ Len(stack) \in Nat
      /\ sp \in Nat /\ sp <= Len(stack) /\ sp >= fp + 1
      /\ (pc.k = "multiple" => sp - pc.n >= fp + 1)
  BY Current DEF OpOK, Typed, Registers
<1>2. /\ n \in Nat /\ pc.k \in {"single", "multiple"} /\ (pc.k = "single" => n = 1)
  BY PCType DEF OpOK, Typed, Registers
<1>3. op.scratch \in Words
  <2>1. op \in Returns
    BY OpType DEF Typed, Registers
  <2> HIDE DEF Words
  <2> QED BY <2>1 DEF Returns
<1> HIDE DEF n
<1>4. a \in Int /\ a >= 1 /\ sp - a + 1 = n
  <2>1. CASE pc.k = "single"
    BY <1>1, <1>2, <2>1
  <2>2. CASE pc.k = "multiple"
    <3>1. sp - n >= fp + 1
      BY <1>1, <2>2 DEF n
    <3> QED BY <1>1, <1>2, <3>1
  <2> QED BY <1>2, <2>1, <2>2
<1>5. block \in Seq(Words) /\ Len(block) = n
  <2>1. stack \in Seq(Words)
    BY DEF Typed, StackTyped
  <2> HIDE DEF a, Words
  <2>2. \A i \in a .. sp : stack[i] \in Words
    <3> TAKE i \in a .. sp
    <3>1. i \in 1 .. Len(stack)
      BY <1>1, <1>4
    <3> QED BY <2>1, <3>1, ElementOfSeq
  <2>3. sp \in Int
    BY <1>1
  <2>4. /\ block \in Seq(Words)
        /\ Len(block) = IF a <= sp THEN sp - a + 1 ELSE 0
    BY <1>4, <2>2, <2>3, SubSeqProperties
  <2>5. ~(a <= sp) => n = 0
    BY <1>1, <1>2, <1>4
  <2> QED BY <1>4, <2>4, <2>5
<1>6. first \in Words
  <2>1. CASE n = 0
    BY <2>1 DEF NIL, Value, Words, Plain
  <2>2. CASE n # 0 /\ pc.k = "single"
    BY <1>3, <2>2
  <2>3. CASE n # 0 /\ pc.k # "single"
    <3> HIDE DEF block, Words
    <3>1. 1 \in 1 .. Len(block)
      BY <1>2, <1>5, <2>3
    <3>2. block[1] \in Words
      BY <1>5, <3>1, ElementOfSeq
    <3> QED BY <2>3, <3>2
  <2> QED BY <2>1, <2>2, <2>3
<1>7. t = CASE disp = "effect"   -> <<>>
            [] disp = "value"    -> <<first>>
            [] disp = "multiple" ->
                 (IF pc.k = "single" THEN <<first>> ELSE block) \o <<Value(n)>>
            [] disp = "return"   -> IF pc.k = "single" THEN <<>> ELSE block
  BY Zenon DEF Returned
<1> HIDE DEF block, first, t, a
<1>8. Value(n) \in Words
  BY <1>2 DEF Value, Words, Plain
<1> HIDE DEF Words
<1>9. /\ <<>> \in Seq(Words) /\ Len(<<>>) = 0
      /\ <<first>> \in Seq(Words) /\ Len(<<first>>) = 1
      /\ <<Value(n)>> \in Seq(Words) /\ Len(<<Value(n)>>) = 1
  <2>1. <<>> \in Seq(Words) /\ Len(<<>>) = 0
    BY EmptySeq
  <2> QED BY <1>6, <1>8, <2>1
<1>10. /\ t \in Seq(Words) /\ Len(t) \in Nat /\ Len(t) <= n + 1
       /\ (pc.k = "single" => Len(t) <= 2)
       /\ (disp = "return" => (pc.k = "single" => Len(t) = 0) /\ (pc.k = "multiple" => Len(t) = n))
  <2>1. CASE disp = "effect"
    <3>1. t = <<>>
      BY <1>7, <2>1
    <3> QED BY <1>2, <1>9, <2>1, <3>1
  <2>2. CASE disp = "value"
    <3>1. t = <<first>>
      BY <1>7, <2>2
    <3> QED BY <1>2, <1>9, <2>2, <3>1
  <2>3. CASE disp = "multiple"
    <3> DEFINE h == IF pc.k = "single" THEN <<first>> ELSE block
               v == <<Value(n)>>
    <3>1. t = h \o v
      BY <1>7, <2>3
    <3>2. h \in Seq(Words) /\ Len(h) = n
      BY <1>2, <1>5, <1>9
    <3>3. v \in Seq(Words) /\ Len(v) = 1
      BY <1>9
    <3> HIDE DEF h, v
    <3>4. h \o v \in Seq(Words) /\ Len(h \o v) = Len(h) + Len(v)
      BY <3>2, <3>3, ConcatProperties
    <3> QED BY <1>2, <2>3, <3>1, <3>2, <3>3, <3>4
  <2>4. CASE disp = "return"
    <3>1. t = IF pc.k = "single" THEN <<>> ELSE block
      BY <1>7, <2>4
    <3> QED BY <1>2, <1>5, <1>9, <2>4, <3>1
  <2> QED BY <2>1, <2>2, <2>3, <2>4 DEF Dispositions
<1>11. fp - 1 + Len(t) <= Len(stack)
  <2>1. CASE pc.k = "single"
    BY <1>1, <1>10, <2>1
  <2>2. CASE pc.k = "multiple"
    <3>1. sp - n >= fp + 1
      BY <1>1, <2>2 DEF n
    <3> QED BY <1>1, <1>2, <1>10, <3>1
  <2> QED BY <1>2, <2>1, <2>2
<1>12. disp = "return" => Len(t) <= n /\ (pc.k = "multiple" => Len(t) = n)
  BY <1>2, <1>10
<1> QED BY <1>10, <1>11, <1>12 DEF t, n

(* The activation on the top of the stack is left, for one whose registers *)
(* have been brought back.                                                 *)
LEMMA Leaves ==
    ASSUME Typed, FramesOK, Depth > 1, acts' = SubSeq(acts, 1, Depth - 1),
           NEW s \in Saved, s = Act.saved,
           fp' = s.fp, lp' = s.lp, control' = s.control, continuation' = s.continuation,
           CatchBlockPointer' = s.catch, Len(stack') \in Nat, Len(stack') >= s.sp,
           \A j \in 1 .. s.sp : stack'[j] = stack[j],
           Fits(acts[Depth - 1].open, Len(acts[Depth - 1].open), s.fp, Len(stack'), pc')
    PROVE  /\ ActsTyped' /\ FramesOK' /\ Depth' = Depth - 1
           /\ \A d \in 1 .. Depth - 1 : acts'[d] = acts[d]
<1>0. PICK D \in Nat \ {0} : D = Depth
  BY DEF Typed, ActsTyped
<1>1. PICK E \in Nat \ {0} : E = D - 1
  BY <1>0
<1>2. D = E + 1 /\ E \in 1 .. D /\ D \in 1 .. D /\ Depth = D
  BY <1>0, <1>1
<1>3. Act = acts[D] /\ ActsTyped /\ acts \in Seq(Activations) /\ Len(acts) = D
  BY <1>0, ActIs DEF Typed, ActsTyped, Depth
<1>4. /\ acts' \in Seq(Activations) /\ Depth' = E
      /\ \A d \in 1 .. E : acts'[d] = acts[d]
  <2>1. E \in Nat /\ E <= Len(acts) /\ acts' = SubSeq(acts, 1, E)
    <3>1. E \in Nat /\ E <= D
      BY <1>1
    <3>2. E = Depth - 1
      BY <1>0, <1>1
    <3> QED BY <1>3, <3>1, <3>2
  <2> HIDE DEF Activations
  <2> QED BY <1>3, <2>1, Cut DEF Depth
<1>5. \A d \in 2 .. E : d \in 2 .. D /\ d \in 1 .. E
  BY <1>2
<1>6. ActsTyped'
  <2>1. \A d \in 2 .. E : acts'[d].saved \in Saved
    BY <1>2, <1>3, <1>4, <1>5 DEF ActsTyped
  <2> QED BY <1>4, <2>1 DEF ActsTyped
<1>7. \A d \in 1 .. E - 1 : d \in 1 .. D /\ d \in 1 .. E /\ d + 1 \in 2 .. E /\ d # E /\ d # D
  BY <1>2
<1>8. \A d \in 1 .. E - 1 : R(d)' = R(d) /\ R(d) = acts[d + 1].saved
  BY <1>2, <1>4, <1>5, <1>7 DEF R
<1>9. R(E) = s /\ R(E)' = Now'
  BY <1>2, <1>3, <1>4 DEF R
<1> DEFINE r == Now'
           a == acts[E]
           w == s.sp
           st == stack'
<1>10. /\ r.fp = s.fp /\ r.lp = s.lp /\ r.control = s.control /\ r.sp = Len(st)
       /\ r.continuation = s.continuation /\ r.catch = s.catch /\ r.pc = pc'
  BY DEF Now
<1>11. ActOK(stack, E, a, s) /\ a.open \in Seq(Items) /\ Len(a.open) \in Nat
  BY <1>2, <1>3, <1>9, ActType DEF FramesOK
<1>12. s.fp \in Nat /\ w \in Nat /\ s.fp >= 1 /\ s.fp + 1 <= w
  BY <1>11 DEF ActOK, FrameOK, Saved
<1>13. /\ Fits(a.open, Len(a.open), r.fp, r.sp, r.pc) /\ Len(st) \in Nat /\ Len(st) >= w
       /\ \A j \in 1 .. w : st[j] = stack[j]
  BY <1>2, <1>10
<1> HIDE DEF r, w, st
<1>14. ActOK(st, E, a, r)
  <2>1. FrameOK(st, E, a, r)
    <3>1. st[s.fp] = stack[s.fp] /\ st[s.fp + 1] = stack[s.fp + 1]
      BY <1>12, <1>13
    <3>2. r.fp + 1 <= r.sp
      BY <1>10, <1>12, <1>13
    <3> QED BY <1>10, <1>11, <3>1, <3>2 DEF ActOK, FrameOK
  <2>2. ItemsOK(st, E, a, r)
    <3> DEFINE n == Len(a.open)
    <3>1. ItemsOK(stack, E, a, s) /\ n \in Nat /\ n <= Len(a.open)
      BY <1>11 DEF ActOK
    <3>2. \A m \in 1 .. n : a.open[m].at <= w
      BY <3>1 DEF ItemsOK, ItemOK, w
    <3>3. /\ r.fp = s.fp /\ s.fp \in Nat /\ w <= r.sp /\ r.sp \in Nat
          /\ r.control.args = s.control.args /\ r.control.frame = s.control.frame
          /\ r.control.disp = s.control.disp
      BY <1>10, <1>12, <1>13
    <3> HIDE DEF n, a
    <3>4. \A m \in 1 .. n : ItemOK(st, E, a, r, m)
      BY <1>11, <1>12, <1>13, <3>1, <3>2, <3>3, ItemsSame
    <3> QED BY <3>4 DEF ItemsOK, n
  <2>3. RightAt(E, a, r)
    BY <1>10, <1>11, <1>13 DEF ActOK, RightAt
  <2> QED BY <2>1, <2>2, <2>3 DEF ActOK
<1>15. ASSUME NEW d \in 1 .. E - 1 PROVE ActOK(stack', d, acts'[d], R(d)')
  <2>1. ActOK(stack, d, acts[d], R(d)) /\ acts[d] \in Activations /\ R(d) \in Saved
    BY <1>2, <1>3, <1>7, ActType, RType DEF FramesOK
  <2>2. acts[d + 1].saved.sp < R(E).fp
    BY <1>2, <1>7 DEF FramesOK, Above
  <2>3. R(d).sp < s.fp /\ R(d).sp \in Nat
    BY <1>8, <1>9, <2>1, <2>2 DEF Saved
  <2>4. \A j \in 1 .. R(d).sp : stack'[j] = stack[j]
    <3>1. \A j \in 1 .. R(d).sp : j \in 1 .. w
      BY <1>12, <2>3
    <3> QED BY <1>13, <3>1 DEF st
  <2>5. ActOK(stack', d, acts[d], R(d))
    BY <2>1, <2>4, ActSame
  <2> QED BY <1>4, <1>7, <1>8, <2>5
<1>16. \A d \in 1 .. E : ActOK(stack', d, acts'[d], R(d)')
  <2> TAKE d \in 1 .. E
  <2>1. d = E \/ d \in 1 .. E - 1
    BY <1>1
  <2>2. acts'[E] = acts[E]
    <3>1. E \in 1 .. E
      BY <1>1
    <3> QED BY <1>4, <3>1
  <2> QED BY <1>9, <1>14, <1>15, <2>1, <2>2 DEF r, st
<1>17. Above'
  <2>1. \A e \in 1 .. E : R(e)'.fp = R(e).fp
    <3> TAKE e \in 1 .. E
    <3>1. e = E \/ e \in 1 .. E - 1
      BY <1>1
    <3> QED BY <1>8, <1>9, <1>10, <3>1 DEF r
  <2>2. ASSUME NEW e \in 1 .. E, NEW d \in 2 .. e PROVE acts'[d].saved.sp < R(e)'.fp
    <3>1. d \in 1 .. E /\ e \in 1 .. D
      BY <1>2
    <3>2. acts[d].saved.sp < R(e).fp
      BY <1>2, <3>1 DEF FramesOK, Above
    <3> QED BY <1>4, <2>1, <3>1, <3>2
  <2> QED BY <1>4, <2>2 DEF Above
<1>18. Passing'
  <2>1. ASSUME NEW d \in 2 .. E, R(d)'.control.disp = "return"
        PROVE  Kinds(acts'[d - 1].open, Len(acts'[d - 1].open), "start") = {}
    <3>1. R(d)'.control = R(d).control
      <4>1. d = E \/ d \in 1 .. E - 1
        BY <1>1
      <4> QED BY <1>8, <1>9, <1>10, <4>1 DEF r
    <3>2. d \in 2 .. D /\ d - 1 \in 1 .. E /\ R(d).control.disp = "return"
      BY <1>2, <2>1, <3>1
    <3> QED BY <1>2, <1>4, <3>2 DEF FramesOK, Passing
  <2> QED BY <1>4, <2>1 DEF Passing
<1>19. FramesOK'
  BY <1>4, <1>16, <1>17, <1>18 DEF FramesOK
<1> QED BY <1>1, <1>2, <1>4, <1>6, <1>19

(* Its bindings have been undone. *)
LEMMA LeavesBindings ==
    ASSUME Typed, BindsOK, Depth > 1, ~control.bind, UNCHANGED bindings,
           Depth' = Depth - 1, \A d \in 1 .. Depth - 1 : acts'[d] = acts[d],
           control' = Act.saved.control, ~(op'.in \in {"close", "unwind"})
    PROVE  BindsOK'
<1>0. PICK D \in Nat \ {0} : D = Depth
  BY DEF Typed, ActsTyped
<1>1. PICK E \in Nat \ {0} : E = D - 1
  BY <1>0
<1>2. D = E + 1 /\ E \in 1 .. D /\ D \in 1 .. D /\ Depth = D /\ Depth' = E
  BY <1>0, <1>1
<1>3. /\ Act = acts[D] /\ Len(bindings) \in Nat /\ Act' = acts[E]
      /\ \A d \in 1 .. D : acts[d].bsp \in Nat
  BY <1>2, ActIs, ActType, LenProperties DEF Typed, BindingsTyped, Act
<1>4. Len(bindings) <= acts[D].bsp
  BY <1>2, <1>3 DEF BindsOK
<1>5. Len(bindings) > acts[E].bsp => control'.bind
  <2> SUFFICES ASSUME Len(bindings) > acts[E].bsp PROVE acts[D].saved.control.bind
    BY <1>3
  <2>1. acts[E + 1].bsp > acts[E].bsp /\ E \in 1 .. Depth - 1
    BY <1>2, <1>3, <1>4
  <2> QED BY <1>2, <2>1 DEF BindsOK
<1>6. \A d \in 1 .. E - 1 : acts'[d + 1].bsp > acts'[d].bsp => acts'[d + 1].saved.control.bind
  <2>1. \A d \in 1 .. E - 1 : d \in 1 .. E /\ d + 1 \in 1 .. E
    BY <1>1
  <2> QED BY <1>2, <2>1 DEF BindsOK
<1>7. ASSUME NEW m \in 1 .. Len(bindings), NEW d \in 1 .. E, Own(d, m)', m > acts'[d].bsp + 1
      PROVE  bindings'[m].bind
  <2>1. acts'[d] = acts[d] /\ d \in 1 .. D
    BY <1>2
  <2>2. acts[d].bsp < m /\ \A e \in d + 1 .. E : acts'[e].bsp >= m
    BY <1>2, <1>7, <2>1 DEF Own
  <2>3. \A e \in d + 1 .. D : acts[e].bsp >= m
    <3> TAKE e \in d + 1 .. D
    <3>1. CASE e = D
      BY <1>3, <1>4, <3>1
    <3>2. CASE e # D
      <4>1. e \in d + 1 .. E /\ e \in 1 .. E
        BY <1>2, <3>2
      <4> QED BY <1>2, <2>2, <4>1
    <3> QED BY <3>1, <3>2
  <2>4. Own(d, m)
    BY <1>2, <2>2, <2>3 DEF Own
  <2> QED BY <1>2, <1>7, <2>1, <2>4 DEF BindsOK
<1> QED BY <1>2, <1>3, <1>5, <1>6, <1>7 DEF BindsOK

(* The frame is left: the registers that come back. *)
LEMMA LeaveFrameIs ==
    ASSUME Typed, FramesOK, OpOK, LeaveFrame
    PROVE  LET s == Act.saved
               disp == control.disp
               t == Returned(disp, pc.n)
           IN /\ op.in = "return" /\ CleanedUp /\ Depth > 1
              /\ acts' = SubSeq(acts, 1, Depth - 1)
              /\ fp' = s.fp /\ lp' = s.lp /\ control' = s.control
              /\ continuation' = s.continuation
              /\ CatchBlockPointer' = s.catch /\ sp' = s.sp + Len(t)
              /\ s.sp + Len(t) <= Len(stack) /\ s.sp <= Len(stack)
              /\ (disp # "return" => pc' = s.pc)
              /\ Len(t) \in Nat /\ Len(t) <= pc.n + 1
<1> DEFINE s == Act.saved
           disp == control.disp
           t == Returned(disp, pc.n)
           l == Len(stack)
<1>1. op.in = "return" /\ CleanedUp /\ Depth > 1
  BY DEF LeaveFrame
<1>2. /\ continuation' = stack[fp].pc /\ sp' = fp - 1 + Len(t) /\ fp' = fp - control.frame
      /\ lp' = CallerLocals(stack[fp + 1].c) /\ control' = stack[fp + 1].c
      /\ acts' = SubSeq(acts, 1, Depth - 1)
  BY Zenon DEF LeaveFrame
<1>3. UNCHANGED <<CatchBlockPointer, bindings, cells, traps>>
  BY Zenon DEF LeaveFrame
<1>4. disp # "return" => pc' = continuation
  BY Zenon DEF LeaveFrame
<1>5. /\ s \in Saved /\ fp = s.sp + 1 /\ s.sp \in Nat /\ s.fp \in Nat
      /\ stack[fp].pc = s.continuation /\ stack[fp + 1].c = s.control
      /\ fp - control.frame = s.fp /\ s.lp = s.fp + s.control.args
      /\ continuation = s.pc /\ CatchBlockPointer = s.catch
  BY <1>1, ReturnFinds
<1>6. disp \in Dispositions
  BY DEF Typed, Registers, Controls
<1>7. Len(t) \in Nat /\ fp - 1 + Len(t) <= l /\ Len(t) <= pc.n + 1
  BY <1>1, <1>6, ReturnedIs
<1>8. l \in Nat
  BY LenProperties DEF Typed, StackTyped
<1> HIDE DEF t, l
<1>9. /\ fp' = s.fp /\ control' = s.control /\ continuation' = s.continuation
      /\ CatchBlockPointer' = s.catch
  BY <1>2, <1>3, <1>5
<1>10. lp' = s.lp
  BY <1>2, <1>5 DEF CallerLocals
<1>11. s.sp \in Nat /\ fp = s.sp + 1 /\ sp' = fp - 1 + Len(t)
  BY <1>2, <1>5
<1>12. sp' = s.sp + Len(t) /\ s.sp + Len(t) <= l /\ s.sp <= l
  <2> HIDE DEF s
  <2>1. fp - 1 + Len(t) = s.sp + Len(t)
    BY <1>7, <1>11
  <2> QED BY <1>7, <1>8, <1>11, <2>1
<1> QED BY <1>1, <1>2, <1>4, <1>5, <1>7, <1>9, <1>10, <1>12 DEF t, l

LEMMA LeaveFrameInv ==
    ASSUME Typed, FramesOK, OpOK, BindsOK, LeaveFrame
    PROVE  Typed' /\ FramesOK' /\ OpOK' /\ BindsOK'
<1> DEFINE s == Act.saved
           disp == control.disp
           t == Returned(disp, pc.n)
           E == Depth - 1
           l == Len(stack)
<1>1. op.in = "return" /\ CleanedUp /\ Depth > 1
  BY DEF LeaveFrame
<1>2. /\ acts' = SubSeq(acts, 1, Depth - 1)
      /\ fp' = s.fp /\ lp' = s.lp /\ control' = s.control /\ continuation' = s.continuation
      /\ CatchBlockPointer' = s.catch /\ sp' = s.sp + Len(t)
      /\ s.sp + Len(t) <= l /\ s.sp <= l
  BY LeaveFrameIs
<1>3. UNCHANGED <<CatchBlockPointer, bindings, cells, traps>>
  BY Zenon DEF LeaveFrame
<1>4. disp = "return" =>
        /\ stack' = [a \in 1 .. Len(stack) |->
                       IF a \in fp .. sp' THEN t[a - fp + 1] ELSE stack[a]]
        /\ op' = [op EXCEPT !.hop = TRUE] /\ pc' = pc
  BY Zenon DEF LeaveFrame
<1>5. disp # "return" =>
        /\ stack' = SubSeq(stack, 1, fp - 1) \o t
        /\ op' = Idle /\ pc' = continuation
  BY Zenon DEF LeaveFrame
<1>6. /\ s \in Saved /\ R(E) = s /\ ActOK(stack, E, acts[E], s)
      /\ fp = s.sp + 1 /\ s.sp \in Nat /\ s.fp \in Nat /\ s.fp + 1 <= s.sp
      /\ continuation = s.pc
      /\ pc.i = "return" /\ pc.n \in Nat
      /\ Len(stack) - pc.n >= fp + 1
  BY <1>1, ReturnFinds
<1>7. control \in Controls /\ disp \in Dispositions /\ pc \in PCs
  BY DEF Typed, Registers, Controls
<1>8. /\ t \in Seq(Words) /\ Len(t) \in Nat /\ fp - 1 + Len(t) <= l
      /\ (disp = "return" => Len(t) <= pc.n /\ (pc.k = "multiple" => Len(t) = pc.n))
  BY <1>1, <1>7, ReturnedIs
<1> HIDE DEF t
<1>9. l \in Nat /\ l <= MaxWords /\ stack \in Seq(Words)
  BY LenProperties DEF Typed, StackTyped
<1> HIDE DEF l
<1>10. /\ fp' = s.fp /\ lp' = s.lp /\ control' = s.control /\ continuation' = s.continuation
       /\ CatchBlockPointer' = s.catch /\ sp' = s.sp + Len(t)
  BY <1>2
<1>a. s.sp \in Nat /\ fp = s.sp + 1 /\ s.fp \in Nat /\ s.fp + 1 <= s.sp
  BY <1>6
<1>b. Len(t) \in Nat /\ fp - 1 + Len(t) <= l
  BY <1>8
<1>11. s.sp + Len(t) <= l /\ s.sp <= l
  BY <1>2
(* The words, and the instruction that goes on. *)
<1>12. /\ stack' \in Seq(Words) /\ Len(stack') \in Nat /\ Len(stack') <= MaxWords
       /\ Len(stack') >= s.sp + Len(t)
       /\ \A j \in 1 .. s.sp : stack'[j] = stack[j]
       /\ (disp # "return" => Len(stack') = s.sp + Len(t))
       /\ (disp = "return" => Len(stack') = l)
  <2>1. CASE disp # "return"
    <3> DEFINE h == SubSeq(stack, 1, s.sp)
    <3>1. stack' = h \o t
      <4>1. fp - 1 = s.sp
        BY <1>6
      <4> QED BY <1>5, <2>1, <4>1
    <3>2. h \in Seq(Words) /\ Len(h) = s.sp /\ \A j \in 1 .. s.sp : h[j] = stack[j]
      <4> HIDE DEF Words
      <4>1. s.sp \in Nat /\ s.sp <= Len(stack)
        BY <1>6, <1>11 DEF l
      <4> QED BY <1>9, <4>1, Cut
    <3> HIDE DEF h, Words, s
    <3>3. h \in Seq(Words) /\ t \in Seq(Words)
      BY <1>8, <3>2
    <3>4. /\ h \o t \in Seq(Words) /\ Len(h \o t) = Len(h) + Len(t)
          /\ \A j \in 1 .. Len(h) : (h \o t)[j] = h[j]
      BY <3>3, Joined
    <3>5. /\ stack' \in Seq(Words) /\ Len(stack') = s.sp + Len(t)
          /\ \A j \in 1 .. s.sp : stack'[j] = stack[j]
      BY <3>1, <3>2, <3>4
    <3>6. s.sp + Len(t) \in Nat /\ s.sp + Len(t) <= MaxWords
      BY <1>a, <1>b, <1>9, <1>11, FramesAssumption DEF FramesAssumption
    <3> QED BY <2>1, <3>5, <3>6
  <2>2. CASE disp = "return"
    <3> DEFINE v == stack'
    <3>1. v = [a \in 1 .. l |-> IF a \in fp .. sp' THEN t[a - fp + 1] ELSE stack[a]]
      BY <1>4, <2>2 DEF l
    <3> HIDE DEF v, Words
    <3>2. ASSUME NEW a \in 1 .. l PROVE v[a] \in Words
      <4>1. CASE a \in fp .. sp'
        <5>1. a - fp + 1 \in 1 .. Len(t)
          <6>1. sp' = s.sp + Len(t)
            BY <1>10
          <6> HIDE DEF s
          <6> QED BY <1>a, <1>b, <4>1, <6>1
        <5>2. t[a - fp + 1] \in Words
          BY <1>8, <5>1, ElementOfSeq
        <5> QED BY <3>1, <4>1, <5>2
      <4>2. CASE ~(a \in fp .. sp')
        <5>1. stack[a] \in Words
          BY <1>9, ElementOfSeq DEF l
        <5> QED BY <3>1, <4>2, <5>1
      <4> QED BY <4>1, <4>2
    <3>3. v \in [1 .. l -> Words]
      BY <3>1, <3>2
    <3>4. v \in Seq(Words)
      BY <1>9, <3>3, SeqDef
    <3>5. Len(v) = l
      <4>1. DOMAIN v = 1 .. l
        BY <3>1
      <4>2. Len(v) \in Nat /\ DOMAIN v = 1 .. Len(v)
        BY <3>4, LenProperties
      <4> QED BY <1>9, <4>1, <4>2
    <3>6. ASSUME NEW j \in 1 .. s.sp PROVE v[j] = stack[j]
      <4>1. j \in 1 .. l /\ ~(j \in fp .. sp')
        BY <1>6, <1>9, <1>11
      <4> QED BY <3>1, <4>1
    <3> QED BY <1>9, <1>11, <2>2, <3>4, <3>5, <3>6 DEF v
  <2> QED BY <2>1, <2>2
<1>13. acts[E].open \in Seq(Items) /\ Len(acts[E].open) \in Nat
       /\ E \in 1 .. Depth /\ E + 1 = Depth /\ Depth \in 2 .. Depth
  <2>1. Depth \in Nat /\ ActsTyped
    BY ActIs DEF Typed
  <2>2. E \in 1 .. Depth /\ E + 1 = Depth /\ Depth \in 2 .. Depth
    BY <1>1, <2>1
  <2> HIDE DEF E
  <2> QED BY <2>1, <2>2, ActType
<1>14. Fits(acts[E].open, Len(acts[E].open), s.fp, Len(stack'), pc')
  <2> DEFINE o == acts[E].open
             n == Len(o)
  <2>1. CASE disp # "return"
    <3>1. pc' = s.pc
      BY <1>5, <1>6, <2>1
    <3>2. Fits(o, n, s.fp, s.sp, s.pc)
      BY <1>6 DEF ActOK, RightAt
    <3> DEFINE p == s.pc
    <3>3. p \in PCs
      BY <1>6 DEF Saved
    <3>4. n \in Nat /\ s.sp \in Int /\ Len(stack') \in Int /\ s.fp \in Int /\ Len(stack') >= s.sp
      <4>1. Len(stack') \in Int /\ Len(stack') >= s.sp + Len(t) /\ n \in Nat
        BY <1>12, <1>13
      <4> HIDE DEF s
      <4> QED BY <1>a, <1>b, <4>1
    <3> DEFINE z == Len(stack')
               y == s.sp
               f == s.fp
    <3> HIDE DEF p, n, o, z, y, f
    <3>5. (p.i = "return" => p.n \in Int) /\ (p.i = "unbind" => p.n \in Nat)
      BY <3>3, PCType
    <3>6. Fits(o, n, f, z, p)
      BY <3>2, <3>4, <3>5, FitsSame DEF p, z, y, f
    <3> QED BY <3>1, <3>6 DEF p, n, o, z, f
  <2>2. CASE disp = "return"
    <3>1. Kinds(o, n, "start") = {}
      <4>1. R(Depth).control.disp = "return"
        BY <2>2 DEF R, Now
      <4> QED BY <1>13, <4>1 DEF FramesOK, Passing
    <3>2. pc' = pc /\ Len(stack') = l
      BY <1>4, <1>12, <2>2
    <3>3. l - pc.n >= s.fp + 1
      BY <1>6, <1>9 DEF l
    <3> QED BY <1>6, <3>1, <3>2, <3>3 DEF Fits
  <2> QED BY <2>1, <2>2
<1>15. /\ ActsTyped' /\ FramesOK' /\ Depth' = E
       /\ \A d \in 1 .. E : acts'[d] = acts[d]
  <2>1. Len(stack') \in Nat /\ Len(stack') >= s.sp
    BY <1>6, <1>8, <1>12
  <2> QED BY <1>1, <1>2, <1>6, <1>10, <1>12, <1>14, <2>1, Leaves
<1>16. /\ op' \in {Idle} \cup Returns /\ (disp # "return" => op'.in = "idle")
       /\ (disp = "return" => op'.in = "return") /\ pc' \in PCs
  <2>1. CASE disp # "return"
    BY <1>5, <2>1 DEF Idle, Typed, Registers
  <2>2. CASE disp = "return"
    <3>1. op \in Returns
      BY <1>1, OpType DEF Typed, Registers
    <3> HIDE DEF Words
    <3>2. op' \in Returns /\ op'.in = "return"
      BY <1>4, <2>2, <3>1 DEF Returns
    <3> QED BY <1>4, <1>7, <2>2, <3>2
  <2> QED BY <2>1, <2>2
<1>17. Typed'
  <2>1. s.control \in Controls /\ s.continuation \in PCs /\ s.lp \in Int /\ s.catch \in Nat
    BY <1>6 DEF Saved
  <2>2. sp' \in Nat
    <3>1. sp' = s.sp + Len(t)
      BY <1>10
    <3> HIDE DEF s
    <3> QED BY <1>a, <1>b, <3>1
  <2>3. Registers'
    BY <1>6, <1>10, <1>16, <2>1, <2>2 DEF Registers
  <2>4. BindingsTyped' /\ StackTyped'
    BY <1>3, <1>12 DEF Typed, BindingsTyped, StackTyped
  <2> QED BY <1>15, <2>3, <2>4 DEF Typed
<1>18. OpOK'
  <2>1. CASE disp # "return"
    BY <1>10, <1>12, <1>16, <2>1 DEF OpOK
  <2>2. CASE disp = "return"
    <3>1. sp' <= Len(stack')
      BY <1>10, <1>11, <1>12, <2>2
    <3>2. sp' >= fp' + 1
      <4>1. sp' = s.sp + Len(t) /\ fp' = s.fp
        BY <1>10
      <4> HIDE DEF s
      <4> QED BY <1>a, <1>b, <4>1
    <3>3. pc'.k = "multiple" => sp' - pc'.n >= fp' + 1
      <4>1. pc' = pc
        BY <1>4, <2>2
      <4>2. /\ Len(t) \in Nat /\ pc.n \in Nat /\ (pc.k = "multiple" => Len(t) = pc.n)
            /\ s.sp \in Nat /\ s.fp \in Nat
        BY <1>6, <1>8, <2>2
      <4>3. sp' = s.sp + Len(t) /\ fp' = s.fp
        BY <1>10
      <4>4. s.fp + 1 <= s.sp
        BY <1>6
      <4> HIDE DEF s, t
      <4> QED BY <4>1, <4>2, <4>3, <4>4
    <3>4. pc'.i = "return"
      BY <1>4, <1>6, <2>2
    <3> QED BY <1>16, <2>2, <3>1, <3>2, <3>3, <3>4 DEF OpOK
  <2> QED BY <2>1, <2>2
<1>19. BindsOK'
  <2>1. ~control.bind /\ control' = Act.saved.control /\ bindings' = bindings
    BY <1>1, <1>3, <1>10 DEF CleanedUp
  <2>2. ~(op'.in \in {"close", "unwind"})
    BY <1>16
  <2> QED BY <1>1, <1>15, <2>1, <2>2, LeavesBindings
<1> QED BY <1>15, <1>17, <1>18, <1>19

-----------------------------------------------------------------------------
(* The outermost function's frame. *)
LEMMA InitStackInv == Init => StackInv
<1> SUFFICES ASSUME Init PROVE StackInv
  OBVIOUS
<1> DEFINE c == InitialControl
           p == Code(0)
           u == PC(p)
           v == Control(c)
           a == [open |-> <<>>, bsp |-> 0, saved |-> <<>>]
<1>1. /\ stack = <<u, v>> /\ fp = 1 /\ lp = 3 /\ sp = 2 /\ continuation = p /\ control = c
      /\ CatchBlockPointer = 0 /\ bindings = <<>> /\ cells = [x \in Locs |-> 0]
      /\ pc = Code(1) /\ op = Idle /\ acts = <<a>>
  BY DEF Init
<1>2. /\ c \in Controls /\ c.args = 2 /\ c.disp = "effect" /\ ~c.catch /\ ~c.extra /\ ~c.bind
  BY DEF InitialControl, Controls, Dispositions
<1>3. p \in PCs /\ Code(1) \in PCs /\ Code(1).i = "code" /\ op.in = "idle"
  BY <1>1, CodeIs DEF Idle
<1>4. u \in Words /\ v \in Words /\ u.t = "pc" /\ v.t = "control"
  BY <1>2, <1>3 DEF PC, Control, Words, PCWords, Saves
<1>5. /\ a \in Activations /\ a.open = <<>> /\ a.bsp = 0
  <2>1. <<>> \in Seq(Items)
    BY EmptySeq
  <2> HIDE DEF Items, Saved
  <2> QED BY <2>1 DEF Activations
<1> HIDE DEF c, p, u, v, a
<1>6. stack \in Seq(Words) /\ Len(stack) = 2 /\ stack[1] = u /\ stack[2] = v
  <2> HIDE DEF Words
  <2> QED BY <1>1, <1>4, Two
<1>7. acts \in Seq(Activations) /\ Depth = 1 /\ acts[1] = a /\ Act = a
  <2> HIDE DEF Activations
  <2> QED BY <1>1, <1>5 DEF Depth, Act
<1>8. bindings \in Seq(Binding) /\ Len(bindings) = 0
  <2> HIDE DEF Binding
  <2> QED BY <1>1, EmptySeq
<1>9. Typed
  <2>1. Registers
    BY <1>1, <1>2, <1>3 DEF Registers
  <2>2. StackTyped
    BY <1>6, FramesAssumption DEF StackTyped, FramesAssumption
  <2>3. ActsTyped
    BY <1>7 DEF ActsTyped
  <2>4. BindingsTyped
    BY <1>1, <1>8, FramesAssumption DEF BindingsTyped, FramesAssumption
  <2> QED BY <2>1, <2>2, <2>3, <2>4 DEF Typed
<1>10. R(1) = Now
  BY <1>7 DEF R
<1>11. /\ Now.fp = 1 /\ Now.lp = 3 /\ Now.sp = 2 /\ Now.continuation = p /\ Now.control = c
       /\ Now.catch = 0 /\ Now.pc = Code(1)
  BY <1>1, <1>6 DEF Now
<1>12. ActOK(stack, 1, a, Now)
  <2>1. FrameOK(stack, 1, a, Now)
    BY <1>2, <1>4, <1>6, <1>11 DEF FrameOK
  <2>2. Len(a.open) = 0 /\ ItemsOK(stack, 1, a, Now)
    BY <1>5 DEF ItemsOK
  <2>3. \A k : Kinds(a.open, 0, k) = {} /\ Last(a.open, 0, k) = {}
    BY DEF Kinds, Last
  <2>4. ContinuationAt(1, a, 0, Now.continuation) /\ CatchAt(1, a, 0, Now.catch)
    BY <1>11, <2>3 DEF ContinuationAt, CatchAt, Ret, Outer, p
  <2>5. ControlAt(a, 0, Now.control)
    BY <1>2, <1>11, <2>3 DEF ControlAt
  <2>6. Fits(a.open, 0, Now.fp, Now.sp, Now.pc)
    BY <1>3, <1>11, CodeFits
  <2> QED BY <2>1, <2>2, <2>4, <2>5, <2>6 DEF ActOK, RightAt
<1>13. FramesOK
  <2>1. \A d \in 1 .. Depth : ActOK(stack, d, acts[d], R(d))
    BY <1>7, <1>10, <1>12
  <2>2. Above /\ Passing
    BY <1>7 DEF Above, Passing
  <2> QED BY <2>1, <2>2 DEF FramesOK
<1>14. OpOK
  BY <1>1, <1>3, <1>6 DEF OpOK
<1>15. BindsOK
  BY <1>3, <1>5, <1>7, <1>8 DEF BindsOK
<1> QED BY <1>9, <1>13, <1>14, <1>15 DEF StackInv

(* Every step keeps the invariant. *)
LEMMA NextStackInv == StackInv /\ [Next]_vars => StackInv'
<1> SUFFICES ASSUME StackInv, [Next]_vars PROVE Typed' /\ FramesOK' /\ OpOK' /\ BindsOK'
  BY DEF StackInv
<1> USE DEF StackInv
<1>1. CASE GuestStep
  <2>1. CASE Pop
    BY <2>1, PopInv
  <2>2. CASE LocateLocals
    BY <2>2, LocateLocalsInv
  <2>3. CASE Jump
    BY <2>3, JumpInv
  <2>4. CASE \E extra \in BOOLEAN : StartCall(extra)
    BY <2>4, StartCallInv
  <2>5. CASE \E args \in 0 .. 1, disp \in Dispositions : FinishCall(args, disp)
    <3>1. PICK args \in 0 .. 1 : \E disp \in Dispositions : FinishCall(args, disp)
      BY <2>5
    <3>2. PICK disp \in Dispositions : FinishCall(args, disp)
      BY <3>1
    <3>3. args \in Nat
      OBVIOUS
    <3> QED BY <3>2, <3>3, FinishCallInv
  <2>6. ASSUME NEW x \in Locs,
               BindLocative(x) \/ BindLocativeToValue(x, Len(bindings) + 1)
        PROVE  Typed' /\ FramesOK' /\ OpOK' /\ BindsOK'
    BY <2>6, BindLocativeInv DEF BindLocative
  <2>7. CASE \E unwindProtect \in BOOLEAN : CatchOpen(unwindProtect)
    BY <2>7, CatchOpenInv
  <2>8. CASE \/ \E n \in 1 .. MaxBindings : FetchUnbindN(n)
             \/ FetchCatchClose \/ FetchReturn("single", 1)
             \/ \E n \in Counts : FetchReturn("multiple", n)
    BY <2>8, FetchesInv
  <2> QED BY <1>1, <2>1, <2>2, <2>3, <2>4, <2>5, <2>6, <2>7, <2>8 DEF GuestStep
<1>2. CASE Begin
  BY <1>2, BeginInv
<1>3. CASE UnbindOne
  BY <1>3, UnbindOneInv
<1>4. CASE UnbindNEnd
  BY <1>4, UnbindNEndInv
<1>5. CASE CatchCloseEnd
  BY <1>5, CatchCloseEndInv
<1>6. CASE Return
  <2>1. CASE ReturnUncatch
    BY <2>1, ReturnUncatchInv
  <2>2. CASE ReturnUnwind
    BY <2>2, ReturnUnwindInv
  <2>3. CASE HandleUnwindProtect
    BY <2>3, HandleUnwindProtectInv
  <2>4. CASE ReturnUnbind
    BY <2>4, ReturnUnbindInv
  <2>5. CASE LeaveFrame
    BY <2>5, LeaveFrameInv
  <2> QED BY <1>6, <2>1, <2>2, <2>3, <2>4, <2>5 DEF Return
<1>7. CASE PreTrap
  BY <1>7, PreTrapInv
<1>8. CASE \E arity \in {0, 2} : PostTrap(arity)
  <2>1. PICK arity \in {0, 2} : PostTrap(arity)
    BY <1>8
  <2>2. arity \in Nat
    OBVIOUS
  <2> QED BY <2>1, <2>2, PostTrapInv
<1>9. CASE UNCHANGED vars
  BY <1>9, StutterInv
<1> QED BY <1>1, <1>2, <1>3, <1>4, <1>5, <1>6, <1>7, <1>8, <1>9 DEF Next, Step

(* The control stack is well formed: every frame begins with the words its *)
(* return needs, every started call, catch block and cleanup is where the  *)
(* registers of its activation say, however instructions are trapped.      *)
THEOREM StackWellFormed == Spec => []StackInv
BY InitStackInv, NextStackInv, PTL DEF Spec

-----------------------------------------------------------------------------
(* CatchBlockPointer of activation d is its innermost catch block, or that *)
(* of the innermost of those below it that has one.                        *)
Chained(d) ==
    /\ (\A e \in 1 .. d : Catches(acts[e]) = {}) => R(d).catch = 0
    /\ \A l \in 1 .. d :
         Catches(acts[l]) # {} /\ (\A e \in l + 1 .. d : Catches(acts[e]) = {}) =>
           R(d).catch = acts[l].open[InnermostCatch(acts[l])].block

(* Of an activation with catch blocks it is its own; of another, what it   *)
(* was when the activation began.                                          *)
LEMMA ChainedOne ==
    ASSUME StackInv, NEW d \in 1 .. Depth, d > 1 => Chained(d - 1)
    PROVE  Chained(d)
<1> DEFINE a == acts[d]
           n == Len(a.open)
<1>1. /\ Depth \in Nat \ {0} /\ ActsTyped /\ n \in Nat
      /\ ActOK(stack, d, a, R(d))
  BY ActIs, ActType DEF StackInv, Typed, FramesOK
<1>2. CatchAt(d, a, n, R(d).catch)
  BY <1>1 DEF ActOK, RightAt
<1>3. Catches(a) = Kinds(a.open, n, "catch")
  BY DEF Catches, Kinds
<1>4. CASE Catches(a) # {}
  <2>1. InnermostCatch(a) \in Last(a.open, n, "catch")
    <3> HIDE DEF a
    <3> QED BY <1>1, <1>3, <1>4, InnermostIs DEF n
  <2>2. R(d).catch = a.open[InnermostCatch(a)].block
    BY <1>2, <2>1 DEF CatchAt
  <2>3. ~(\A e \in 1 .. d : Catches(acts[e]) = {})
    BY <1>4
  <2>4. \A l \in 1 .. d : (\A e \in l + 1 .. d : Catches(acts[e]) = {}) => l = d
    <3> SUFFICES ASSUME NEW l \in 1 .. d, \A e \in l + 1 .. d : Catches(acts[e]) = {}, l # d
                 PROVE  FALSE
      OBVIOUS
    <3>1. d \in l + 1 .. d
      BY <1>1
    <3> QED BY <1>4, <3>1
  <2> QED BY <2>2, <2>3, <2>4 DEF Chained
<1>5. CASE Catches(a) = {}
  <2>1. R(d).catch = Outer(d, a)
    BY <1>2, <1>3, <1>5 DEF CatchAt
  <2>2. CASE d = 1
    <3>1. \A l \in 1 .. d : l = d
      BY <2>2
    <3> QED BY <1>5, <2>1, <2>2, <3>1 DEF Outer, Chained
  <2>3. CASE d # 1
    <3> DEFINE c == d - 1
    <3>1. c \in 1 .. Depth /\ c # Depth /\ c + 1 = d /\ d > 1
      BY <1>1, <2>3
    <3>2. R(d).catch = R(c).catch
      BY <2>1, <2>3, <3>1 DEF Outer, R
    <3>3. Chained(c)
      BY <3>1
    <3> HIDE DEF c
    <3>4. \A e \in 1 .. c : e \in 1 .. d
      BY <1>1, <3>1
    <3>5. ASSUME \A e \in 1 .. d : Catches(acts[e]) = {} PROVE R(d).catch = 0
      BY <3>2, <3>3, <3>4, <3>5 DEF Chained
    <3>6. ASSUME NEW l \in 1 .. d, Catches(acts[l]) # {},
                 \A e \in l + 1 .. d : Catches(acts[e]) = {}
          PROVE  R(d).catch = acts[l].open[InnermostCatch(acts[l])].block
      <4>1. l # d
        BY <1>5, <3>6
      <4>2. l \in 1 .. c /\ \A e \in l + 1 .. c : e \in l + 1 .. d
        BY <1>1, <3>1, <4>1
      <4> QED BY <3>2, <3>3, <3>6, <4>2 DEF Chained
    <3> QED BY <3>5, <3>6 DEF Chained
  <2> QED BY <2>2, <2>3
<1> QED BY <1>4, <1>5

(* By induction on d: there is no least d it does not hold of. *)
LEMMA ChainedAll ==
    ASSUME StackInv
    PROVE  \A d \in 1 .. Depth : Chained(d)
<1> DEFINE T == {d \in 1 .. Depth : ~Chained(d)}
<1>1. Depth \in Nat \ {0}
  BY ActIs DEF StackInv, Typed
<1>2. SUFFICES ASSUME T # {} PROVE FALSE
  OBVIOUS
<1>3. T \subseteq Nat
  BY <1>1
<1>4. PICK d \in T : \A j \in T : d <= j
  <2> HIDE DEF T
  <2> QED BY <1>2, <1>3, Least
<1>5. d \in 1 .. Depth /\ d - 1 < d /\ (d > 1 => d - 1 \in 1 .. Depth)
  BY <1>1
<1>6. d > 1 => Chained(d - 1)
  <2> SUFFICES ASSUME d > 1, ~Chained(d - 1) PROVE FALSE
    OBVIOUS
  <2>1. d - 1 \in T
    BY <1>5
  <2>2. d <= d - 1
    BY <1>4, <2>1
  <2> QED BY <1>5, <2>2
<1>7. Chained(d)
  BY <1>5, <1>6, ChainedOne
<1> QED BY <1>7

(* CatchHonest in terms of it. *)
LEMMA StackCatchHonest ==
    ASSUME StackInv
    PROVE  CatchHonest
<1> DEFINE with == {d \in 1 .. Depth : Catches(acts[d]) # {}}
           last == CHOOSE d \in with : \A e \in with : e <= d
<1>1. /\ ControlAt(Act, Len(Open), control) /\ Open = Act.open
      /\ Depth \in Nat \ {0} /\ Depth \in 1 .. Depth
  BY Current, ActIs DEF StackInv, Typed
<1>2. Catches(Act) = Kinds(Open, Len(Open), "catch")
  BY <1>1 DEF Catches, Kinds
<1>3. control.catch <=> Catches(Act) # {}
  BY <1>1, <1>2 DEF ControlAt
<1>4. Chained(Depth) /\ R(Depth).catch = CatchBlockPointer
  BY <1>1, ChainedAll DEF R, Now
<1>5. CASE with = {}
  <2>1. \A e \in 1 .. Depth : Catches(acts[e]) = {}
    BY <1>5
  <2>2. CatchBlockPointer = 0
    BY <1>4, <2>1 DEF Chained
  <2> QED BY <1>3, <1>5, <2>2 DEF CatchHonest
<1>6. CASE with # {}
  <2>1. \E m \in with : \A j \in with : j <= m
    <3>1. with \subseteq Nat /\ \A j \in with : j <= Depth
      BY <1>1
    <3> HIDE DEF with
    <3> QED BY <1>1, <1>6, <3>1, Greatest
  <2>2. last \in with /\ \A e \in with : e <= last
    <3> HIDE DEF with
    <3> QED BY <2>1, Zenon
  <2> DEFINE l == last
  <2> HIDE DEF last
  <2>3. last \in 1 .. Depth /\ Catches(acts[last]) # {}
    BY <2>2
  <2>4. \A e \in last + 1 .. Depth : Catches(acts[e]) = {}
    <3> SUFFICES ASSUME NEW e \in last + 1 .. Depth, Catches(acts[e]) # {} PROVE FALSE
      OBVIOUS
    <3>1. e \in 1 .. Depth /\ e > last
      BY <1>1, <2>3
    <3>2. e <= last
      BY <2>2, <3>1
    <3> QED BY <1>1, <2>3, <3>1, <3>2
  <2>5. CatchBlockPointer = acts[last].open[InnermostCatch(acts[last])].block
    BY <1>4, <2>3, <2>4 DEF Chained
  <2> QED BY <1>3, <1>6, <2>5 DEF CatchHonest, last
<1> QED BY <1>5, <1>6

(* Its catch block is on the stack. *)
LEMMA StackTypeOK ==
    ASSUME StackInv
    PROVE  FramesTypeOK
<1>1. /\ Typed /\ FramesOK /\ OpOK /\ ActsTyped /\ Depth \in Nat \ {0} /\ Depth \in 1 .. Depth
      /\ fp \in Nat /\ fp >= 1 /\ fp + 1 <= Len(stack) /\ Len(stack) \in Nat
      /\ lp = fp + control.args /\ ActOK(stack, Depth, Act, Now)
  BY Current, ActIs DEF StackInv, Typed
<1>2. /\ op = Idle => op.in # "return"
      /\ sp \in 0 .. Len(stack)
  BY <1>1 DEF Idle, OpOK, Typed, Registers
<1>3. op = Idle => sp = Len(stack)
  BY <1>1, <1>2 DEF OpOK
<1>4. CatchBlockPointer \in 0 .. Len(stack)
  <2>1. Chained(Depth) /\ R(Depth).catch = CatchBlockPointer
    BY <1>1, ChainedAll DEF R, Now
  <2>2. CASE \A e \in 1 .. Depth : Catches(acts[e]) = {}
    <3>1. R(Depth).catch = 0
      BY <2>1, <2>2, Zenon DEF Chained
    <3> QED BY <1>1, <2>1, <3>1
  <2>3. CASE \E e \in 1 .. Depth : Catches(acts[e]) # {}
    <3> DEFINE with == {d \in 1 .. Depth : Catches(acts[d]) # {}}
    <3>1. PICK l \in with : \A j \in with : j <= l
      <4>1. with # {}
        BY <2>3, Zenon
      <4>2. with \subseteq 1 .. Depth
        OBVIOUS
      <4> HIDE DEF with
      <4>3. with \subseteq Nat /\ \A j \in with : j <= Depth
        BY <1>1, <4>2
      <4> QED BY <1>1, <4>1, <4>3, Greatest
    <3>2. l \in 1 .. Depth /\ Catches(acts[l]) # {}
      OBVIOUS
    <3>3. \A e \in l + 1 .. Depth : Catches(acts[e]) = {}
      <4> SUFFICES ASSUME NEW e \in l + 1 .. Depth, Catches(acts[e]) # {} PROVE FALSE
        OBVIOUS
      <4>1. e \in 1 .. Depth /\ e > l
        BY <1>1, <3>2
      <4>2. e <= l
        BY <3>1, <4>1
      <4> QED BY <1>1, <3>2, <4>1, <4>2
    <3> HIDE DEF with
    <3> DEFINE a == acts[l]
               m == InnermostCatch(a)
    <3>4. CatchBlockPointer = a.open[m].block
      BY <2>1, <3>2, <3>3 DEF Chained
    <3>5. /\ ActOK(stack, l, a, R(l)) /\ Len(a.open) \in Nat /\ R(l) \in Saved
          /\ \A n \in 1 .. Len(a.open) : a.open[n] \in Items
      BY <1>1, <3>2, ActType, RType DEF FramesOK
    <3>6. Catches(a) = Kinds(a.open, Len(a.open), "catch")
      BY DEF Catches, Kinds
    <3>7. m \in 1 .. Len(a.open) /\ a.open[m].k = "catch"
      <4>1. Kinds(a.open, Len(a.open), "catch") # {}
        BY <3>2, <3>6
      <4> HIDE DEF a
      <4> QED BY <3>5, <4>1, InnermostIs
    <3> HIDE DEF m, a
    <3>8. ItemOK(stack, l, a, R(l), m)
      BY <3>5, <3>7 DEF ActOK, ItemsOK
    <3>9. CatchOK(stack, l, a, R(l), m) /\ a.open[m].at <= R(l).sp /\ a.open[m].at \in Nat
      BY <3>5, <3>7, <3>8, ItemType DEF ItemOK
    <3> DEFINE x == a.open[m]
    <3>10. x.block \in Nat /\ x.block + 2 <= x.at /\ x.at <= R(l).sp /\ x.at \in Nat
      BY <3>9 DEF CatchOK, Blocks
    <3>11. R(l).sp \in Nat /\ R(l).sp <= Len(stack)
      <4>1. CASE l = Depth
        BY <1>1, <4>1 DEF R, Now
      <4>2. CASE l # Depth
        <5>1. l + 1 \in 2 .. Depth
          BY <1>1, <3>2, <4>2
        <5>2. R(l) = acts[l + 1].saved /\ R(Depth).fp = fp
          BY <4>2 DEF R, Now
        <5>3. R(l).sp < fp
          BY <1>1, <5>1, <5>2 DEF FramesOK, Above
        <5> QED BY <1>1, <3>5, <5>3 DEF Saved
      <4> QED BY <4>1, <4>2
    <3> HIDE DEF x
    <3> QED BY <1>1, <3>4, <3>10, <3>11 DEF x
  <2> QED BY <2>2, <2>3
<1>5. pc.i \in Instructions /\ continuation.i \in Instructions
  BY <1>1, PCType DEF Typed, Registers, Instructions
<1>6. stack[fp].t = "pc" /\ stack[fp + 1].t = "control"
  BY <1>1 DEF ActOK, FrameOK, Now
<1>7. Len(stack) <= MaxWords /\ cells \in [Locs -> 0 .. MaxBindings] /\ fp \in 1 .. Len(stack)
  BY <1>1 DEF Typed, StackTyped, BindingsTyped
<1> QED BY <1>1, <1>2, <1>3, <1>4, <1>5, <1>6, <1>7 DEF FramesTypeOK

(* FramesTypeOK is an invariant: the registers have their types and point  *)
(* into the stack, where the frame's first two words are what a return     *)
(* takes its caller's registers from.                                      *)
THEOREM FramesTypeCorrect == Spec => []FramesTypeOK
<1>1. StackInv => FramesTypeOK
  BY StackTypeOK
<1> QED BY <1>1, StackWellFormed, PTL

(* CatchHonest is an invariant: through CATCH-OPEN, CATCH-CLOSE, calls,    *)
(* traps and returns the control register's bit and CatchBlockPointer tell *)
(* the catch blocks that are active.                                       *)
THEOREM CatchesHonest == Spec => []CatchHonest
<1>1. StackInv => CatchHonest
  BY StackCatchHonest
<1> QED BY <1>1, StackWellFormed, PTL

-----------------------------------------------------------------------------
(* What is opened or closed in the frame keeps the activations ...         *)
LEMMA Altered ==
    ASSUME ActsTyped, NEW o
    PROVE  \E X : /\ [acts EXCEPT ![Depth].open = o] \in Seq(X)
                  /\ Len([acts EXCEPT ![Depth].open = o]) = Depth
<1> DEFINE D == Depth
           x == [acts[D] EXCEPT !.open = o]
           X == Activations \cup {x}
           b == [acts EXCEPT ![D] = x]
<1>1. D \in 1 .. Len(acts) /\ acts \in Seq(Activations) /\ D = Len(acts)
  BY ActIs DEF ActsTyped, Depth
<1>2. acts \in Seq(X)
  <2>1. acts \in [1 .. Len(acts) -> Activations] /\ Len(acts) \in Nat
    <3> HIDE DEF Activations
    <3> QED BY <1>1, LenProperties
  <2>2. acts \in [1 .. Len(acts) -> X]
    <3>1. Activations \subseteq X
      OBVIOUS
    <3> HIDE DEF X, Activations
    <3> QED BY <2>1, <3>1
  <2> HIDE DEF X
  <2> QED BY <2>1, <2>2, SeqDef
<1>3. x \in X /\ [acts EXCEPT ![Depth].open = o] = b
  OBVIOUS
<1>4. b \in Seq(X) /\ Len(b) = Len(acts)
  <2> HIDE DEF x, X, D
  <2> QED BY <1>1, <1>2, <1>3, ExceptSeq
<1> HIDE DEF x, X, D, b
<1> QED BY <1>1, <1>3, <1>4 DEF D

(* ... and a call or a trap adds one. *)
LEMMA OneMore ==
    ASSUME NEW X, NEW b \in Seq(X), NEW x, acts' = Append(b, x)
    PROVE  Depth' = Len(b) + 1
<1> DEFINE Y == X \cup {x}
<1>1. b \in [1 .. Len(b) -> X] /\ Len(b) \in Nat
  BY LenProperties
<1>2. b \in [1 .. Len(b) -> Y]
  BY <1>1
<1>3. b \in Seq(Y) /\ x \in Y
  BY <1>1, <1>2, SeqDef
<1> HIDE DEF Y
<1>4. Len(Append(b, x)) = Len(b) + 1
  BY <1>3, AppendProperties
<1> QED BY <1>4 DEF Depth

(* A frame goes away only by a return that leaves it. *)
LEMMA OnlyLeaves ==
    ASSUME StackInv, [Next]_vars, Depth' < Depth
    PROVE  LeaveFrame
<1>1. acts \in Seq(Activations) /\ Depth = Len(acts) /\ Depth \in Nat /\ ActsTyped
  BY ActIs DEF StackInv, Typed, ActsTyped, Depth
<1>2. ASSUME acts' = acts PROVE FALSE
  BY <1>1, <1>2 DEF Depth
<1>3. ASSUME NEW o, acts' = [acts EXCEPT ![Depth].open = o] PROVE FALSE
  BY <1>1, <1>3, Altered DEF Depth
<1>4. ASSUME NEW x, acts' = Append(acts, x) PROVE FALSE
  BY <1>1, <1>4, OneMore
<1>5. ASSUME NEW o, NEW x, acts' = Append([acts EXCEPT ![Depth].open = o], x) PROVE FALSE
  <2> DEFINE b == [acts EXCEPT ![Depth].open = o]
  <2>1. PICK X : b \in Seq(X) /\ Len(b) = Depth
    BY <1>1, Altered
  <2> HIDE DEF b
  <2>2. acts' = Append(b, x)
    BY <1>5 DEF b
  <2>3. Depth' = Depth + 1
    BY <2>1, <2>2, OneMore
  <2> QED BY <1>1, <2>3
<1>6. ASSUME NEW x, acts' = Opened(x) PROVE FALSE
  BY <1>3, <1>6 DEF Opened
<1>7. ASSUME NEW n, acts' = Closed(n) PROVE FALSE
  BY <1>3, <1>7 DEF Closed
<1>8. ASSUME NEW t, CloseCatch(t) PROVE FALSE
  BY <1>3, <1>8 DEF CloseCatch
<1>9. ASSUME NEW where, TrapFrame(where) PROVE FALSE
  BY <1>4, <1>9 DEF TrapFrame
<1>10. CASE GuestStep
  <2>1. CASE Pop
    BY <1>2, <2>1 DEF Pop
  <2>2. CASE LocateLocals
    BY <1>2, <2>2 DEF LocateLocals
  <2>3. CASE Jump
    BY <1>7, <2>3 DEF Jump
  <2>4. CASE \E extra \in BOOLEAN : StartCall(extra)
    BY <1>6, <2>4, Zenon DEF StartCall
  <2>5. CASE \E args \in 0 .. 1, disp \in Dispositions : FinishCall(args, disp)
    BY <1>5, <2>5, Zenon DEF FinishCall, Closed
  <2>6. CASE \E x \in Locs : BindLocative(x) \/ BindLocativeToValue(x, Len(bindings) + 1)
    BY <1>6, <2>6, Zenon DEF BindLocative, BindLocativeToValue
  <2>7. CASE \E unwindProtect \in BOOLEAN : CatchOpen(unwindProtect)
    BY <1>6, <2>7, Zenon DEF CatchOpen
  <2>8. CASE \/ \E n \in 1 .. MaxBindings : FetchUnbindN(n)
             \/ FetchCatchClose \/ FetchReturn("single", 1)
             \/ \E n \in Counts : FetchReturn("multiple", n)
    BY <1>2, <2>8 DEF FetchUnbindN, FetchCatchClose, FetchReturn, Fetch
  <2> QED BY <1>10, <2>1, <2>2, <2>3, <2>4, <2>5, <2>6, <2>7, <2>8 DEF GuestStep
<1>11. CASE Begin \/ UnbindOne \/ UNCHANGED vars
  BY <1>2, <1>11 DEF Begin, UnbindOne, vars, state
<1>12. CASE UnbindNEnd
  BY <1>7, <1>12 DEF UnbindNEnd
<1>13. CASE CatchCloseEnd
  BY <1>8, <1>13, Zenon DEF CatchCloseEnd
<1>14. CASE Return
  <2>1. CASE ReturnUncatch
    BY <1>8, <2>1 DEF ReturnUncatch
  <2>2. CASE ReturnUnwind \/ ReturnUnbind
    BY <1>2, <2>2 DEF ReturnUnwind, ReturnUnbind
  <2>3. CASE HandleUnwindProtect
    BY <1>8, <2>3 DEF HandleUnwindProtect
  <2> QED BY <1>14, <2>1, <2>2, <2>3 DEF Return
<1>15. CASE PreTrap
  BY <1>9, <1>15 DEF PreTrap
<1>16. CASE \E arity \in {0, 2} : PostTrap(arity)
  <2>1. PICK arity \in {0, 2} : PostTrap(arity)
    BY <1>16
  <2>2. \E x : acts' = Append(acts, x)
    BY <2>1, Zenon DEF PostTrap
  <2> QED BY <1>4, <2>2
<1> QED BY <1>10, <1>11, <1>12, <1>13, <1>14, <1>15, <1>16 DEF Next, Step

(* A function, and a trap's handler, gives its caller back what the caller *)
(* had when it started the call or was trapped, through whatever traps,    *)
(* cleanup code and returns came in between.                               *)
THEOREM CallersRestored == Spec => ReturnRestores
<1> DEFINE s == Act.saved
           Restored == Depth' < Depth =>
             /\ fp' = s.fp /\ lp' = s.lp
             /\ control' = s.control /\ continuation' = s.continuation
             /\ CatchBlockPointer' = s.catch
             /\ op' = Idle => pc' = s.pc /\ s.sp <= sp' /\ sp' <= s.sp + pc.n + 1
<1>1. StackInv /\ [Next]_vars => Restored
  <2> SUFFICES ASSUME StackInv, [Next]_vars, Depth' < Depth PROVE Restored
    OBVIOUS
  <2> DEFINE t == Returned(control.disp, pc.n)
  <2>1. LeaveFrame /\ Typed /\ FramesOK /\ OpOK
    BY OnlyLeaves DEF StackInv
  <2>2. /\ op.in = "return" /\ CleanedUp /\ Depth > 1
        /\ fp' = s.fp /\ lp' = s.lp /\ control' = s.control /\ continuation' = s.continuation
        /\ CatchBlockPointer' = s.catch /\ sp' = s.sp + Len(t)
        /\ (control.disp # "return" => pc' = s.pc)
        /\ Len(t) \in Nat /\ Len(t) <= pc.n + 1
    BY <2>1, LeaveFrameIs
  <2>3. s.sp \in Nat /\ pc.n \in Nat
    BY <2>1, <2>2, ReturnFinds
  <2>4. op' = Idle => control.disp # "return"
    <3> SUFFICES ASSUME op' = Idle, control.disp = "return" PROVE FALSE
      OBVIOUS
    <3>1. op' = [op EXCEPT !.hop = TRUE]
      BY <2>1 DEF LeaveFrame
    <3>2. op \in [in : {"return"}, hop : BOOLEAN, scratch : Words]
      BY <2>1, <2>2, OpType DEF Typed, Registers, Returns
    <3>3. op'.in = "return"
      <4> HIDE DEF Words
      <4> QED BY <3>1, <3>2
    <3> QED BY <3>3 DEF Idle
  <2> HIDE DEF s, t
  <2>5. s.sp <= s.sp + Len(t) /\ s.sp + Len(t) <= s.sp + pc.n + 1
    BY <2>2, <2>3
  <2> QED BY <2>2, <2>4, <2>5
<1>2. StackInv /\ [Next]_vars =>
        [Depth' < Depth =>
           LET s1 == Act.saved
           IN /\ fp' = s1.fp /\ lp' = s1.lp
              /\ control' = s1.control /\ continuation' = s1.continuation
              /\ CatchBlockPointer' = s1.catch
              /\ op' = Idle => pc' = s1.pc /\ s1.sp <= sp' /\ sp' <= s1.sp + pc.n + 1]_vars
  BY <1>1
<1> QED BY <1>2, StackWellFormed, PTL DEF Spec, ReturnRestores

(* A frame is left with all its bindings undone and its catch blocks taken *)
(* away, those of unwind-protects by way of their cleanup code.            *)
THEOREM FramesCleanedUp == Spec => NothingLeftOpen
<1>1. StackInv /\ [Next]_vars =>
        [Depth' < Depth => Len(bindings) <= Act.bsp /\ Catches(Act) = {}]_vars
  <2> SUFFICES ASSUME StackInv, [Next]_vars, Depth' < Depth
               PROVE  Len(bindings) <= Act.bsp /\ Catches(Act) = {}
    OBVIOUS
  <2>1. LeaveFrame /\ Typed /\ FramesOK /\ OpOK /\ BindsOK
    BY OnlyLeaves DEF StackInv
  <2>2. op.in = "return" /\ CleanedUp /\ Depth > 1
    BY <2>1, LeaveFrameIs
  <2>3. Len(bindings) <= Act.bsp
    <3>1. Act.bsp \in Nat /\ Len(bindings) \in Nat
      BY <2>1, ActIs DEF Typed, BindingsTyped
    <3>2. ~control.bind
      BY <2>2 DEF CleanedUp
    <3> QED BY <2>1, <3>1, <3>2 DEF BindsOK
  <2>4. Kinds(Open, Len(Open), "catch") = {}
    BY <2>1, <2>2, ReturnFinds
  <2> QED BY <2>3, <2>4 DEF Catches, Kinds, Open
<1> QED BY <1>1, StackWellFormed, PTL DEF Spec, NothingLeftOpen

=============================================================================
