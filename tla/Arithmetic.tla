------------------------------ MODULE Arithmetic ------------------------------
(***************************************************************************)
(* The fixnum instructions of c-emulator/emulator.c, as the outcomes each  *)
(* can have for the operands x (the top of the stack) and y (op2): the     *)
(* values it leaves where x was, the top of the stack last, an exception   *)
(* for the guest's handler, or an illegal-operand trap.                    *)
(*                                                                         *)
(* A fixnum is a signed word of W bits (32 in the code).  The build        *)
(* compiles without optimisation (GNUmakefile:63), where signed sums wrap; *)
(* a shift by the word's width or more is undefined in C and has every     *)
(* outcome here.                                                           *)
(***************************************************************************)
EXTENDS Integers, Sequences

CONSTANTS W,      \* bits in a word
          Half    \* the weight of its sign bit, 2^(W-1)

Pow2[n \in Nat] == IF n = 0 THEN 1 ELSE 2 * Pow2[n - 1]

ASSUME ArithmeticAssumption ==
    W \in Nat \ {0} /\ Half \in Nat \ {0} /\ Pow2[W - 1] = Half

Fixnum == -Half .. Half - 1
Word   == 2 * Half

(* The word that holds x: DATA.u as a number, DATA.s as a fixnum. *)
Unsigned(x) == x % Word
Wrap(x) == ((x + Half) % Word) - Half

(* The operators / and >> of C on signed words. *)
Magnitude(x) == IF x < 0 THEN -x ELSE x
CQuotient(x, y) == IF (x < 0) = (y < 0) THEN Magnitude(x) \div Magnitude(y)
                                        ELSE -(Magnitude(x) \div Magnitude(y))
ShiftRight(x, n) == x \div Pow2[n]

Done(values) == [how |-> "done", values |-> values]
Exception    == [how |-> "exception", values |-> <<>>]
Illegal      == [how |-> "illegal", values |-> <<>>]

(* A sum is kept unless it wrapped to the wrong side of x. *)
Add(x, y) == LET i == Wrap(x + y)
             IN  IF (i >= x) <=> (y >= 0) THEN Done(<<i>>) ELSE Exception

(* Mutant: subtracting zero is taken for an overflow. *)
SubOffByOne(x, y) == LET i == Wrap(x - y)
                     IN  IF (i <= x) <=> (y > 0) THEN Done(<<i>>) ELSE Exception
Sub(x, y) == LET i == Wrap(x - y)
             IN  IF (i <= x) <=> (y >= 0) THEN Done(<<i>>) ELSE Exception

Multiply(x, y) == IF x * y >= -Half /\ x * y <= Half - 1
                  THEN Done(<<Wrap(x * y)>>) ELSE Exception

(* This pushes: x, of whatever type, is left below. *)
UnaryMinus(x, y) == IF y # -Half THEN Done(<<-y>>) ELSE Exception

(* The divisions, and what they have in common: no zero divisor, and not   *)
(* the one quotient that is no fixnum.                                     *)
Divide(x, y, result) ==
    IF y = 0 THEN Illegal
    ELSE IF x = -Half /\ y = -1 THEN Exception
    ELSE result

Remainder(x, y) == x - y * CQuotient(x, y)

Quotient(x, y) == Divide(x, y, Done(<<CQuotient(x, y)>>))
Truncate(x, y) == Divide(x, y, Done(<<CQuotient(x, y), Remainder(x, y)>>))

(* Mutant: the remainder's sign is not compared with the divisor's. *)
FloorOfMagnitude(x, y) ==
    Divide(x, y, LET q == CQuotient(x, y)  r == Remainder(x, y)
                 IN  IF r < 0 THEN Done(<<q - 1, r + y>>) ELSE Done(<<q, r>>))
Floor(x, y) ==
    Divide(x, y, LET q == CQuotient(x, y)  r == Remainder(x, y)
                 IN  IF r # 0 /\ ((r >= 0) # (y >= 0))
                     THEN Done(<<q - 1, r + y>>) ELSE Done(<<q, r>>))

Ceiling(x, y) ==
    Divide(x, y, LET q == CQuotient(x, y)  r == Remainder(x, y)
                 IN  IF r # 0 /\ ((r >= 0) = (y >= 0))
                     THEN Done(<<q + 1, r - y>>) ELSE Done(<<q, r>>))

(* The quotient is taken one further when more than half of y remains, or  *)
(* half of it and the quotient is odd: but the remainder has x's sign, and *)
(* of a y with the other sign nothing remains however far it is from y.    *)
Round(x, y) ==
    Divide(x, y, LET q == CQuotient(x, y)  r == Remainder(x, y)
                     temp == Wrap(y - r - r)
                     further == IF temp = 0 THEN q % 2 = 1
                                ELSE IF y > 0 THEN temp < 0 ELSE temp > 0
                 IN  IF further THEN Done(<<q + 1, Wrap(r - y)>>) ELSE Done(<<q, r>>))

RationalQuotient(x, y) ==
    Divide(x, y, IF Remainder(x, y) = 0 THEN Done(<<CQuotient(x, y)>>) ELSE Exception)

Max2(x, y) == Done(<<IF y > x THEN y ELSE x>>)
Min2(x, y) == Done(<<IF y < x THEN y ELSE x>>)

(* ASH: the bits shifted out are lost, and only the sign and zero are      *)
(* looked at afterwards.                                                   *)
ShiftedLeft(x, n) == IF n < W THEN {Wrap(x * Pow2[n])} ELSE Fixnum
Ash(x, y) ==
    IF y = 0 \/ x = 0 THEN {Done(<<x>>)}
    ELSE IF y > 0
    THEN {IF ((x < 0) = (i < 0)) /\ i # 0 THEN Done(<<i>>) ELSE Exception :
            i \in ShiftedLeft(x, y)}
    ELSE IF -y < W THEN {Done(<<ShiftRight(x, -y)>>)}
    ELSE {Done(<<i>>) : i \in Fixnum}

Lsh(x, y) ==
    IF y = 0 THEN Done(<<x>>)
    ELSE IF y > W - 1 \/ y < -(W - 1) THEN Done(<<0>>)
    ELSE IF y > 0 THEN Done(<<Wrap(Unsigned(x) * Pow2[y])>>)
    ELSE Done(<<Wrap(ShiftRight(Unsigned(x), -y))>>)

(* Mutant: the bits that leave at the top are not brought in at the bottom. *)
RotLosesBits(x, y) ==
    LET places == y % W
    IN  Done(<<Wrap(Unsigned(x) * Pow2[places])>>)
Rot(x, y) ==
    LET places == y % W
    IN  IF places = 0 THEN Done(<<x>>)
        ELSE Done(<<Wrap(((Unsigned(x) * Pow2[places]) % Word)
                         + ShiftRight(Unsigned(x), W - places))>>)

(* The byte of x of size + 1 bits that a rotation by pos would bring to    *)
(* the right, and x with the byte of size + 1 bits at pos replaced: of the *)
(* code's masks, what lies beyond the word is lost.                        *)
Ldb(pos, size, x) == Wrap(ShiftRight(x, (W - pos) % W) % Pow2[size + 1])
Dpb(new, pos, size, x) ==
    LET end   == pos + size + 1
        below == Unsigned(x) % Pow2[pos]
        byte  == (Unsigned(new) % Pow2[size + 1]) * Pow2[pos]
        above == IF end < W THEN ShiftRight(Unsigned(x), end) * Pow2[end] ELSE 0
    IN  Wrap(below + (byte % Word) + above)

Plus32(x, y)       == Done(<<Wrap(x + y)>>)
Difference32(x, y) == Done(<<Wrap(x - y)>>)

(* The product of two unsigned words in two words, the low one first. *)
MultiplyBignumStep(x, y) ==
    LET value == Unsigned(x) * Unsigned(y)
    IN  Done(<<Wrap(value % Word), Wrap(value \div Word)>>)

(* Comparisons, as T (1) or NIL (0) in x's place. *)
Predicate(p) == Done(<<IF p THEN 1 ELSE 0>>)

(* What an instruction on two fixnums can do. *)
Binary == {"add", "sub", "multiply", "unary-minus", "quotient", "truncate", "floor",
           "ceiling", "round", "rational-quotient", "max", "min", "ash", "lsh", "rot",
           "plus32", "difference32", "multiply-bignum-step", "greaterp", "lessp",
           "equal-number"}

Outcomes(i, x, y) ==
    CASE i = "add"               -> {Add(x, y)}
      [] i = "sub"               -> {Sub(x, y)}
      [] i = "multiply"          -> {Multiply(x, y)}
      [] i = "unary-minus"       -> {UnaryMinus(x, y)}
      [] i = "quotient"          -> {Quotient(x, y)}
      [] i = "truncate"          -> {Truncate(x, y)}
      [] i = "floor"             -> {Floor(x, y)}
      [] i = "ceiling"           -> {Ceiling(x, y)}
      [] i = "round"             -> {Round(x, y)}
      [] i = "rational-quotient" -> {RationalQuotient(x, y)}
      [] i = "max"               -> {Max2(x, y)}
      [] i = "min"               -> {Min2(x, y)}
      [] i = "ash"               -> Ash(x, y)
      [] i = "lsh"               -> {Lsh(x, y)}
      [] i = "rot"               -> {Rot(x, y)}
      [] i = "plus32"            -> {Plus32(x, y)}
      [] i = "difference32"      -> {Difference32(x, y)}
      [] i = "multiply-bignum-step" -> {MultiplyBignumStep(x, y)}
      [] i = "greaterp"          -> {Predicate(x > y)}
      [] i = "lessp"             -> {Predicate(x < y)}
      [] i = "equal-number"      -> {Predicate(x = y)}
===============================================================================
