-------------------------- MODULE InstructionsProofs --------------------------
(***************************************************************************)
(* The fixnum instructions are exact, the divisions divide, shifts and     *)
(* bytes move the bits they name, and lists are walked and changed as a    *)
(* memory that answers at once would have it: proofs, whatever the width   *)
(* of a word, the size of the memory and what is in it.                    *)
(***************************************************************************)
EXTENDS Instructions, FiniteSetTheorems, SequenceTheorems, WellFoundedInduction, TLAPS

(***************************************************************************)
(* Induction, over the members of a set, and what it gives of the powers   *)
(* of two.                                                                 *)
(***************************************************************************)
Smaller == {p \in Nat \X Nat : p[1] < p[2]}

LEMMA SmallerIs == IsWellFoundedOn(Smaller, Nat)
<1>1. OpToRel(<, Nat) = Smaller
  BY DEF OpToRel, Smaller
<1> QED BY <1>1, NatLessThanWellFounded

(* A set of numbers with zero and, with each, the next, has them all. *)
LEMMA Induction ==
  ASSUME NEW S, S \subseteq Nat, 0 \in S, \A n \in S : n + 1 \in S
  PROVE  S = Nat
<1> DEFINE T == Nat \ S
<1>1. SUFFICES ASSUME T # {} PROVE FALSE
  OBVIOUS
<1>2. PICK x \in T : \A y \in T : ~(<<y, x>> \in Smaller)
  <2> HIDE DEF T
  <2>1. T \subseteq Nat
    BY DEF T
  <2> QED BY <1>1, <2>1, SmallerIs, WFMin
<1>3. x \in Nat /\ x # 0
  OBVIOUS
<1>4. x - 1 \in Nat /\ x - 1 < x
  BY <1>3
<1>5. <<x - 1, x>> \in Smaller
  BY <1>3, <1>4 DEF Smaller
<1>6. x - 1 \in S
  BY <1>2, <1>4, <1>5
<1>7. (x - 1) + 1 = x
  BY <1>3
<1> QED BY <1>6, <1>7

(* Functions that are right up to n. *)
Doubles(g, n) == g[0] = 1 /\ \A k \in 1 .. n : g[k] = 2 * g[k - 1]

LEMMA UpTo == \A n \in Nat : \E g \in [Nat -> Nat] : Doubles(g, n)
<1> DEFINE S == {n \in Nat : \E g \in [Nat -> Nat] : Doubles(g, n)}
<1>1. 0 \in S
  <2> DEFINE g == [k \in Nat |-> 1]
  <2>1. g \in [Nat -> Nat] /\ Doubles(g, 0)
    BY DEF Doubles
  <2> QED BY <2>1
<1>2. ASSUME NEW n \in S PROVE n + 1 \in S
  <2>1. PICK g \in [Nat -> Nat] : Doubles(g, n)
    OBVIOUS
  <2> DEFINE h == [k \in Nat |-> IF k = n + 1 THEN 2 * g[n] ELSE g[k]]
  <2>2. h \in [Nat -> Nat] /\ n \in Nat
    OBVIOUS
  <2>3. h[0] = 1
    BY <2>1, <2>2 DEF Doubles
  <2>4. ASSUME NEW k \in 1 .. n + 1 PROVE h[k] = 2 * h[k - 1]
    <3>1. k - 1 # n + 1 /\ k - 1 \in Nat /\ k \in Nat /\ h[k - 1] = g[k - 1]
      BY <2>2
    <3>2. CASE k = n + 1
      BY <2>2, <3>1, <3>2
    <3>3. CASE k # n + 1
      <4>1. k \in 1 .. n /\ h[k] = g[k]
        BY <2>2, <3>3
      <4> QED BY <2>1, <3>1, <4>1 DEF Doubles
    <3> QED BY <3>2, <3>3
  <2> HIDE DEF h
  <2>5. Doubles(h, n + 1)
    BY <2>3, <2>4 DEF Doubles
  <2>6. n + 1 \in Nat
    BY <2>2
  <2> QED BY <2>2, <2>5, <2>6
<1>3. S \subseteq Nat
  OBVIOUS
<1> HIDE DEF S
<1>4. S = Nat
  BY <1>1, <1>2, <1>3, Induction
<1> QED BY <1>4 DEF S

LEMMA Alike ==
  ASSUME NEW n \in Nat, NEW g \in [Nat -> Nat], NEW h \in [Nat -> Nat],
         Doubles(g, n), Doubles(h, n)
  PROVE  \A k \in 0 .. n : g[k] = h[k]
<1> DEFINE S == {k \in Nat : k <= n => g[k] = h[k]}
<1>1. 0 \in S
  BY DEF Doubles
<1>2. ASSUME NEW k \in S PROVE k + 1 \in S
  <2>1. CASE k + 1 <= n
    <3>1. k + 1 \in 1 .. n /\ k \in Nat /\ k + 1 - 1 = k /\ g[k] = h[k]
      BY <2>1
    <3> QED BY <3>1 DEF Doubles
  <2> QED BY <2>1
<1>3. S \subseteq Nat
  OBVIOUS
<1> HIDE DEF S
<1>4. S = Nat
  BY <1>1, <1>2, <1>3, Induction
<1> QED BY <1>4 DEF S

LEMMA PowersOfTwo == /\ Pow2 \in [Nat -> Nat \ {0}]
                     /\ Pow2[0] = 1 /\ \A n \in Nat : Pow2[n + 1] = 2 * Pow2[n]
<1> DEFINE Right(g) == g = [n \in Nat |-> IF n = 0 THEN 1 ELSE 2 * g[n - 1]]
           upto == [n \in Nat |-> CHOOSE g \in [Nat -> Nat] : Doubles(g, n)]
           all == [n \in Nat |-> upto[n][n]]
<1>1. \A n \in Nat : upto[n] \in [Nat -> Nat] /\ Doubles(upto[n], n)
  BY UpTo
<1> HIDE DEF upto
<1>2. all[0] = 1
  BY <1>1 DEF Doubles
<1>3. ASSUME NEW n \in Nat, n # 0 PROVE all[n] = 2 * all[n - 1]
  <2>1. n - 1 \in Nat /\ n \in 1 .. n /\ n - 1 \in 0 .. n - 1
    BY <1>3
  <2>2. upto[n][n] = 2 * upto[n][n - 1]
    BY <1>1, <2>1 DEF Doubles
  <2>3. Doubles(upto[n], n - 1)
    BY <1>1, <2>1 DEF Doubles
  <2>4. upto[n][n - 1] = upto[n - 1][n - 1]
    BY <1>1, <2>1, <2>3, Alike
  <2> QED BY <2>1, <2>2, <2>4
<1>4. Right(all)
  <2>1. \A n \in Nat : all[n] = IF n = 0 THEN 1 ELSE 2 * all[n - 1]
    BY <1>2, <1>3
  <2>2. all = [n \in Nat |-> all[n]]
    OBVIOUS
  <2> HIDE DEF all
  <2> QED BY <2>1, <2>2
<1>5. Pow2 = CHOOSE g : Right(g)
  BY DEF Pow2
<1>6. Right(Pow2)
  <2> HIDE DEF Right
  <2> QED BY <1>4, <1>5
<1>7. Pow2[0] = 1 /\ \A n \in Nat : Pow2[n + 1] = 2 * Pow2[n]
  <2>1. \A n \in Nat : Pow2[n] = IF n = 0 THEN 1 ELSE 2 * Pow2[n - 1]
    BY <1>6
  <2>2. \A n \in Nat : n + 1 \in Nat /\ n + 1 # 0 /\ n + 1 - 1 = n
    OBVIOUS
  <2> HIDE DEF Right
  <2> QED BY <2>1, <2>2
<1>8. Pow2 \in [Nat -> Nat \ {0}]
  <2> DEFINE S == {n \in Nat : Pow2[n] \in Nat \ {0}}
  <2>1. 0 \in S /\ \A n \in S : n + 1 \in S
    BY <1>7
  <2>2. S \subseteq Nat
    OBVIOUS
  <2>3. S = Nat
    <3> HIDE DEF S
    <3> QED BY <2>1, <2>2, Induction
  <2>4. Pow2 = [n \in Nat |-> IF n = 0 THEN 1 ELSE 2 * Pow2[n - 1]]
    BY <1>6
  <2>5. \A n \in Nat : Pow2[n] \in Nat \ {0}
    BY <2>3
  <2>6. DOMAIN Pow2 = Nat /\ Pow2 = [n \in Nat |-> Pow2[n]]
    BY <2>4
  <2> HIDE DEF S, Right
  <2> QED BY <2>5, <2>6
<1> QED BY <1>7, <1>8

LEMMA Sizes == W \in Nat /\ Half \in Nat /\ Half > 0 /\ Word = 2 * Half
BY ArithmeticAssumption DEF ArithmeticAssumption, Word

(* Numbers: the remainder of a division is the only one. *)
LEMMA OneRemainder ==
  ASSUME NEW d \in Nat \ {0}, NEW a \in Int, NEW q \in Int, NEW r \in Int,
         a = d * q + r, 0 <= r, r < d
  PROVE  a % d = r /\ a \div d = q
<1> DEFINE p == a \div d
           s == a % d
<1>1. p \in Int /\ s \in Int /\ a = d * p + s /\ 0 <= s /\ s < d
  OBVIOUS
<1> HIDE DEF p, s
<1>2. p = q
  <2>1. d * p + s = d * q + r
    BY <1>1
  <2>2. CASE p < q
    <3>1. d * p + d <= d * q
      BY <1>1, <2>2
    <3> QED BY <1>1, <2>1, <3>1
  <2>3. CASE q < p
    <3>1. d * q + d <= d * p
      BY <1>1, <2>3
    <3> QED BY <1>1, <2>1, <3>1
  <2> QED BY <1>1, <2>2, <2>3
<1>3. s = r
  BY <1>1, <1>2
<1> QED BY <1>2, <1>3 DEF p, s

(* A number that is a fixnum or one turn of the word away from one. *)
LEMMA WrapIs ==
  ASSUME NEW z \in Int
  PROVE  /\ z \in Fixnum => Wrap(z) = z
         /\ Half <= z /\ z < 3 * Half => Wrap(z) = z - Word
         /\ -3 * Half <= z /\ z < -Half => Wrap(z) = z + Word
<1>1. Word \in Nat \ {0} /\ Half \in Nat /\ Word = 2 * Half
  BY Sizes
<1>2. ASSUME NEW q \in {-1, 0, 1}, 0 <= z + Half - Word * q, z + Half - Word * q < Word
      PROVE  Wrap(z) = z - Word * q
  <2>1. (z + Half) % Word = z + Half - Word * q
    <3>1. z + Half \in Int /\ q \in Int /\ z + Half - Word * q \in Int
      BY <1>1
    <3>2. z + Half = Word * q + (z + Half - Word * q)
      BY <1>1
    <3> QED BY <1>1, <1>2, <3>1, <3>2, OneRemainder, SMTT(30)
  <2> QED BY <1>1, <2>1 DEF Wrap
<1>3. z \in Fixnum => Wrap(z) = z
  <2>1. z \in Fixnum => 0 <= z + Half - Word * 0 /\ z + Half - Word * 0 < Word
    BY <1>1 DEF Fixnum
  <2> QED BY <1>1, <1>2, <2>1
<1>4. Half <= z /\ z < 3 * Half => Wrap(z) = z - Word
  <2>1. Half <= z /\ z < 3 * Half => 0 <= z + Half - Word * 1 /\ z + Half - Word * 1 < Word
    BY <1>1
  <2> QED BY <1>1, <1>2, <2>1
<1>5. -3 * Half <= z /\ z < -Half => Wrap(z) = z + Word
  <2>1. -3 * Half <= z /\ z < -Half => /\ 0 <= z + Half - Word * (-1)
                                       /\ z + Half - Word * (-1) < Word
    BY <1>1
  <2> QED BY <1>1, <1>2, <2>1
<1> QED BY <1>3, <1>4, <1>5

(* The code's tests for overflow, emulator.c:1879 and 1904. *)
LEMMA AddExact ==
  ASSUME NEW x \in Fixnum, NEW y \in Fixnum
  PROVE  Add(x, y) = IF x + y \in Fixnum THEN Done(<<x + y>>) ELSE Exception
<1>1. x \in Int /\ y \in Int /\ x + y \in Int /\ Half \in Nat /\ Half > 0 /\ Word = 2 * Half
  BY Sizes DEF Fixnum
<1>2. CASE x + y \in Fixnum
  BY <1>1, <1>2, WrapIs DEF Add, Fixnum
<1>3. CASE x + y >= Half
  <2>1. Wrap(x + y) = x + y - Word
    BY <1>1, <1>3, WrapIs DEF Fixnum
  <2> QED BY <1>1, <1>3, <2>1 DEF Add, Fixnum
<1>4. CASE x + y < -Half
  <2>1. Wrap(x + y) = x + y + Word
    BY <1>1, <1>4, WrapIs DEF Fixnum
  <2> QED BY <1>1, <1>4, <2>1 DEF Add, Fixnum
<1> QED BY <1>1, <1>2, <1>3, <1>4 DEF Fixnum

LEMMA SubExact ==
  ASSUME NEW x \in Fixnum, NEW y \in Fixnum
  PROVE  Sub(x, y) = IF x - y \in Fixnum THEN Done(<<x - y>>) ELSE Exception
<1>1. x \in Int /\ y \in Int /\ x - y \in Int /\ Half \in Nat /\ Half > 0 /\ Word = 2 * Half
  BY Sizes DEF Fixnum
<1>2. CASE x - y \in Fixnum
  BY <1>1, <1>2, WrapIs DEF Sub, Fixnum
<1>3. CASE x - y >= Half
  <2>1. Wrap(x - y) = x - y - Word
    BY <1>1, <1>3, WrapIs DEF Fixnum
  <2> QED BY <1>1, <1>3, <2>1 DEF Sub, Fixnum
<1>4. CASE x - y < -Half
  <2>1. Wrap(x - y) = x - y + Word
    BY <1>1, <1>4, WrapIs DEF Fixnum
  <2> QED BY <1>1, <1>4, <2>1 DEF Sub, Fixnum
<1> QED BY <1>1, <1>2, <1>3, <1>4 DEF Fixnum

LEMMA MultiplyExact ==
  ASSUME NEW x \in Fixnum, NEW y \in Fixnum
  PROVE  Multiply(x, y) = IF x * y \in Fixnum THEN Done(<<x * y>>) ELSE Exception
<1>1. x * y \in Int /\ Half \in Nat
  BY Sizes DEF Fixnum
<1> QED BY <1>1, WrapIs DEF Multiply, Fixnum

(* Signs of products, and what is no multiple.                             *)
LEMMA Signs ==
  ASSUME NEW a \in Int, NEW b \in Int
  PROVE  /\ (a >= 0 /\ b >= 0) \/ (a <= 0 /\ b <= 0) => a * b >= 0
         /\ (a >= 0 /\ b <= 0) \/ (a <= 0 /\ b >= 0) => a * b <= 0
         /\ (a > 0 /\ b < 0) \/ (a < 0 /\ b > 0) => a * b < 0
OBVIOUS

LEMMA NoMultiple ==
  ASSUME NEW d \in Int, NEW y \in Int, NEW r \in Int, r # 0, d * y = r,
         Magnitude(r) < Magnitude(y)
  PROVE  FALSE
<1>1. d # 0
  OBVIOUS
<1> QED BY <1>1 DEF Magnitude

(* C's division: the remainder has the dividend's sign.                    *)
LEMMA Division ==
  ASSUME NEW x \in Int, NEW y \in Int, y # 0
  PROVE  LET q == CQuotient(x, y)
             r == Remainder(x, y)
         IN  /\ q \in Int /\ r \in Int /\ x = q * y + r
             /\ Magnitude(r) < Magnitude(y)
             /\ x >= 0 => r >= 0
             /\ x <= 0 => r <= 0
<1> DEFINE a == Magnitude(x)
           b == Magnitude(y)
           m == a \div b
           s == a % b
<1>1. a \in Nat /\ b \in Nat /\ b > 0
  BY DEF Magnitude
<1> HIDE DEF a, b
<1>2. m \in Nat /\ s \in Nat /\ a = b * m + s /\ s < b
  BY <1>1
<1>3. CASE x < 0 /\ y < 0
  <2>1. a = -x /\ b = -y /\ CQuotient(x, y) = m
    BY <1>3 DEF CQuotient, a, b, Magnitude
  <2>2. Remainder(x, y) = -s
    <3> HIDE DEF m, s
    <3>1. Remainder(x, y) = x - y * m
      BY <2>1 DEF Remainder
    <3>2. b * m = -(y * m)
      BY <1>2, <2>1
    <3> QED BY <1>2, <2>1, <3>1, <3>2
  <2> HIDE DEF m, s
  <2>3. x = m * y + (-s)
    BY <1>2, <2>1
  <2> QED BY <1>2, <1>3, <2>1, <2>2, <2>3 DEF Magnitude
<1>4. CASE x >= 0 /\ y > 0
  <2>1. a = x /\ b = y /\ CQuotient(x, y) = m
    BY <1>4 DEF CQuotient, a, b, Magnitude
  <2> HIDE DEF m, s
  <2>2. Remainder(x, y) = s /\ x = m * y + s
    BY <1>2, <2>1 DEF Remainder
  <2> QED BY <1>2, <1>4, <2>1, <2>2 DEF Magnitude
<1>5. CASE x < 0 /\ y > 0
  <2>1. a = -x /\ b = y /\ CQuotient(x, y) = -m
    BY <1>5 DEF CQuotient, a, b, Magnitude
  <2> HIDE DEF m, s
  <2>2. y * (-m) = -(b * m) /\ (-m) * y = -(b * m)
    BY <1>2, <2>1
  <2>3. Remainder(x, y) = -s /\ x = (-m) * y + (-s)
    BY <1>2, <2>1, <2>2 DEF Remainder
  <2> QED BY <1>2, <1>5, <2>1, <2>3 DEF Magnitude
<1>6. CASE x >= 0 /\ y < 0
  <2>1. a = x /\ b = -y /\ CQuotient(x, y) = -m
    BY <1>6 DEF CQuotient, a, b, Magnitude
  <2> HIDE DEF m, s
  <2>2. y * (-m) = b * m /\ (-m) * y = b * m
    BY <1>2, <2>1
  <2>3. Remainder(x, y) = s /\ x = (-m) * y + s
    BY <1>2, <2>1, <2>2 DEF Remainder
  <2> QED BY <1>2, <1>6, <2>1, <2>3 DEF Magnitude
<1> QED BY <1>3, <1>4, <1>5, <1>6

-----------------------------------------------------------------------------
(* What the instructions can do. *)
ExactOnes == {"add", "sub", "multiply", "unary-minus"}
Exactly(i, x, y) == CASE i = "add"         -> x + y
                      [] i = "sub"         -> x - y
                      [] i = "multiply"    -> x * y
                      [] i = "unary-minus" -> -y

LEMMA ExactOutcomes ==
  ASSUME NEW x \in Fixnum, NEW y \in Fixnum, NEW i \in ExactOnes, NEW o \in Outcomes(i, x, y)
  PROVE  /\ Exactly(i, x, y) \in Int
         /\ o = IF Exactly(i, x, y) \in Fixnum THEN Done(<<Exactly(i, x, y)>>) ELSE Exception
<1>1. x \in Int /\ y \in Int
  BY Sizes DEF Fixnum
<1>2. CASE i = "add"
  BY <1>1, <1>2, AddExact DEF Outcomes, Exactly
<1>3. CASE i = "sub"
  BY <1>1, <1>3, SubExact DEF Outcomes, Exactly
<1>4. CASE i = "multiply"
  BY <1>1, <1>4, MultiplyExact DEF Outcomes, Exactly
<1>5. CASE i = "unary-minus"
  <2>1. o = UnaryMinus(x, y) /\ Exactly(i, x, y) = -y
    BY <1>5 DEF Outcomes, Exactly
  <2>2. -y \in Fixnum <=> y # -Half
    BY <1>1, Sizes DEF Fixnum
  <2> QED BY <1>1, <2>1, <2>2 DEF UnaryMinus
<1> QED BY <1>2, <1>3, <1>4, <1>5 DEF ExactOnes

NotDivided(x, y, o) == (o = Illegal /\ y = 0) \/ (o = Exception /\ x = -Half /\ y = -1)

LEMMA RationalOutcome ==
  ASSUME NEW x \in Fixnum, NEW y \in Fixnum, NEW o \in Outcomes("rational-quotient", x, y)
  PROVE  \/ o = Illegal /\ y = 0
         \/ o = Exception /\ y # 0 /\ \A q \in Fixnum : q * y # x
         \/ \E q \in Int : o = Done(<<q>>) /\ q * y = x
<1>1. x \in Int /\ y \in Int /\ o = RationalQuotient(x, y) /\ Half \in Nat /\ Half > 0
  BY Sizes DEF Fixnum, Outcomes
<1>2. CASE y = 0
  BY <1>1, <1>2 DEF RationalQuotient, Divide
<1>3. CASE x = -Half /\ y = -1
  <2>1. \A q \in Fixnum : q * y # x
    BY <1>1, <1>3 DEF Fixnum
  <2> QED BY <1>1, <1>3, <2>1 DEF RationalQuotient, Divide
<1>4. CASE y # 0 /\ ~(x = -Half /\ y = -1)
  <2> DEFINE p == CQuotient(x, y)
             r == Remainder(x, y)
  <2>1. p \in Int /\ r \in Int /\ x = p * y + r /\ Magnitude(r) < Magnitude(y)
    BY <1>1, <1>4, Division
  <2>2. o = IF r = 0 THEN Done(<<p>>) ELSE Exception
    BY <1>1, <1>4 DEF RationalQuotient, Divide
  <2> HIDE DEF p, r
  <2>3. CASE r = 0
    BY <1>1, <2>1, <2>2, <2>3
  <2>4. CASE r # 0
    <3>1. SUFFICES ASSUME NEW q \in Fixnum, q * y = x PROVE FALSE
      BY <1>4, <2>2, <2>4
    <3>2. q \in Int
      BY <1>1 DEF Fixnum
    <3>3. (q - p) * y = r
      BY <1>1, <2>1, <3>1, <3>2
    <3>4. q - p \in Int
      BY <2>1, <3>2
    <3> QED BY <1>1, <2>1, <2>4, <3>3, <3>4, NoMultiple
  <2> QED BY <2>3, <2>4
<1> QED BY <1>2, <1>3, <1>4

LEMMA QuotientOutcome ==
  ASSUME NEW x \in Fixnum, NEW y \in Fixnum, NEW o \in Outcomes("quotient", x, y)
  PROVE  \/ NotDivided(x, y, o)
         \/ \E q \in Int : /\ o = Done(<<q>>)
                           /\ \E t \in Fixnum : /\ x = q * y + t
                                                /\ Magnitude(t) < Magnitude(y) /\ t * x >= 0
<1>1. x \in Int /\ y \in Int /\ o = Quotient(x, y) /\ Half \in Nat /\ Half > 0
  BY Sizes DEF Fixnum, Outcomes
<1>2. CASE y = 0 \/ (x = -Half /\ y = -1)
  BY <1>1, <1>2 DEF Quotient, Divide, NotDivided
<1>3. CASE y # 0 /\ ~(x = -Half /\ y = -1)
  <2> DEFINE p == CQuotient(x, y)
             r == Remainder(x, y)
  <2>1. /\ p \in Int /\ r \in Int /\ x = p * y + r /\ Magnitude(r) < Magnitude(y)
        /\ x >= 0 => r >= 0
        /\ x <= 0 => r <= 0
    BY <1>1, <1>3, Division
  <2>2. o = Done(<<p>>)
    BY <1>1, <1>3 DEF Quotient, Divide
  <2> HIDE DEF p, r
  <2>3. r * x >= 0
    BY <1>1, <2>1, Signs
  <2>4. r \in Fixnum
    BY <1>1, <2>1 DEF Fixnum, Magnitude
  <2> QED BY <2>1, <2>2, <2>3, <2>4
<1> QED BY <1>2, <1>3

(* FLOOR, CEILING, TRUNCATE and ROUND take C's quotient, or one further.   *)
Sided(i, x, y, q, r) ==
    /\ x = q * y + r /\ Magnitude(r) < Magnitude(y)
    /\ i = "floor"    => r * y >= 0
    /\ i = "ceiling"  => r * y <= 0
    /\ i = "truncate" => r * x >= 0
    /\ i = "round" =>
          /\ 2 * Magnitude(r) <= Magnitude(y)
          /\ 2 * Magnitude(r) = Magnitude(y) => q % 2 = 0
Divided(i, x, y, o) ==
    \/ NotDivided(x, y, o)
    \/ \E q, r \in Int : o = Done(<<q, r>>) /\ ((i = "round" /\ x * y < 0) \/ Sided(i, x, y, q, r))

LEMMA DivisionOutcome ==
  ASSUME NEW x \in Fixnum, NEW y \in Fixnum,
         NEW i \in {"floor", "ceiling", "truncate", "round"}, NEW o \in Outcomes(i, x, y)
  PROVE  Divided(i, x, y, o)
<1>1. /\ x \in Int /\ y \in Int /\ Half \in Nat /\ Half > 0 /\ Word = 2 * Half
      /\ -Half <= x /\ x < Half /\ -Half <= y /\ y < Half
  BY Sizes DEF Fixnum
<1>2. o = CASE i = "floor"    -> Floor(x, y)
            [] i = "ceiling"  -> Ceiling(x, y)
            [] i = "truncate" -> Truncate(x, y)
            [] i = "round"    -> Round(x, y)
  BY DEF Outcomes
<1>3. CASE y = 0 \/ (x = -Half /\ y = -1)
  <2>1. o = IF y = 0 THEN Illegal ELSE Exception
    BY <1>2, <1>3 DEF Floor, Ceiling, Truncate, Round, Divide
  <2> QED BY <1>3, <1>1, <2>1 DEF Divided, NotDivided
<1>4. CASE y # 0 /\ ~(x = -Half /\ y = -1)
  <2> DEFINE p == CQuotient(x, y)
             s == Remainder(x, y)
             temp == Wrap(y - s - s)
             further == IF temp = 0 THEN p % 2 = 1 ELSE IF y > 0 THEN temp < 0 ELSE temp > 0
  <2>1. /\ p \in Int /\ s \in Int /\ x = p * y + s /\ Magnitude(s) < Magnitude(y)
        /\ x >= 0 => s >= 0
        /\ x <= 0 => s <= 0
    BY <1>1, <1>4, Division
  <2>2. /\ i = "truncate" => o = Done(<<p, s>>)
        /\ i = "floor" => o = IF s # 0 /\ ((s >= 0) # (y >= 0))
                              THEN Done(<<p - 1, s + y>>) ELSE Done(<<p, s>>)
        /\ i = "ceiling" => o = IF s # 0 /\ ((s >= 0) = (y >= 0))
                                THEN Done(<<p + 1, s - y>>) ELSE Done(<<p, s>>)
        /\ i = "round" => o = IF further THEN Done(<<p + 1, Wrap(s - y)>>) ELSE Done(<<p, s>>)
    BY <1>1, <1>2, <1>4 DEF Floor, Ceiling, Truncate, Round, Divide
  <2>3. (p - 1) * y = p * y - y /\ (p + 1) * y = p * y + y
    <3> HIDE DEF p, s
    <3> QED BY <1>1, <2>1
  <2> HIDE DEF p, s, temp, further
  <2>4. CASE i = "truncate"
    <3>1. s * x >= 0
      BY <1>1, <2>1, Signs
    <3> QED BY <2>1, <2>2, <2>4, <3>1 DEF Divided, Sided
  <2>5. CASE i = "floor"
    <3>1. CASE s # 0 /\ ((s >= 0) # (y >= 0))
      <4>1. o = Done(<<p - 1, s + y>>) /\ p - 1 \in Int /\ s + y \in Int
        BY <1>1, <2>1, <2>2, <2>5, <3>1
      <4>2. x = (p - 1) * y + (s + y) /\ Magnitude(s + y) < Magnitude(y)
        BY <1>1, <2>1, <2>3, <3>1 DEF Magnitude
      <4>3. (s + y) * y >= 0
        BY <1>1, <2>1, <3>1, <4>1, Signs DEF Magnitude
      <4> QED BY <2>5, <4>1, <4>2, <4>3 DEF Divided, Sided
    <3>2. CASE ~(s # 0 /\ ((s >= 0) # (y >= 0)))
      <4>1. s * y >= 0
        BY <1>1, <2>1, <3>2, Signs
      <4> QED BY <2>1, <2>2, <2>5, <3>2, <4>1 DEF Divided, Sided
    <3> QED BY <3>1, <3>2
  <2>6. CASE i = "ceiling"
    <3>1. CASE s # 0 /\ ((s >= 0) = (y >= 0))
      <4>1. o = Done(<<p + 1, s - y>>) /\ p + 1 \in Int /\ s - y \in Int
        BY <1>1, <2>1, <2>2, <2>6, <3>1
      <4>2. x = (p + 1) * y + (s - y) /\ Magnitude(s - y) < Magnitude(y)
        BY <1>1, <2>1, <2>3, <3>1 DEF Magnitude
      <4>3. (s - y) * y <= 0
        BY <1>1, <2>1, <3>1, <4>1, Signs DEF Magnitude
      <4> QED BY <2>6, <4>1, <4>2, <4>3 DEF Divided, Sided
    <3>2. CASE ~(s # 0 /\ ((s >= 0) = (y >= 0)))
      <4>1. s * y <= 0
        BY <1>1, <1>4, <2>1, <3>2, Signs
      <4> QED BY <2>1, <2>2, <2>6, <3>2, <4>1 DEF Divided, Sided
    <3> QED BY <3>1, <3>2
  <2>7. CASE i = "round"
    <3>1. CASE x * y < 0
      <4>1. Wrap(s - y) \in Int
        BY <1>1, <2>1 DEF Wrap
      <4>2. \E q, r \in Int : o = Done(<<q, r>>)
        <5>1. CASE further
          BY <2>1, <2>2, <2>7, <4>1, <5>1
        <5>2. CASE ~further
          BY <2>1, <2>2, <2>7, <5>2
        <5> QED BY <5>1, <5>2
      <4> QED BY <2>7, <3>1, <4>2 DEF Divided
    <3>2. CASE ~(x * y < 0)
      <4>1. (x >= 0 /\ y > 0) \/ (x <= 0 /\ y < 0)
        BY <1>1, <1>4, <3>2, Signs
      <4>2. y - s - s \in Fixnum
        BY <1>1, <2>1, <4>1 DEF Fixnum, Magnitude
      <4>3. temp = y - s - s
        BY <1>1, <2>1, <4>2, WrapIs DEF temp
      <4>4. CASE further
        <5>1. s - y \in Fixnum
          BY <1>1, <2>1, <4>1, <4>3, <4>4 DEF Fixnum, Magnitude, further
        <5>2. o = Done(<<p + 1, s - y>>) /\ p + 1 \in Int /\ s - y \in Int
          BY <1>1, <2>1, <2>2, <2>7, <4>4, <5>1, WrapIs
        <5>3. x = (p + 1) * y + (s - y) /\ Magnitude(s - y) < Magnitude(y)
              /\ 2 * Magnitude(s - y) <= Magnitude(y)
          BY <1>1, <2>1, <2>3, <4>1, <4>3, <4>4 DEF Magnitude, further
        <5>4. 2 * Magnitude(s - y) = Magnitude(y) => (p + 1) % 2 = 0
          <6>1. 2 * Magnitude(s - y) = Magnitude(y) => temp = 0
            BY <1>1, <2>1, <4>1, <4>3 DEF Magnitude
          <6> QED BY <2>1, <4>4, <6>1 DEF further
        <5> QED BY <2>7, <5>2, <5>3, <5>4 DEF Divided, Sided
      <4>5. CASE ~further
        <5>1. 2 * Magnitude(s) <= Magnitude(y)
          BY <1>1, <2>1, <4>1, <4>3, <4>5 DEF Magnitude, further
        <5>2. 2 * Magnitude(s) = Magnitude(y) => p % 2 = 0
          <6>1. 2 * Magnitude(s) = Magnitude(y) => temp = 0
            BY <1>1, <2>1, <4>1, <4>3 DEF Magnitude
          <6> QED BY <2>1, <4>5, <6>1 DEF further
        <5> QED BY <2>1, <2>2, <2>7, <4>5, <5>1, <5>2 DEF Divided, Sided
      <4> QED BY <4>4, <4>5
    <3> QED BY <3>1, <3>2
  <2> QED BY <2>4, <2>5, <2>6, <2>7
<1> QED BY <1>3, <1>4

-----------------------------------------------------------------------------
(* The words an instruction leaves: those below its operands, and then its *)
(* values.                                                                 *)
Cells == [t : Types, v : Int]

LEMMA Leaving ==
  ASSUME NEW s \in Seq(Words), NEW k \in Nat, k <= Len(s),
         NEW values \in Seq(Int)
  PROVE  LET left == SubSeq(s, 1, k) \o [j \in 1 .. Len(values) |-> Fixnum1(values[j])]
         IN  /\ left \in Seq(Cells)
             /\ Len(left) = k + Len(values)
             /\ \A j \in 1 .. Len(values) : left[k + j].v = values[j]
<1> DEFINE above == [j \in 1 .. Len(values) |-> Fixnum1(values[j])]
<1>1. SubSeq(s, 1, k) \in Seq(Cells) /\ Len(SubSeq(s, 1, k)) = k
  <2>1. \A j \in 1 .. k : s[j] \in Cells
    BY LenProperties DEF Words, Cells
  <2> QED BY <2>1, SubSeqProperties
<1>2. Len(values) \in Nat /\ values \in [1 .. Len(values) -> Int]
  BY LenProperties
<1>3. \A j \in 1 .. Len(values) : above[j] \in Cells /\ above[j].v = values[j]
  BY <1>2 DEF Fixnum1, Cells, Types
<1>4. above \in Seq(Cells) /\ Len(above) = Len(values)
  <2>1. above \in [1 .. Len(values) -> Cells]
    BY <1>2, <1>3
  <2>2. above \in Seq(Cells)
    BY <1>2, <2>1, SeqDef
  <2> QED BY <1>2, <2>1, <2>2, LenProperties
<1> DEFINE below == SubSeq(s, 1, k)
<1>5. below \in Seq(Cells) /\ Len(below) = k
  BY <1>1
<1> HIDE DEF above, below
<1>6. /\ below \o above \in Seq(Cells)
      /\ Len(below \o above) = k + Len(values)
      /\ \A i \in 1 .. k + Len(values) :
            (below \o above)[i] = IF i <= k THEN below[i] ELSE above[i - k]
  <2>1. /\ below \o above \in Seq(Cells)
        /\ Len(below \o above) = Len(below) + Len(above)
        /\ \A i \in 1 .. Len(below) + Len(above) :
              (below \o above)[i] = IF i <= Len(below) THEN below[i] ELSE above[i - Len(below)]
    BY <1>4, <1>5, ConcatProperties
  <2> QED BY <1>4, <1>5, <2>1
<1>7. ASSUME NEW j \in 1 .. Len(values)
      PROVE  (below \o above)[k + j].v = values[j]
  <2>1. k + j \in 1 .. k + Len(values) /\ ~(k + j <= k) /\ k + j - k = j
    BY <1>2
  <2> QED BY <1>3, <1>6, <2>1, SMTT(30)
<1> QED BY <1>6, <1>7 DEF above, below

(***************************************************************************)
(* An instruction on numbers is one step, from the words it was fetched    *)
(* on.                                                                     *)
(***************************************************************************)
Numerical == Binary \cup Counting

Ready ==
    /\ stack = was.stack
    /\ op.phase = "begin"
    /\ op.m \in Modes
    /\ op.i \in Counting => op.m = "local"
    /\ Len(stack) >= (IF op.m = "pop" THEN 2 ELSE 1)

Executing == op = [in |-> "run", i |-> op.i, m |-> op.m, byte |-> op.byte, phase |-> op.phase,
                   vma |-> op.vma, scratch |-> op.scratch, car |-> op.car, cdr |-> op.cdr]
Found == was = [stack |-> was.stack, memory |-> was.memory, spilled |-> was.spilled]

NumbersInv ==
    /\ Found
    /\ was.stack \in Seq(Words)
    /\ op = Idle => stack = was.stack
    /\ op.in = "run" => Executing
    /\ op.in = "run" /\ op.i \in Numerical => Ready
    /\ op.in = "trapped" => op.i \notin Numerical
    /\ op.in = "done" => FixnumExact /\ DivisionRight

LEMMA NumbersInit == Init => NumbersInv
<1> SUFFICES ASSUME Init PROVE NumbersInv
  OBVIOUS
<1>1. PICK s \in Starts : stack = s.stack
  BY DEF Init
<1>2. stack \in Seq(Words)
  BY <1>1, InstructionsAssumption DEF InstructionsAssumption
<1>3. op.in = "idle" /\ was = [stack |-> stack, memory |-> memory, spilled |-> FALSE]
  BY DEF Init, Idle
<1> QED BY <1>2, <1>3 DEF NumbersInv, Found

(* An instruction on lists or bytes stays one, and gives nothing to say of *)
(* numbers.                                                                *)
LEMMA OthersKept ==
  ASSUME NumbersInv, op.in = "run", op'.in \in {"run", "done", "trapped"},
         op'.i = op.i, op.i \notin Numerical, was'.stack = was.stack, Found',
         op'.in = "run" => Executing'
  PROVE  NumbersInv'
<1>1. op' # Idle
  BY DEF Idle
<1>2. /\ op.i \notin {"add", "sub", "multiply", "unary-minus", "increment", "decrement"}
      /\ op.i # "rational-quotient"
      /\ op.i \notin {"floor", "ceiling", "truncate", "round", "quotient"}
  BY DEF Numerical, Binary, Counting
<1>3. FixnumExact' /\ DivisionRight'
  BY <1>2 DEF FixnumExact, DivisionRight, OnFixnums
<1> QED BY <1>1, <1>3 DEF NumbersInv

LEMMA ListStepOnNumbers ==
  ASSUME NumbersInv, ListStep, op.i \in Numerical
  PROVE  CountStep
<1>1. op.in = "run" /\ op.phase = "begin"
  BY DEF NumbersInv, Ready, ListStep, BeginCar, BeginCdr, BeginSetToCar, BeginSetToCdr,
         BeginSetToCdrPushCar, BeginRplaca, BeginRplacd, BeginSearch, Begin, Running, LoopStep,
         CarRead, CdrRead, RplacdRead, RestRead, TestMember, TestAssoc, TestRgetf, KeyRead,
         ValueRead, Store, FollowForward, ErrorTrap, CountStep, FieldStep, Accessing
<1>2. ~Accessing
  BY <1>1 DEF Accessing, Accesses, DataReads, CdrReads
<1>3. op.i \notin Simple \cup Searches \cup Stores \cup Fields
  BY DEF Numerical, Binary, Counting, Simple, Searches, Stores, Fields
<1> QED BY <1>1, <1>2, <1>3
      DEF ListStep, BeginCar, BeginCdr, BeginSetToCar, BeginSetToCdr, BeginSetToCdrPushCar,
          BeginRplaca, BeginRplacd, BeginSearch, Begin, Running, LoopStep, CarRead, CdrRead,
          RplacdRead, RestRead, TestMember, TestAssoc, TestRgetf, KeyRead, ValueRead, Store,
          FollowForward, ErrorTrap, FieldStep, Simple, Searches, Stores, Fields

(* The ways an instruction goes on or ends keep what it is.                *)
Goes ==
    /\ op.in = "run" /\ op'.in \in {"run", "done"}
    /\ op'.i = op.i /\ op'.m = op.m /\ was' = was
    /\ op'.in = "run" => Executing'

LEMMA Turns ==
  ASSUME Executing, op.in = "run", NEW p, NEW v, NEW c, NEW d, was' = was,
         \/ op' = [op EXCEPT !.phase = p, !.vma = v]
         \/ op' = [op EXCEPT !.phase = p, !.scratch = v]
         \/ op' = [op EXCEPT !.phase = p, !.cdr = v]
         \/ op' = [op EXCEPT !.car = c, !.phase = p, !.vma = v]
         \/ op' = [op EXCEPT !.vma = v]
         \/ op' = [op EXCEPT !.in = "done", !.phase = p]
  PROVE  Goes
<1>1. CASE op' = [op EXCEPT !.phase = p, !.vma = v]
  BY <1>1 DEF Goes, Executing
<1>2. CASE op' = [op EXCEPT !.phase = p, !.scratch = v]
  BY <1>2 DEF Goes, Executing
<1>3. CASE op' = [op EXCEPT !.phase = p, !.cdr = v]
  BY <1>3 DEF Goes, Executing
<1>4. CASE op' = [op EXCEPT !.car = c, !.phase = p, !.vma = v]
  BY <1>4 DEF Goes, Executing
<1>5. CASE op' = [op EXCEPT !.vma = v]
  BY <1>5 DEF Goes, Executing
<1>6. CASE op' = [op EXCEPT !.in = "done", !.phase = p]
  BY <1>6 DEF Goes, Executing
<1> QED BY <1>1, <1>2, <1>3, <1>4, <1>5, <1>6

LEMMA ContinueGoes ==
  ASSUME Executing, op.in = "run", NEW p, NEW v, Continue(p, v) PROVE Goes
BY Turns DEF Continue

LEMMA LoopGoes == ASSUME Executing, op.in = "run", NEW l, Loop(l) PROVE Goes
BY Turns DEF Loop

LEMMA LeavesGoes ==
  ASSUME Executing, op.in = "run", NEW words, NEW how, Leaves(words, how) PROVE Goes
BY Turns DEF Leaves

LEMMA CompletesGoes == ASSUME Executing, op.in = "run", NEW words, Completes(words) PROVE Goes
BY LeavesGoes DEF Completes

LEMMA ExceptsGoes == ASSUME Executing, op.in = "run", NEW how, Excepts(how) PROVE Goes
BY LeavesGoes DEF Excepts

LEMMA ListExceptionGoes ==
  ASSUME Executing, op.in = "run", NEW x, ListException(x) PROVE Goes
BY ExceptsGoes DEF ListException

LEMMA FixnumExceptionGoes ==
  ASSUME Executing, op.in = "run", NEW i, NEW xs, FixnumException(i, xs) PROVE Goes
BY ExceptsGoes DEF FixnumException

LEMMA GotCdrGoes ==
  ASSUME Executing, op.in = "run", NEW v, GotCdr(v) PROVE Goes
<1>1. CASE op.i \in {"cdr", "set-to-cdr", "set-to-cdr-push-car"}
  BY <1>1, CompletesGoes DEF GotCdr
<1>2. CASE op.i = "rgetf" /\ op.phase \in {"skip", "skiprest"}
  BY <1>2, LoopGoes DEF GotCdr
<1>3. CASE /\ op.i \notin {"cdr", "set-to-cdr", "set-to-cdr-push-car"}
           /\ ~(op.i = "rgetf" /\ op.phase \in {"skip", "skiprest"})
  BY <1>3, Turns DEF GotCdr
<1> QED BY <1>1, <1>2, <1>3

LEMMA ListStepGoes ==
  ASSUME NumbersInv, ListStep
  PROVE  Goes
<1>1. op.in = "run"
  BY DEF ListStep, BeginCar, BeginCdr, BeginSetToCar, BeginSetToCdr,
         BeginSetToCdrPushCar, BeginRplaca, BeginRplacd, BeginSearch, Begin, Running, LoopStep,
         CarRead, CdrRead, RplacdRead, RestRead, TestMember, TestAssoc, TestRgetf, KeyRead,
         ValueRead, Store, FollowForward, ErrorTrap, CountStep, FieldStep, Accessing
<1>2. Executing
  BY <1>1 DEF NumbersInv
<1>3. CASE BeginCar \/ BeginSetToCar \/ BeginSetToCdrPushCar
  BY <1>1, <1>2, <1>3, ContinueGoes, CompletesGoes, ListExceptionGoes
     DEF BeginCar, BeginSetToCar, BeginSetToCdrPushCar, CarOf
<1>4. CASE BeginCdr \/ BeginSetToCdr
  BY <1>1, <1>2, <1>4, ContinueGoes, CompletesGoes, ListExceptionGoes
     DEF BeginCdr, BeginSetToCdr, CdrOf
<1>5. CASE BeginRplaca \/ BeginRplacd
  BY <1>1, <1>2, <1>5, ContinueGoes, ListExceptionGoes DEF BeginRplaca, BeginRplacd
<1>6. CASE BeginSearch \/ LoopStep
  BY <1>1, <1>2, <1>6, ContinueGoes, CompletesGoes, LoopGoes, ExceptsGoes, ListExceptionGoes
     DEF BeginSearch, LoopStep
<1>7. CASE CarRead
  <2>1. CASE op.i \in {"car", "set-to-car"}
    BY <1>1, <1>2, <1>7, <2>1, CompletesGoes DEF CarRead
  <2>2. CASE op.i \notin {"car", "set-to-car"}
    <3> DEFINE p == IF op.i = "set-to-cdr-push-car" /\ Arg(op).t = "locative"
                    THEN "rest" ELSE "cdr"
               v == IF op.i = "set-to-cdr-push-car" THEN Arg(op).v ELSE op.scratch.v
               c == Object(At)
    <3>1. was' = was /\ op' = [op EXCEPT !.car = c, !.phase = p, !.vma = v]
      BY <1>7, <2>2 DEF CarRead
    <3> HIDE DEF p, v, c
    <3> QED BY <1>1, <1>2, <3>1, Turns
  <2> QED BY <2>1, <2>2
<1>8. CASE CdrRead
  BY <1>1, <1>2, <1>8, GotCdrGoes, ContinueGoes, ExceptsGoes DEF CdrRead
<1>9. CASE RplacdRead \/ RestRead
  BY <1>1, <1>2, <1>9, GotCdrGoes, ContinueGoes, ExceptsGoes DEF RplacdRead, RestRead
<1>10. CASE TestMember \/ TestAssoc \/ KeyRead \/ ValueRead
  BY <1>1, <1>2, <1>10, LoopGoes, CompletesGoes, ContinueGoes, ListExceptionGoes
     DEF TestMember, TestAssoc, KeyRead, ValueRead
<1>11. CASE TestRgetf
  BY <1>1, <1>2, <1>11, LoopGoes, ContinueGoes, ExceptsGoes, ListExceptionGoes
     DEF TestRgetf, CdrOf
<1>12. CASE Store \/ ErrorTrap
  BY <1>1, <1>2, <1>12, LeavesGoes DEF Store, ErrorTrap
<1>13. CASE FollowForward
  BY <1>1, <1>2, <1>13, Turns DEF FollowForward
<1>14. CASE CountStep \/ FieldStep
  BY <1>1, <1>2, <1>14, CompletesGoes, FixnumExceptionGoes DEF CountStep, FieldStep
<1> QED BY <1>3, <1>4, <1>5, <1>6, <1>7, <1>8, <1>9, <1>10, <1>11, <1>12, <1>13, <1>14
        DEF ListStep

(* An instruction given up is one on lists, and stays what it is.          *)
LEMMA GivenUpKept ==
  ASSUME NumbersInv, op.in = "run", op.i \notin Numerical, NEW vector, NEW words,
         GivenUp(vector, words)
  PROVE  NumbersInv'
<1>1. Found /\ was.stack \in Seq(Words)
  BY DEF NumbersInv
<1>2. was' = [stack |-> was.stack, memory |-> was.memory, spilled |-> was'.spilled]
  BY <1>1 DEF GivenUp, Found
<1>3. op'.in = "trapped" /\ op'.i = op.i
  BY DEF GivenUp
<1>4. Found' /\ was'.stack = was.stack
  BY <1>2 DEF Found
<1> QED BY <1>3, <1>4, OthersKept

LEMMA TrapsKept ==
  ASSUME NumbersInv, TransportTrap \/ MonitorTrap \/ PageFault \/ SequenceBreak
  PROVE  NumbersInv'
<1>1. op.in = "run" /\ op.phase # "begin"
  BY DEF TransportTrap, MonitorTrap, PageFault, SequenceBreak, Accessing, Accesses, DataReads,
         CdrReads, Running
<1>2. op.i \notin Numerical
  BY <1>1 DEF NumbersInv, Ready
<1>3. \E vector, words : GivenUp(vector, words)
  BY DEF TransportTrap, MonitorTrap, PageFault, SequenceBreak
<1> QED BY <1>1, <1>2, <1>3, GivenUpKept

LEMMA FetchKept ==
  ASSUME NumbersInv, NEW i, NEW m \in Modes, NEW b, Fetch(i, m, b)
  PROVE  NumbersInv'
<1>1. /\ op = Idle /\ stack' = stack /\ was' = was /\ stack = was.stack
      /\ op' = Fetched(i, m, b)
      /\ Found /\ was.stack \in Seq(Words)
  BY DEF Fetch, NumbersInv
<1>2. /\ op'.in = "run" /\ op'.i = i /\ op'.m = m /\ op'.phase = "begin" /\ Executing'
      /\ op' # Idle
  BY <1>1 DEF Fetched, Executing, Idle
<1>3. i \in Numerical => Ready'
  <2>1. SUFFICES ASSUME i \in Numerical PROVE Ready'
    OBVIOUS
  <2>2. i \notin Simple /\ i # "dpb"
    BY <2>1 DEF Numerical, Binary, Counting, Simple
  <2>3. Len(stack) >= (IF m = "local" THEN 1 ELSE 2) /\ (i \in Counting => m = "local")
    BY <2>2 DEF Fetch
  <2>4. Len(stack) >= (IF m = "pop" THEN 2 ELSE 1)
    BY <2>3 DEF Modes
  <2> QED BY <1>1, <1>2, <2>3, <2>4 DEF Ready
<1> QED BY <1>1, <1>2, <1>3 DEF NumbersInv, Found

LEMMA HandleKept == ASSUME NumbersInv, Handle PROVE NumbersInv'
<1>1. /\ op.in = "trapped" /\ was' = was /\ op.i \notin Numerical
      /\ op' = Fetched(op.i, op.m, op.byte) /\ Found /\ was.stack \in Seq(Words)
  BY DEF Handle, NumbersInv
<1>2. op'.in = "run" /\ op'.i = op.i /\ Executing' /\ op' # Idle
  BY <1>1 DEF Fetched, Executing, Idle
<1> QED BY <1>1, <1>2 DEF NumbersInv, Found

-----------------------------------------------------------------------------
(* What an instruction on numbers finds is still there when it ends.       *)
LEMMA Operated ==
  ASSUME NumbersInv, op.in = "run", op.i \in Numerical
  PROVE  /\ Len(stack) \in Nat /\ WasSP \in 1 .. Len(stack) /\ stack = was.stack
         /\ stack \in Seq(Words)
         /\ SP(op) = WasSP /\ TOS(op) = WasTOS /\ Arg(op) = WasArg
         /\ WasTOS.t = "fixnum" => X \in Fixnum
         /\ WasArg.t = "fixnum" => Y \in Fixnum
<1>1. Ready /\ was.stack \in Seq(Words)
  BY DEF NumbersInv
<1>2. /\ stack \in Seq(Words) /\ stack = was.stack /\ Len(stack) \in Nat
      /\ Len(stack) >= (IF op.m = "pop" THEN 2 ELSE 1)
      /\ \A k \in 1 .. Len(stack) : stack[k] \in Words
  BY <1>1, LenProperties DEF Ready
<1>3. SP(op) = WasSP /\ TOS(op) = WasTOS /\ Arg(op) = WasArg
  BY <1>2 DEF SP, WasSP, TOS, WasTOS, Arg, WasArg, Slot
<1>4. WasSP \in 1 .. Len(stack) /\ Slot(op) \in 1 .. Len(stack)
  BY <1>2 DEF WasSP, Slot
<1>5. WasTOS \in Words /\ WasArg \in Words
  BY <1>2, <1>3, <1>4 DEF WasTOS, Arg
<1> QED BY <1>2, <1>3, <1>4, <1>5 DEF Words, X, Y

LEMMA StillThere ==
  ASSUME Goes
  PROVE  /\ WasSP' = WasSP /\ WasTOS' = WasTOS /\ WasArg' = WasArg /\ X' = X /\ Y' = Y
         /\ \A is : OnFixnums(is)' <=> /\ op'.in = "done" /\ op.i \in is
                                       /\ WasTOS.t = "fixnum" /\ WasArg.t = "fixnum"
BY DEF Goes, WasSP, WasTOS, WasArg, X, Y, OnFixnums

LEMMA NotOnFixnums ==
  ASSUME Goes, ~(WasTOS.t = "fixnum" /\ WasArg.t = "fixnum")
  PROVE  FixnumExact' /\ DivisionRight'
BY StillThere DEF FixnumExact, DivisionRight

LEMMA LeftValues ==
  ASSUME NumbersInv, op.in = "run", op.i \in Numerical, Goes, NEW values \in Seq(Int),
         stack' = SubSeq(stack, 1, WasSP - 1) \o [j \in 1 .. Len(values) |-> Fixnum1(values[j])]
  PROVE  Len(stack') = WasSP - 1 + Len(values) /\ Left' = values
<1>1. /\ Len(stack) \in Nat /\ WasSP \in 1 .. Len(stack) /\ stack \in Seq(Words)
      /\ WasSP' = WasSP
  BY Operated, StillThere
<1>2. WasSP - 1 \in Nat /\ WasSP - 1 <= Len(stack)
  BY <1>1
<1>3. /\ Len(stack') = WasSP - 1 + Len(values)
      /\ \A j \in 1 .. Len(values) : stack'[WasSP - 1 + j].v = values[j]
  BY <1>1, <1>2, Leaving
<1>4. Len(values) \in Nat /\ values = [j \in 1 .. Len(values) |-> values[j]]
  BY LenProperties
<1>5. Len(stack') - (WasSP - 1) = Len(values)
  BY <1>1, <1>3, <1>4
<1>6. Left' = [j \in 1 .. Len(values) |-> stack'[WasSP - 1 + j].v]
  BY <1>1, <1>5 DEF Left
<1> QED BY <1>3, <1>4, <1>6

(* One value on the top, for the instructions that are exact.              *)
LEMMA OneValue ==
  ASSUME NEW s \in Seq(Words), NEW k \in Nat, k <= Len(s), NEW e \in Int
  PROVE  LET left == SubSeq(s, 1, k) \o [j \in 1 .. Len(<<e>>) |-> Fixnum1(<<e>>[j])]
         IN  left[Len(left)].v = e
<1> DEFINE values == <<e>>
<1>1. values \in Seq(Int) /\ Len(values) = 1 /\ values[1] = e
  OBVIOUS
<1> HIDE DEF values
<1> DEFINE left == SubSeq(s, 1, k) \o [j \in 1 .. Len(values) |-> Fixnum1(values[j])]
<1>2. Len(left) = k + Len(values) /\ \A j \in 1 .. Len(values) : left[k + j].v = values[j]
  BY <1>1, Leaving
<1> HIDE DEF left
<1>3. left[Len(left)].v = e
  BY <1>1, <1>2
<1> QED BY <1>3 DEF left, values

LEMMA ArithmeticEnds ==
  ASSUME NumbersInv, op.in = "run", op.i \in Binary, ArithmeticStep(op.i),
         WasTOS.t = "fixnum", WasArg.t = "fixnum"
  PROVE  /\ Goes /\ op'.in = "done"
         /\ \E o \in Outcomes(op.i, X, Y) :
               /\ op'.phase = o.how
               /\ o.how = "done" =>
                     stack' = SubSeq(stack, 1, IF op.i = "unary-minus" THEN WasSP ELSE WasSP - 1)
                              \o [j \in 1 .. Len(o.values) |-> Fixnum1(o.values[j])]
<1>1. /\ op.i \in Numerical /\ Executing
      /\ SP(op) = WasSP /\ TOS(op) = WasTOS /\ Arg(op) = WasArg
  BY Operated DEF Numerical, NumbersInv
<1>2. \A w \in Operands(op.i) : w.t = "fixnum"
  BY <1>1 DEF Operands
<1>3. PICK o \in Outcomes(op.i, X, Y) :
               IF o.how = "done"
               THEN Completes(SubSeq(stack, 1, IF op.i = "unary-minus" THEN WasSP ELSE WasSP - 1)
                              \o [k \in 1 .. Len(o.values) |-> Fixnum1(o.values[k])])
               ELSE Excepts(o.how)
  BY <1>1, <1>2 DEF ArithmeticStep, X, Y
<1>4. CASE o.how = "done"
  <2>1. Goes
    BY <1>1, <1>3, <1>4, CompletesGoes
  <2>2. op' = [op EXCEPT !.in = "done", !.phase = "done"]
    BY <1>3, <1>4 DEF Completes, Leaves
  <2>3. op'.in = "done" /\ op'.phase = "done"
    BY <1>1, <2>2 DEF Executing
  <2> QED BY <1>3, <1>4, <2>1, <2>3 DEF Completes, Leaves
<1>5. CASE o.how # "done"
  <2>1. Goes
    BY <1>1, <1>3, <1>5, ExceptsGoes
  <2>2. op' = [op EXCEPT !.in = "done", !.phase = o.how]
    BY <1>3, <1>5 DEF Excepts, Leaves
  <2>3. op'.in = "done" /\ op'.phase = o.how
    BY <1>1, <2>2 DEF Executing
  <2> QED BY <1>5, <2>1, <2>3
<1> QED BY <1>4, <1>5

LEMMA HowItEnds == /\ \A values : Done(values).how = "done" /\ Done(values).values = values
                   /\ Exception.how = "exception" /\ Illegal.how = "illegal"
BY DEF Done, Exception, Illegal

LEMMA ArithmeticExact ==
  ASSUME NumbersInv, op.in = "run", op.i \in Binary, ArithmeticStep(op.i),
         WasTOS.t = "fixnum", WasArg.t = "fixnum"
  PROVE  FixnumExact'
<1>1. /\ Goes /\ op'.in = "done" /\ op'.i = op.i
      /\ X \in Fixnum /\ Y \in Fixnum /\ X' = X /\ Y' = Y
      /\ stack \in Seq(Words) /\ Len(stack) \in Nat /\ WasSP \in 1 .. Len(stack)
      /\ X \in Int /\ Y \in Int
  BY ArithmeticEnds, Operated, StillThere, Sizes DEF Goes, Numerical, Fixnum
<1>2. PICK o \in Outcomes(op.i, X, Y) :
               /\ op'.phase = o.how
               /\ o.how = "done" =>
                     stack' = SubSeq(stack, 1, IF op.i = "unary-minus" THEN WasSP ELSE WasSP - 1)
                              \o [j \in 1 .. Len(o.values) |-> Fixnum1(o.values[j])]
  BY ArithmeticEnds
<1>3. CASE op.i \in ExactOnes
  <2> DEFINE e == Exactly(op.i, X, Y)
  <2>1. e \in Int /\ o = IF e \in Fixnum THEN Done(<<e>>) ELSE Exception
    BY <1>1, <1>3, ExactOutcomes
  <2> HIDE DEF e
  <2>2. IF e \in Fixnum THEN Ended("done")' /\ stack'[Len(stack')].v = e ELSE Ended("exception")'
    <3>1. CASE e \in Fixnum
      <4>1. PICK k \in Nat : k <= Len(stack)
                /\ k = IF op.i = "unary-minus" THEN WasSP ELSE WasSP - 1
        BY <1>1
      <4>2. stack' = SubSeq(stack, 1, k) \o [j \in 1 .. Len(<<e>>) |-> Fixnum1(<<e>>[j])]
        BY <1>2, <2>1, <3>1, <4>1, HowItEnds
      <4>3. stack'[Len(stack')].v = e
        BY <1>1, <2>1, <4>1, <4>2, OneValue
      <4> QED BY <1>1, <1>2, <2>1, <3>1, <4>3, HowItEnds DEF Ended
    <3>2. CASE e \notin Fixnum
      BY <1>1, <1>2, <2>1, <3>2, HowItEnds DEF Ended
    <3> QED BY <3>1, <3>2
  <2>3. /\ op'.i \notin Counting /\ op'.i # "rational-quotient"
        /\ e = CASE op'.i = "add"         -> X' + Y'
                 [] op'.i = "sub"         -> X' - Y'
                 [] op'.i = "multiply"    -> X' * Y'
                 [] op'.i = "unary-minus" -> -Y'
                 [] op'.i = "increment"   -> Y' + 1
                 [] op'.i = "decrement"   -> Y' - 1
    <3>1. CASE op.i = "add"
      BY <1>1, <3>1 DEF e, Exactly, Counting
    <3>2. CASE op.i = "sub"
      BY <1>1, <3>2 DEF e, Exactly, Counting
    <3>3. CASE op.i = "multiply"
      BY <1>1, <3>3 DEF e, Exactly, Counting
    <3>4. CASE op.i = "unary-minus"
      BY <1>1, <3>4 DEF e, Exactly, Counting
    <3> QED BY <1>3, <3>1, <3>2, <3>3, <3>4 DEF ExactOnes
  <2> QED BY <2>2, <2>3 DEF FixnumExact, OnFixnums
<1>4. CASE op.i = "rational-quotient"
  <2>1. \/ o = Illegal /\ Y = 0
        \/ o = Exception /\ Y # 0 /\ \A q \in Fixnum : q * Y # X
        \/ \E q \in Int : o = Done(<<q>>) /\ q * Y = X
    BY <1>1, <1>4, RationalOutcome
  <2>2. CASE o = Illegal /\ Y = 0
    BY <1>1, <1>2, <1>4, <2>2, HowItEnds DEF FixnumExact, OnFixnums, Ended
  <2>3. CASE o = Exception /\ Y # 0 /\ \A q \in Fixnum : q * Y # X
    BY <1>1, <1>2, <1>4, <2>3, HowItEnds DEF FixnumExact, OnFixnums, Ended
  <2>4. CASE \E q \in Int : o = Done(<<q>>) /\ q * Y = X
    <3>1. PICK q \in Int : o = Done(<<q>>) /\ q * Y = X
      BY <2>4
    <3>2. Left' = <<q>>
      <4> DEFINE values == <<q>>
      <4>1. values \in Seq(Int) /\ op.i \in Numerical
        BY <1>4 DEF Numerical, Binary
      <4>2. stack' = SubSeq(stack, 1, WasSP - 1)
                     \o [j \in 1 .. Len(values) |-> Fixnum1(values[j])]
        BY <1>2, <1>4, <3>1, HowItEnds
      <4> HIDE DEF values
      <4>3. Left' = values
        BY <1>1, <4>1, <4>2, LeftValues
      <4> QED BY <4>3 DEF values
    <3>3. Left'[1] * Y' = X'
      BY <1>1, <3>1, <3>2
    <3> QED BY <1>1, <1>2, <1>4, <3>1, <3>3, HowItEnds DEF FixnumExact, OnFixnums, Ended
  <2> QED BY <2>1, <2>2, <2>3, <2>4
<1>5. CASE op.i \notin ExactOnes \cup {"rational-quotient"}
  <2>1. op.i \notin {"add", "sub", "multiply", "unary-minus", "increment", "decrement"}
    BY <1>5 DEF ExactOnes, Binary
  <2> QED BY <1>1, <1>5, <2>1 DEF FixnumExact, OnFixnums
<1> QED BY <1>3, <1>4, <1>5

LEMMA ArithmeticDivides ==
  ASSUME NumbersInv, op.in = "run", op.i \in Binary, ArithmeticStep(op.i),
         WasTOS.t = "fixnum", WasArg.t = "fixnum"
  PROVE  DivisionRight'
<1>1. /\ Goes /\ op'.in = "done" /\ op'.i = op.i
      /\ X \in Fixnum /\ Y \in Fixnum /\ X' = X /\ Y' = Y
      /\ stack \in Seq(Words) /\ Len(stack) \in Nat /\ WasSP \in 1 .. Len(stack)
      /\ X \in Int /\ Y \in Int /\ op.i \in Numerical
  BY ArithmeticEnds, Operated, StillThere, Sizes DEF Goes, Numerical, Fixnum
<1>2. PICK o \in Outcomes(op.i, X, Y) :
               /\ op'.phase = o.how
               /\ o.how = "done" =>
                     stack' = SubSeq(stack, 1, IF op.i = "unary-minus" THEN WasSP ELSE WasSP - 1)
                              \o [j \in 1 .. Len(o.values) |-> Fixnum1(o.values[j])]
  BY ArithmeticEnds
<1>3. ASSUME NEW values \in Seq(Int), op.i # "unary-minus", o = Done(values)
      PROVE  Left' = values /\ Ended("done")'
  <2>1. stack' = SubSeq(stack, 1, WasSP - 1) \o [j \in 1 .. Len(values) |-> Fixnum1(values[j])]
    BY <1>2, <1>3, HowItEnds
  <2> QED BY <1>1, <1>2, <1>3, <2>1, LeftValues, HowItEnds DEF Ended
<1>4. CASE NotDivided(X, Y, o)
  <2>1. (Ended("illegal")' /\ Y' = 0) \/ (Ended("exception")' /\ X' = -Half /\ Y' = -1)
    BY <1>1, <1>2, <1>4, HowItEnds DEF NotDivided, Ended
  <2> QED BY <2>1 DEF DivisionRight
<1>5. CASE op.i = "quotient" /\ ~NotDivided(X, Y, o)
  <2>1. PICK p \in Int : /\ o = Done(<<p>>)
                         /\ \E t \in Fixnum : /\ X = p * Y + t
                                              /\ Magnitude(t) < Magnitude(Y) /\ t * X >= 0
    BY <1>1, <1>5, QuotientOutcome
  <2>2. Left' = <<p>> /\ Ended("done")'
    <3> DEFINE values == <<p>>
    <3>1. values \in Seq(Int) /\ o = Done(values) /\ op.i # "unary-minus"
      BY <1>5, <2>1
    <3> HIDE DEF values
    <3>2. Left' = values /\ Ended("done")'
      BY <1>3, <3>1
    <3> QED BY <3>2 DEF values
  <2>3. Left'[1] = p
    BY <2>2
  <2>4. /\ Ended("done")' /\ op'.i = "quotient"
        /\ \E t \in Fixnum : /\ X' = Left'[1] * Y' + t
                             /\ Magnitude(t) < Magnitude(Y') /\ t * X' >= 0
    BY <1>1, <1>5, <2>1, <2>2, <2>3
  <2> QED BY <2>4 DEF DivisionRight
<1>6. CASE op.i \in {"floor", "ceiling", "truncate", "round"} /\ ~NotDivided(X, Y, o)
  <2>1. PICK p, s \in Int : /\ o = Done(<<p, s>>)
                            /\ (op.i = "round" /\ X * Y < 0) \/ Sided(op.i, X, Y, p, s)
    <3>1. Divided(op.i, X, Y, o)
      BY <1>1, <1>6, DivisionOutcome
    <3> QED BY <1>6, <3>1 DEF Divided
  <2>2. Left' = <<p, s>> /\ Ended("done")'
    <3> DEFINE values == <<p, s>>
    <3>1. values \in Seq(Int) /\ o = Done(values) /\ op.i # "unary-minus"
      BY <1>6, <2>1
    <3> HIDE DEF values
    <3>2. Left' = values /\ Ended("done")'
      BY <1>3, <3>1
    <3> QED BY <3>2 DEF values
  <2>3. Len(Left') = 2 /\ Left'[1] = p /\ Left'[2] = s
    BY <2>2
  <2>4. CASE op.i = "round" /\ X * Y < 0
    <3>1. Ended("done")' /\ op'.i = "round" /\ X' * Y' < 0
      BY <1>1, <2>2, <2>4
    <3> QED BY <3>1 DEF DivisionRight
  <2>5. CASE Sided(op.i, X, Y, p, s)
    <3>1. /\ Ended("done")' /\ op'.i # "quotient" /\ Len(Left') = 2
          /\ Sided(op'.i, X', Y', Left'[1], Left'[2])
      BY <1>1, <1>6, <2>2, <2>3, <2>5
    <3> HIDE DEF X, Y
    <3> QED BY <3>1 DEF DivisionRight, Sided
  <2> QED BY <2>1, <2>4, <2>5
<1>7. CASE op.i \notin {"floor", "ceiling", "truncate", "round", "quotient"}
  BY <1>1, <1>7 DEF DivisionRight, OnFixnums
<1> QED BY <1>4, <1>5, <1>6, <1>7

(* INCREMENT and DECREMENT.                                                *)
LEMMA CountExact ==
  ASSUME NumbersInv, op.in = "run", op.i \in Counting, CountStep,
         WasTOS.t = "fixnum", WasArg.t = "fixnum"
  PROVE  FixnumExact'
<1> DEFINE last == IF op.i = "increment" THEN Half - 1 ELSE -Half
           by   == IF op.i = "increment" THEN 1 ELSE -1
<1>1. /\ Executing /\ Ready /\ op.i \in Numerical
      /\ X \in Fixnum /\ Y \in Fixnum /\ X \in Int /\ Y \in Int
      /\ Len(stack) \in Nat /\ WasSP \in 1 .. Len(stack) /\ stack \in Seq(Words)
      /\ SP(op) = WasSP /\ Arg(op) = WasArg
  BY Operated, Sizes DEF NumbersInv, Numerical, Fixnum
<1>2. op.m = "local" /\ WasSP = Len(stack) /\ Slot(op) = 1 /\ Len(stack) >= 1
  BY <1>1 DEF Ready, WasSP, Slot, Modes
<1>3. Y + by \in Fixnum <=> Y # last
  BY <1>1, Sizes DEF Counting, Fixnum
<1>4. Goes
  BY ListStepGoes DEF ListStep
<1>5. X' = X /\ Y' = Y /\ op'.i = op.i
  BY <1>4, StillThere DEF Goes
<1>6. CASE Y # last
  <2>1. Completes(SettingArg(Fixnum1(Y + by)))
    BY <1>1, <1>6 DEF CountStep, Y
  <2>2. op' = [op EXCEPT !.in = "done", !.phase = "done"] /\ stack' = SettingArg(Fixnum1(Y + by))
    BY <2>1 DEF Completes, Leaves
  <2>3. Ended("done")'
    BY <1>1, <2>2 DEF Executing, Ended
  <2>4. 1 \in DOMAIN Kept
    <3>1. \A k \in 1 .. Len(stack) : stack[k] \in Words
      BY <1>1, LenProperties
    <3>2. Kept \in Seq(Words) /\ Len(Kept) = Len(stack)
      BY <1>1, <1>2, <3>1, SubSeqProperties DEF Kept
    <3> QED BY <1>1, <1>2, <3>2, LenProperties
  <2>5. stack'[1].v = Y + by
    BY <1>2, <2>2, <2>4 DEF SettingArg, Fixnum1
  <2>6. \/ op'.i = "increment" /\ by = 1
        \/ op'.i = "decrement" /\ by = -1
    BY <1>5 DEF Counting
  <2> QED BY <1>1, <1>3, <1>5, <1>6, <2>3, <2>5, <2>6 DEF FixnumExact, OnFixnums, Counting
<1>7. CASE Y = last
  <2>1. FixnumException(op.i, {Arg(op)})
    BY <1>1, <1>7 DEF CountStep, Y
  <2>2. Excepts("exception")
    BY <1>1, <2>1 DEF FixnumException, OnlyFixnums, Numeric, Counting
  <2>3. Ended("exception")'
    BY <1>1, <2>2 DEF Excepts, Leaves, Executing, Ended
  <2>6. \/ op'.i = "increment" /\ by = 1
        \/ op'.i = "decrement" /\ by = -1
    BY <1>5 DEF Counting
  <2> QED BY <1>1, <1>3, <1>5, <1>7, <2>3, <2>6 DEF FixnumExact, OnFixnums, Counting
<1> QED BY <1>6, <1>7

LEMMA NumbersStep == NumbersInv /\ [Next]_vars => NumbersInv'
<1> SUFFICES ASSUME NumbersInv, [Next]_vars PROVE NumbersInv'
  OBVIOUS
<1>1. ASSUME op.in = "run", op.i \in Numerical, Goes, op'.in = "done",
             FixnumExact', DivisionRight'
      PROVE  NumbersInv'
  <2>1. Found' /\ (was.stack \in Seq(Words))' /\ (op # Idle)'
    BY <1>1 DEF NumbersInv, Goes, Found, Idle
  <2> QED BY <1>1, <2>1 DEF NumbersInv
<1>2. ASSUME NEW i \in Binary, ArithmeticStep(i)
      PROVE  NumbersInv'
  <2>1. op.in = "run" /\ op.i = i /\ op.i \in Numerical
    BY <1>2 DEF ArithmeticStep, Begin, Running, Numerical
  <2>2. Executing /\ SP(op) = WasSP /\ TOS(op) = WasTOS /\ Arg(op) = WasArg
    BY <2>1, Operated DEF NumbersInv
  <2>3. CASE WasTOS.t = "fixnum" /\ WasArg.t = "fixnum"
    BY <1>1, <1>2, <2>1, <2>3, ArithmeticEnds, ArithmeticExact, ArithmeticDivides
  <2>4. CASE ~(WasTOS.t = "fixnum" /\ WasArg.t = "fixnum")
    <3>1. \/ \E words : Completes(words)
          \/ \E how : Excepts(how)
      BY <1>2 DEF ArithmeticStep, FixnumException
    <3>2. Goes
      BY <2>1, <2>2, <3>1, CompletesGoes, ExceptsGoes
    <3>3. op'.in = "done"
      BY <2>2, <3>1 DEF Completes, Excepts, Leaves, Executing
    <3> QED BY <1>1, <2>1, <2>4, <3>2, <3>3, NotOnFixnums
  <2> QED BY <2>3, <2>4
<1>3. ASSUME ListStep PROVE NumbersInv'
  <2>1. Goes
    BY <1>3, ListStepGoes
  <2>2. CASE op.i \notin Numerical
    <3>1. Found'
      BY <2>1 DEF NumbersInv, Goes, Found
    <3> QED BY <2>1, <2>2, <3>1, OthersKept DEF Goes
  <2>3. CASE op.i \in Numerical
    <3>1. CountStep /\ op.in = "run" /\ op.i \in Counting /\ Executing
      BY <1>3, <2>1, <2>3, ListStepOnNumbers DEF CountStep, NumbersInv
    <3>2. op'.in = "done"
      BY <3>1 DEF CountStep, FixnumException, Completes, Excepts, Leaves, Executing
    <3>3. DivisionRight'
      BY <2>1, <3>1 DEF Goes, Counting, DivisionRight, OnFixnums
    <3>4. CASE WasTOS.t = "fixnum" /\ WasArg.t = "fixnum"
      BY <1>1, <2>1, <2>3, <3>1, <3>2, <3>3, <3>4, CountExact
    <3>5. CASE ~(WasTOS.t = "fixnum" /\ WasArg.t = "fixnum")
      BY <1>1, <2>1, <2>3, <3>1, <3>2, <3>5, NotOnFixnums
    <3> QED BY <3>4, <3>5
  <2> QED BY <2>2, <2>3
<1>4. CASE UNCHANGED vars
  <2>1. FixnumExact' = FixnumExact /\ DivisionRight' = DivisionRight
    BY <1>4 DEF vars, FixnumExact, DivisionRight, OnFixnums, Ended, X, Y, Left, WasTOS, WasArg,
                WasSP
  <2> QED BY <1>4, <2>1 DEF vars, NumbersInv, Found, Executing, Ready
<1> QED BY <1>2, <1>3, <1>4, FetchKept, TrapsKept, HandleKept DEF Next, Modes

LEMMA NumbersExact == NumbersInv => FixnumExact /\ DivisionRight
<1> SUFFICES ASSUME NumbersInv PROVE FixnumExact /\ DivisionRight
  OBVIOUS
<1>1. CASE op.in = "done"
  BY <1>1 DEF NumbersInv
<1>2. CASE op.in # "done"
  BY <1>2 DEF FixnumExact, DivisionRight, OnFixnums
<1> QED BY <1>1, <1>2

LEMMA NumbersAlways == Spec => []NumbersInv
BY NumbersInit, NumbersStep, PTL DEF Spec

(***************************************************************************)
(* Every number the instructions make is a number.                         *)
(***************************************************************************)
LEMMA Divided2 ==
  ASSUME NEW a \in Int, NEW d \in Nat \ {0}
  PROVE  a \div d \in Int /\ a % d \in 0 .. d - 1 /\ a % d \in Nat /\ a % d \in Int
OBVIOUS

LEMMA PowerIs == ASSUME NEW n \in Nat PROVE Pow2[n] \in Nat \ {0}
BY PowersOfTwo

LEMMA ProductIs == ASSUME NEW a \in Int, NEW b \in Int PROVE a * b \in Int
OBVIOUS

LEMMA WordIs ==
  ASSUME NEW a \in Int
  PROVE  Wrap(a) \in Fixnum /\ Unsigned(a) \in 0 .. Word - 1
<1>1. Word \in Nat \ {0} /\ Half \in Nat /\ Word = 2 * Half
  BY Sizes
<1>2. (a + Half) % Word \in 0 .. Word - 1 /\ a % Word \in 0 .. Word - 1
  BY <1>1, Divided2
<1> QED BY <1>1, <1>2 DEF Wrap, Unsigned, Fixnum

LEMMA UnsignedIs == ASSUME NEW a \in Int PROVE Unsigned(a) \in Nat
BY WordIs, Sizes

LEMMA WrapInt == ASSUME NEW a \in Int PROVE Wrap(a) \in Int
BY WordIs, Sizes DEF Fixnum

LEMMA ShiftIs == ASSUME NEW a \in Int, NEW n \in Nat PROVE ShiftRight(a, n) \in Int
BY PowerIs, Divided2 DEF ShiftRight

LEMMA OneOf == \A x \in Int : Done(<<x>>).values \in Seq(Int)
BY DEF Done
LEMMA TwoOf == \A x, y \in Int : Done(<<x, y>>).values \in Seq(Int)
BY DEF Done
LEMMA NoneOf == Exception.values \in Seq(Int) /\ Illegal.values \in Seq(Int)
BY DEF Exception, Illegal

LEMMA QuotientIs ==
  ASSUME NEW x \in Int, NEW y \in Int, y # 0
  PROVE  CQuotient(x, y) \in Int /\ Remainder(x, y) \in Int
<1>1. Magnitude(x) \in Nat /\ Magnitude(y) \in Nat \ {0}
  BY DEF Magnitude
<1>2. CQuotient(x, y) \in Int
  <2>1. Magnitude(x) \div Magnitude(y) \in Int
    BY <1>1, Divided2
  <2>2. -(Magnitude(x) \div Magnitude(y)) \in Int
    BY <2>1
  <2> QED BY <2>1, <2>2 DEF CQuotient
<1> QED BY <1>2, ProductIs DEF Remainder

LEMMA DivideIs ==
  ASSUME NEW x \in Int, NEW y \in Int, NEW result, y # 0 => result.values \in Seq(Int)
  PROVE  Divide(x, y, result).values \in Seq(Int)
BY NoneOf DEF Divide

LEMMA BytesAre ==
  ASSUME NEW b \in Bytes, NEW x \in Int, NEW y \in Int
  PROVE  Ldb(b.pos, b.size, x) \in Int /\ Dpb(y, b.pos, b.size, x) \in Int
<1>1. /\ W \in Nat \ {0} /\ b.pos \in Nat /\ b.size \in Nat /\ b.size + 1 \in Nat
      /\ Word \in Nat \ {0}
  BY Sizes, ArithmeticAssumption DEF ArithmeticAssumption, Bytes
<1>2. Ldb(b.pos, b.size, x) \in Int
  <2>1. W - b.pos \in Int
    BY <1>1
  <2>2. (W - b.pos) % W \in Nat
    BY <1>1, <2>1, Divided2
  <2>3. ShiftRight(x, (W - b.pos) % W) \in Int /\ Pow2[b.size + 1] \in Nat \ {0}
    BY <1>1, <2>2, ShiftIs, PowerIs
  <2>4. ShiftRight(x, (W - b.pos) % W) % Pow2[b.size + 1] \in Int
    BY <2>3, Divided2
  <2> QED BY <2>4, WrapInt DEF Ldb
<1>3. Dpb(y, b.pos, b.size, x) \in Int
  <2> DEFINE end   == b.pos + b.size + 1
             below == Unsigned(x) % Pow2[b.pos]
             byte  == (Unsigned(y) % Pow2[b.size + 1]) * Pow2[b.pos]
             above == IF end < W THEN ShiftRight(Unsigned(x), end) * Pow2[end] ELSE 0
  <2>0. /\ Pow2[b.pos] \in Nat \ {0} /\ Pow2[b.size + 1] \in Nat \ {0}
        /\ Unsigned(x) \in Int /\ Unsigned(y) \in Int
    BY <1>1, UnsignedIs, PowerIs
  <2>1. below \in Int
    BY <2>0, Divided2
  <2>2. byte % Word \in Int
    <3>1. Unsigned(y) % Pow2[b.size + 1] \in Int /\ Pow2[b.pos] \in Int
      <4>1. Unsigned(y) % Pow2[b.size + 1] \in Int
        BY <2>0, Divided2
      <4> QED BY <2>0, <4>1
    <3>2. byte \in Int
      BY <3>1, ProductIs
    <3> HIDE DEF byte
    <3> QED BY <1>1, <3>2, Divided2
  <2>3. above \in Int
    <3>1. end \in Nat
      BY <1>1
    <3> HIDE DEF end
    <3>2. ShiftRight(Unsigned(x), end) \in Int /\ Pow2[end] \in Int
      <4>1. Pow2[end] \in Nat \ {0}
        BY <3>1, PowerIs
      <4>2. ShiftRight(Unsigned(x), end) \in Int
        BY <2>0, <3>1, ShiftIs
      <4> QED BY <4>1, <4>2
    <3> QED BY <3>2, ProductIs
  <2> HIDE DEF below, byte, above
  <2>4. below + (byte % Word) + above \in Int
    BY <2>1, <2>2, <2>3
  <2>5. Wrap(below + (byte % Word) + above) \in Int
    BY <2>4, WrapInt
  <2> QED BY <2>5 DEF Dpb, below, byte, above, end
<1> QED BY <1>2, <1>3

LEMMA OutcomeIs ==
  ASSUME NEW i \in Binary, NEW x \in Int, NEW y \in Int, NEW o \in Outcomes(i, x, y)
  PROVE  o.values \in Seq(Int)
<1>1. W \in Nat \ {0} /\ Half \in Nat \ {0} /\ Word \in Nat \ {0}
  BY Sizes, ArithmeticAssumption DEF ArithmeticAssumption
<1>2. /\ x + y \in Int /\ x - y \in Int /\ x * y \in Int /\ -y \in Int
      /\ Unsigned(x) \in Nat /\ Unsigned(y) \in Nat
  BY UnsignedIs
<1>3. CASE i \in {"add", "sub", "multiply", "unary-minus"}
  BY <1>2, <1>3, WrapInt, OneOf, NoneOf DEF Outcomes, Add, Sub, Multiply, UnaryMinus
<1>4. CASE i \in {"quotient", "truncate", "floor", "ceiling", "round", "rational-quotient"}
  <2> DEFINE q == CQuotient(x, y)
             r == Remainder(x, y)
  <2>1. y # 0 => q \in Int /\ r \in Int
    BY QuotientIs
  <2> HIDE DEF q, r
  <2>2. y # 0 => /\ q - 1 \in Int /\ q + 1 \in Int /\ r + y \in Int /\ r - y \in Int
    BY <2>1
  <2>3. y # 0 => Wrap(r - y) \in Int
    BY <2>2, WrapInt
  <2>4. CASE i \in {"quotient", "rational-quotient"}
    BY <2>1, <2>4, DivideIs, OneOf, NoneOf DEF Outcomes, Quotient, RationalQuotient, q, r
  <2>5. CASE i = "truncate"
    <3>1. y # 0 => Done(<<q, r>>).values \in Seq(Int)
      BY <2>1, TwoOf
    <3>2. o = Divide(x, y, Done(<<q, r>>))
      BY <2>5 DEF Outcomes, Truncate, q, r
    <3> QED BY <3>1, <3>2, DivideIs
  <2>6. CASE i = "floor"
    <3> DEFINE result == IF r # 0 /\ ((r >= 0) # (y >= 0))
                         THEN Done(<<q - 1, r + y>>) ELSE Done(<<q, r>>)
    <3>1. y # 0 => result.values \in Seq(Int)
      BY <2>1, <2>2, TwoOf
    <3>2. o = Divide(x, y, result)
      BY <2>6 DEF Outcomes, Floor, q, r
    <3> HIDE DEF result
    <3> QED BY <3>1, <3>2, DivideIs
  <2>7. CASE i = "ceiling"
    <3> DEFINE result == IF r # 0 /\ ((r >= 0) = (y >= 0))
                         THEN Done(<<q + 1, r - y>>) ELSE Done(<<q, r>>)
    <3>1. y # 0 => result.values \in Seq(Int)
      BY <2>1, <2>2, TwoOf
    <3>2. o = Divide(x, y, result)
      BY <2>7 DEF Outcomes, Ceiling, q, r
    <3> HIDE DEF result
    <3> QED BY <3>1, <3>2, DivideIs
  <2>8. CASE i = "round"
    <3> DEFINE temp == Wrap(y - r - r)
               further == IF temp = 0 THEN q % 2 = 1
                          ELSE IF y > 0 THEN temp < 0 ELSE temp > 0
               result == IF further THEN Done(<<q + 1, Wrap(r - y)>>) ELSE Done(<<q, r>>)
    <3>1. y # 0 => result.values \in Seq(Int)
      <4> HIDE DEF further
      <4> QED BY <2>1, <2>2, <2>3, TwoOf
    <3>2. o = Divide(x, y, result)
      BY <2>8 DEF Outcomes, Round, q, r
    <3> HIDE DEF result
    <3> QED BY <3>1, <3>2, DivideIs
  <2> QED BY <1>4, <2>4, <2>5, <2>6, <2>7, <2>8
<1>5. CASE i \in {"max", "min"}
  BY <1>5, OneOf DEF Outcomes, Max2, Min2
<1>6. CASE i = "ash"
  <2>1. o \in Ash(x, y)
    BY <1>6 DEF Outcomes
  <2>2. CASE y = 0 \/ x = 0
    BY <2>1, <2>2, OneOf DEF Ash
  <2>3. CASE ~(y = 0 \/ x = 0) /\ y > 0
    <3>1. \A e \in ShiftedLeft(x, y) : e \in Int
      <4>1. y \in Nat
        BY <2>3
      <4>2. Wrap(x * Pow2[y]) \in Int
        BY <4>1, PowerIs, ProductIs, WrapInt
      <4> QED BY <1>1, <4>2 DEF ShiftedLeft, Fixnum
    <3>2. PICK e \in ShiftedLeft(x, y) : o = Done(<<e>>) \/ o = Exception
      BY <2>1, <2>3 DEF Ash
    <3> QED BY <3>1, <3>2, OneOf, NoneOf
  <2>4. CASE ~(y = 0 \/ x = 0) /\ ~(y > 0)
    <3>1. -y \in Nat
      BY <2>4
    <3>2. ShiftRight(x, -y) \in Int
      BY <3>1, ShiftIs
    <3>3. o = Done(<<ShiftRight(x, -y)>>) \/ \E e \in Fixnum : o = Done(<<e>>)
      BY <2>1, <2>4 DEF Ash
    <3>4. \A e \in Fixnum : e \in Int
      BY <1>1 DEF Fixnum
    <3> QED BY <3>2, <3>3, <3>4, OneOf
  <2> QED BY <2>2, <2>3, <2>4
<1>7. CASE i = "lsh"
  <2>1. o = Lsh(x, y)
    BY <1>7 DEF Outcomes
  <2>2. y > 0 => Wrap(Unsigned(x) * Pow2[y]) \in Int
    BY <1>2, PowerIs, ProductIs, WrapInt
  <2>3. ~(y > 0) => Wrap(ShiftRight(Unsigned(x), -y)) \in Int
    <3>1. ~(y > 0) => -y \in Nat
      OBVIOUS
    <3> QED BY <1>2, <3>1, ShiftIs, WrapInt
  <2>4. \E e \in Int : o = Done(<<e>>)
    BY <2>1, <2>2, <2>3 DEF Lsh
  <2> QED BY <2>4, OneOf
<1>8. CASE i = "rot"
  <2> DEFINE places == y % W
             high == Unsigned(x) * Pow2[places]
             low  == ShiftRight(Unsigned(x), W - places)
  <2>1. places \in Nat /\ W - places \in Nat
    BY <1>1, Divided2
  <2> HIDE DEF places
  <2>2. high \in Int /\ low \in Int
    <3>1. Pow2[places] \in Int /\ Unsigned(x) \in Int
      BY <1>2, <2>1, PowerIs
    <3>2. high \in Int
      BY <3>1, ProductIs
    <3>3. low \in Int
      BY <2>1, <3>1, ShiftIs
    <3> QED BY <3>2, <3>3
  <2> HIDE DEF high, low
  <2>3. (high % Word) + low \in Int
    BY <1>1, <2>2, Divided2
  <2>4. Wrap((high % Word) + low) \in Int
    BY <2>3, WrapInt
  <2>5. o = IF places = 0 THEN Done(<<x>>) ELSE Done(<<Wrap((high % Word) + low)>>)
    BY <1>8 DEF Outcomes, Rot, places, high, low
  <2> QED BY <2>4, <2>5, OneOf
<1>9. CASE i \in {"plus32", "difference32"}
  BY <1>2, <1>9, WrapInt, OneOf DEF Outcomes, Plus32, Difference32
<1>10. CASE i = "multiply-bignum-step"
  <2> DEFINE value == Unsigned(x) * Unsigned(y)
  <2>1. value \in Int
    BY <1>2, ProductIs
  <2> HIDE DEF value
  <2>2. value % Word \in Int /\ value \div Word \in Int
    BY <1>1, <2>1, Divided2
  <2>3. Wrap(value % Word) \in Int /\ Wrap(value \div Word) \in Int
    BY <2>2, WrapInt
  <2>4. o = Done(<<Wrap(value % Word), Wrap(value \div Word)>>)
    BY <1>10 DEF Outcomes, MultiplyBignumStep, value
  <2> QED BY <2>3, <2>4, TwoOf
<1>11. CASE i \in {"greaterp", "lessp", "equal-number"}
  BY <1>11, OneOf DEF Outcomes, Predicate
<1> QED BY <1>3, <1>4, <1>5, <1>6, <1>7, <1>8, <1>9, <1>10, <1>11 DEF Binary

(***************************************************************************)
(* An address is always one of memory's words.                             *)
(***************************************************************************)
Objects1 == {w \in Cells : Placed(w)}

Need(i, m) == IF i \in Simple \/ (m = "local" /\ i # "dpb") THEN 1 ELSE 2

(* The instruction that is executed has its operands. *)
Named ==
    /\ op.i \in Simple \cup Searches \cup Stores \cup Counting \cup Binary \cup Fields
    /\ op.m \in Modes /\ op.byte \in Bytes
    /\ op.i \in Fields => op.m = "local"
    /\ Len(stack) >= Need(op.i, op.m)

(* What it reads it can reach. *)
Registers ==
    /\ op.vma \in 0 .. 2 * N
    /\ op.phase \in Accesses => op.vma \in 1 .. 2 * N
    /\ op.scratch \in Objects1 /\ op.car \in Objects1 /\ op.cdr \in Objects1

(* What led it to where it is. *)
Reading ==
    /\ op.phase = "loop" => op.i \in Searches
    /\ op.phase = "key" => op.i \in Searches
    /\ op.phase = "car" =>
          \/ op.i \in {"car", "set-to-car"}
          \/ op.i = "set-to-cdr-push-car" /\ Arg(op).t \in Pointers
          \/ op.i \in Searches /\ op.scratch.t = "list"

(* Why it was given up. *)
Trapped ==
    /\ op.vector \in {"transport", "monitor"} => op.vma \in 1 .. 2 * N
    /\ op.vector = "transport" => OldP(memory[op.vma])
    /\ op.vector = "monitor" => memory[op.vma].t = "monitor-forward"

TypesInv ==
    /\ stack \in Seq(Objects1)
    /\ memory \in [1 .. 2 * N -> MemoryWords]
    /\ \A a \in N + 1 .. 2 * N : memory[a].t = "element-forward"
    /\ traps \in 0 .. MaxTraps
    /\ op.in \in {"idle", "run", "trapped", "done"}
    /\ op.in \in {"run", "trapped"} => Named
    /\ op.in = "run" => Executing /\ Registers /\ Reading
    /\ op.in = "trapped" => Trapped

LEMMA NSizes == N \in Nat \ {0} /\ MaxTraps \in Nat /\ W \in Nat \ {0}
BY InstructionsAssumption, ArithmeticAssumption DEF InstructionsAssumption, ArithmeticAssumption

LEMMA Plain ==
  /\ NIL \in Objects1
  /\ \A n \in Int : Fixnum1(n) \in Objects1
  /\ \A a \in 1 .. 2 * N : List(a) \in Objects1
  /\ \A w \in MemoryWords : Object(w) \in Objects1
BY DEF Objects1, Cells, NIL, Fixnum1, List, Object, MemoryWords, Placed, Types, Pointers

LEMMA Part ==
  ASSUME NEW s \in Seq(Objects1), NEW k \in Int, k <= Len(s)
  PROVE  /\ SubSeq(s, 1, k) \in Seq(Objects1)
         /\ k >= 0 => Len(SubSeq(s, 1, k)) = k
<1>1. \A j \in 1 .. k : s[j] \in Objects1
  BY LenProperties
<1> QED BY <1>1, SubSeqProperties

LEMMA Changing ==
  ASSUME NEW s \in Seq(Objects1), NEW k, NEW x \in Objects1
  PROVE  [s EXCEPT ![k] = x] \in Seq(Objects1) /\ Len([s EXCEPT ![k] = x]) = Len(s)
<1>1. CASE k \in 1 .. Len(s)
  BY <1>1, ExceptSeq
<1>2. CASE k \notin 1 .. Len(s)
  <2>1. s \in [1 .. Len(s) -> Objects1]
    BY LenProperties
  <2>2. [s EXCEPT ![k] = x] = s
    BY <1>2, <2>1
  <2> QED BY <2>2
<1> QED BY <1>1, <1>2

(* The words an instruction is given, and those it leaves. *)
LEMMA Given ==
  ASSUME TypesInv, op.in = "run"
  PROVE  /\ Len(stack) \in Nat /\ Len(stack) >= 1 /\ Slot(op) \in 1 .. Len(stack)
         /\ SP(op) \in Int /\ SP(op) <= Len(stack) /\ SP(op) >= 0
         /\ Arg(op) \in Objects1
         /\ Kept \in Seq(Objects1)
         /\ Need(op.i, op.m) = 2 \/ op.m = "local" => TOS(op) \in Objects1
<1>1. /\ stack \in Seq(Objects1) /\ Len(stack) \in Nat
      /\ \A k \in 1 .. Len(stack) : stack[k] \in Objects1
  BY LenProperties DEF TypesInv
<1>2. Len(stack) >= Need(op.i, op.m) /\ op.m \in Modes
  BY DEF TypesInv, Named
<1>3. Len(stack) >= 1 /\ (Need(op.i, op.m) = 2 => Len(stack) >= 2)
  BY <1>1, <1>2 DEF Need
<1>4. /\ Slot(op) \in 1 .. Len(stack)
      /\ SP(op) \in Int /\ SP(op) <= Len(stack) /\ SP(op) >= 0
  BY <1>1, <1>3 DEF Slot, SP
<1>5. Need(op.i, op.m) = 2 \/ op.m = "local" => SP(op) \in 1 .. Len(stack)
  BY <1>1, <1>3 DEF SP
<1> QED BY <1>1, <1>3, <1>4, <1>5, Part DEF Arg, TOS, Kept

LEMMA Leaves1 ==
  ASSUME TypesInv, op.in = "run", NEW x \in Objects1
  PROVE  /\ Pushing(x) \in Seq(Objects1)
         /\ SettingTOS(x) \in Seq(Objects1)
         /\ SettingArg(x) \in Seq(Objects1)
BY Given, Changing, AppendProperties DEF Pushing, SettingTOS, SettingArg

LEMMA LeavesTyped ==
  ASSUME TypesInv, op.in = "run", NEW words \in Seq(Objects1), NEW how, Leaves(words, how),
         memory' = memory
  PROVE  TypesInv'
<1>1. op'.in = "done" /\ stack' = words /\ traps' = traps
  BY DEF Leaves, TypesInv, Executing
<1> QED BY <1>1 DEF TypesInv

LEMMA CompletesTyped ==
  ASSUME TypesInv, op.in = "run", NEW words \in Seq(Objects1), Completes(words)
  PROVE  TypesInv'
BY LeavesTyped DEF Completes

LEMMA ExceptsTyped ==
  ASSUME TypesInv, op.in = "run", NEW how, Excepts(how)
  PROVE  TypesInv'
BY LeavesTyped DEF Excepts, TypesInv

LEMMA ListExceptionTyped ==
  ASSUME TypesInv, op.in = "run", NEW x, ListException(x)
  PROVE  TypesInv'
BY ExceptsTyped DEF ListException

(* Going on: the registers, one by one. *)
LEMMA GoesOn ==
  ASSUME TypesInv, op.in = "run", UNCHANGED <<stack, memory, traps>>,
         Executing', op'.in = "run", op'.i = op.i, op'.m = op.m, op'.byte = op.byte,
         Registers', Reading'
  PROVE  TypesInv'
BY DEF TypesInv, Named, Need

LEMMA ArgStays ==
  ASSUME UNCHANGED stack, op'.m = op.m
  PROVE  Arg(op)' = Arg(op)
BY DEF Arg, Slot

LEMMA ContinueTyped ==
  ASSUME TypesInv, op.in = "run", NEW p, NEW a \in 1 .. 2 * N, Continue(p, a),
         p \notin {"loop", "car", "key"}
  PROVE  TypesInv'
<1>1. Executing /\ Registers
  BY DEF TypesInv
<1>2. /\ op'.in = "run" /\ op'.i = op.i /\ op'.m = op.m /\ op'.byte = op.byte
      /\ op'.phase = p /\ op'.vma = a
      /\ op'.scratch = op.scratch /\ op'.car = op.car /\ op'.cdr = op.cdr /\ Executing'
      /\ UNCHANGED <<stack, memory, traps>>
  BY <1>1 DEF Continue, Executing
<1>3. Registers'
  BY <1>1, <1>2, NSizes DEF Registers
<1> QED BY <1>2, <1>3, GoesOn DEF Reading

LEMMA ContinueCarTyped ==
  ASSUME TypesInv, op.in = "run", NEW p \in {"car", "key"}, NEW a \in 1 .. 2 * N, Continue(p, a),
         p = "key" => op.i \in Searches,
         p = "car" => \/ op.i \in {"car", "set-to-car"}
                      \/ op.i = "set-to-cdr-push-car" /\ Arg(op).t \in Pointers
                      \/ op.i \in Searches /\ op.scratch.t = "list"
  PROVE  TypesInv'
<1>1. Executing /\ Registers
  BY DEF TypesInv
<1>2. /\ op'.in = "run" /\ op'.i = op.i /\ op'.m = op.m /\ op'.byte = op.byte
      /\ op'.phase = p /\ op'.vma = a
      /\ op'.scratch = op.scratch /\ op'.car = op.car /\ op'.cdr = op.cdr /\ Executing'
      /\ UNCHANGED <<stack, memory, traps>>
  BY <1>1 DEF Continue, Executing
<1>3. Registers'
  BY <1>1, <1>2, NSizes DEF Registers
<1>4. Reading'
  BY <1>2, ArgStays DEF Reading
<1> QED BY <1>2, <1>3, <1>4, GoesOn

LEMMA LoopTyped ==
  ASSUME TypesInv, op.in = "run", op.i \in Searches, NEW l \in Objects1, Loop(l)
  PROVE  TypesInv'
<1>1. Executing /\ Registers
  BY DEF TypesInv
<1>2. /\ op'.in = "run" /\ op'.i = op.i /\ op'.m = op.m /\ op'.byte = op.byte
      /\ op'.phase = "loop" /\ op'.vma = op.vma
      /\ op'.scratch = l /\ op'.car = op.car /\ op'.cdr = op.cdr /\ Executing'
      /\ UNCHANGED <<stack, memory, traps>>
  BY <1>1 DEF Loop, Executing
<1>3. Registers'
  BY <1>1, <1>2 DEF Registers, Accesses, DataReads, CdrReads
<1>4. Reading'
  BY <1>2 DEF Reading
<1> QED BY <1>2, <1>3, <1>4, GoesOn

LEMMA TopGiven ==
  ASSUME TypesInv, op.in = "run", op.i \notin Simple
  PROVE  TOS(op) \in Objects1
<1>1. op.m \in Modes
  BY DEF TypesInv, Named
<1>2. Need(op.i, op.m) = 2 \/ op.m = "local"
  BY <1>1 DEF Need, Modes
<1> QED BY <1>2, Given

(* What is read. *)
LEMMA AtIs ==
  ASSUME TypesInv, Accessing
  PROVE  /\ op.in = "run" /\ op.vma \in 1 .. 2 * N /\ At \in MemoryWords
         /\ Object(At) \in Objects1
         /\ At.t # "element-forward" => op.vma + 1 \in 1 .. 2 * N
         /\ At.t \in Pointers => At.v \in 1 .. 2 * N
         /\ Spilled(At) \in Seq(Objects1) /\ Len(Spilled(At)) = Len(stack)
<1>1. op.in = "run" /\ op.vma \in 1 .. 2 * N
  BY DEF Accessing, TypesInv, Registers
<1>2. At \in MemoryWords /\ Object(At) \in Objects1
  BY <1>1, Plain DEF At, TypesInv
<1>3. At.t # "element-forward" => op.vma \in 1 .. N
  BY <1>1, NSizes DEF At, TypesInv
<1>4. Spilled(At) \in Seq(Objects1) /\ Len(Spilled(At)) = Len(stack)
  BY <1>2, Changing DEF Spilled, TypesInv
<1> QED BY <1>1, <1>2, <1>3, <1>4, NSizes DEF MemoryWords, Placed

LEMMA PointerIs ==
  ASSUME NEW x \in Objects1, x.t \in {"list", "locative"}
  PROVE  x.v \in 1 .. 2 * N /\ x.t \in Pointers
BY DEF Objects1, Placed, Pointers

LEMMA CarOfTyped ==
  ASSUME TypesInv, op.in = "run", NEW words \in Seq(Objects1),
         CarOf(Arg(op), Completes(words)),
         op.i \in {"car", "set-to-car", "set-to-cdr-push-car"}
  PROVE  TypesInv'
<1>1. Arg(op) \in Objects1
  BY Given
<1>2. CASE Arg(op).t \in {"list", "locative"} /\ Continue("car", Arg(op).v)
  BY <1>1, <1>2, PointerIs, ContinueCarTyped
<1> QED BY <1>2, CompletesTyped, ListExceptionTyped DEF CarOf

LEMMA CdrOfTyped ==
  ASSUME TypesInv, op.in = "run", NEW x \in Objects1, NEW words \in Seq(Objects1),
         NEW p \in {"cdr", "skip"}, NEW q \in {"rest", "skiprest"},
         \/ CdrOf(x, Completes(words), p, q)
         \/ op.i \in Searches /\ CdrOf(x, Loop(NIL), p, q)
  PROVE  TypesInv'
<1>1. CASE x.t = "list" /\ Continue(p, x.v)
  BY <1>1, PointerIs, ContinueTyped
<1>2. CASE x.t = "locative" /\ Continue(q, x.v)
  BY <1>2, PointerIs, ContinueTyped
<1>3. CASE op.i \in Searches /\ Loop(NIL)
  BY <1>3, LoopTyped, Plain
<1> QED BY <1>1, <1>2, <1>3, CompletesTyped, ListExceptionTyped DEF CdrOf

LEMMA GotCdrTyped ==
  ASSUME TypesInv, op.in = "run", NEW v \in Objects1, GotCdr(v)
  PROVE  TypesInv'
<1>1. CASE op.i \in {"cdr", "set-to-cdr"}
  BY <1>1, Leaves1, CompletesTyped DEF GotCdr
<1>2. CASE op.i = "set-to-cdr-push-car"
  <2>1. Append(SettingArg(v), op.car) \in Seq(Objects1)
    BY Leaves1, AppendProperties DEF TypesInv, Registers
  <2> QED BY <1>2, <2>1, CompletesTyped DEF GotCdr
<1>3. CASE op.i = "rgetf" /\ op.phase \in {"skip", "skiprest"}
  BY <1>3, LoopTyped DEF GotCdr, Searches
<1>4. CASE /\ op.i \notin {"cdr", "set-to-cdr", "set-to-cdr-push-car"}
           /\ ~(op.i = "rgetf" /\ op.phase \in {"skip", "skiprest"})
  <2>1. op' = [op EXCEPT !.phase = "test", !.cdr = v] /\ UNCHANGED <<stack, memory, was, traps>>
    BY <1>4 DEF GotCdr
  <2>2. Executing /\ Registers
    BY DEF TypesInv
  <2>3. /\ op'.in = "run" /\ op'.i = op.i /\ op'.m = op.m /\ op'.byte = op.byte
        /\ op'.phase = "test" /\ op'.vma = op.vma
        /\ op'.scratch = op.scratch /\ op'.car = op.car /\ op'.cdr = v /\ Executing'
    BY <2>1, <2>2 DEF Executing
  <2>4. Registers'
    BY <2>2, <2>3 DEF Registers, Accesses, DataReads, CdrReads
  <2>5. Reading'
    BY <2>3 DEF Reading
  <2> QED BY <2>1, <2>3, <2>4, <2>5, GoesOn
<1> QED BY <1>1, <1>2, <1>3, <1>4

LEMMA BeginsTyped ==
  ASSUME TypesInv,
         BeginCar \/ BeginCdr \/ BeginSetToCar \/ BeginSetToCdr \/ BeginSetToCdrPushCar
         \/ BeginRplaca \/ BeginRplacd \/ BeginSearch
  PROVE  TypesInv'
<1>1. op.in = "run" /\ op.phase = "begin"
  BY DEF BeginCar, BeginCdr, BeginSetToCar, BeginSetToCdr, BeginSetToCdrPushCar, BeginRplaca,
         BeginRplacd, BeginSearch, Begin, Running
<1>2. /\ Arg(op) \in Objects1 /\ NIL \in Objects1
      /\ Pushing(NIL) \in Seq(Objects1) /\ SettingArg(NIL) \in Seq(Objects1)
      /\ Append(SettingArg(NIL), NIL) \in Seq(Objects1)
  BY <1>1, Plain, Given, Leaves1, AppendProperties
<1>3. CASE BeginCar \/ BeginSetToCar \/ BeginSetToCdrPushCar
  BY <1>1, <1>2, <1>3, CarOfTyped DEF BeginCar, BeginSetToCar, BeginSetToCdrPushCar, Begin
<1>4. CASE BeginCdr \/ BeginSetToCdr
  BY <1>1, <1>2, <1>4, CdrOfTyped DEF BeginCdr, BeginSetToCdr
<1>5. CASE BeginRplaca \/ BeginRplacd
  <2>1. TOS(op) \in Objects1
    BY <1>1, <1>5, TopGiven DEF BeginRplaca, BeginRplacd, Begin, Simple
  <2>2. \/ ListException(TOS(op))
        \/ \E p \in {"store", "cdr"} : TOS(op).t \in {"list", "locative"} /\ Continue(p, TOS(op).v)
    BY <1>5 DEF BeginRplaca, BeginRplacd
  <2> QED BY <1>1, <2>1, <2>2, PointerIs, ContinueTyped, ListExceptionTyped
<1>6. CASE BeginSearch
  BY <1>1, <1>2, <1>6, LoopTyped, ExceptsTyped DEF BeginSearch
<1> QED BY <1>3, <1>4, <1>5, <1>6

LEMMA LoopStepTyped ==
  ASSUME TypesInv, LoopStep
  PROVE  TypesInv'
<1>1. op.in = "run" /\ op.phase = "loop" /\ op.i \in Searches /\ op.scratch \in Objects1
  BY DEF LoopStep, Running, TypesInv, Reading, Registers
<1>2. SettingTOS(NIL) \in Seq(Objects1) /\ Append(SettingTOS(NIL), NIL) \in Seq(Objects1)
  BY <1>1, Plain, Leaves1, AppendProperties
<1>3. CASE op.scratch.t = "list" /\ Continue("car", op.scratch.v)
  BY <1>1, <1>3, PointerIs, ContinueCarTyped
<1>4. CASE ListException(op.scratch)
  BY <1>1, <1>4, ListExceptionTyped
<1>5. CASE \E words \in Seq(Objects1) : Completes(words)
  BY <1>1, <1>5, CompletesTyped
<1> QED BY <1>2, <1>3, <1>4, <1>5 DEF LoopStep

LEMMA CarReadTyped ==
  ASSUME TypesInv, CarRead
  PROVE  TypesInv'
<1>1. /\ op.in = "run" /\ op.phase = "car" /\ Accessing /\ Object(At) \in Objects1
      /\ Executing /\ Registers /\ Reading
  BY AtIs DEF CarRead, TypesInv
<1>2. CASE op.i \in {"car", "set-to-car"}
  BY <1>1, <1>2, Leaves1, CompletesTyped DEF CarRead
<1>3. CASE op.i \notin {"car", "set-to-car"}
  <2> DEFINE p == IF op.i = "set-to-cdr-push-car" /\ Arg(op).t = "locative"
                  THEN "rest" ELSE "cdr"
             a == IF op.i = "set-to-cdr-push-car" THEN Arg(op).v ELSE op.scratch.v
             c == Object(At)
  <2>1. op' = [op EXCEPT !.car = c, !.phase = p, !.vma = a] /\ UNCHANGED <<stack, memory, was, traps>>
    BY <1>3 DEF CarRead
  <2>2. a \in 1 .. 2 * N
    BY <1>1, <1>3, Given DEF Reading, Registers, Searches, Objects1, Placed, Pointers
  <2>3. p \in {"rest", "cdr"} /\ c \in Objects1
    BY <1>1
  <2> HIDE DEF p, a, c
  <2>4. /\ op'.in = "run" /\ op'.i = op.i /\ op'.m = op.m /\ op'.byte = op.byte
        /\ op'.phase = p /\ op'.vma = a
        /\ op'.scratch = op.scratch /\ op'.car = c /\ op'.cdr = op.cdr /\ Executing'
    BY <1>1, <2>1 DEF Executing
  <2>5. Registers'
    BY <1>1, <2>2, <2>3, <2>4, NSizes DEF Registers
  <2>6. Reading'
    BY <2>3, <2>4 DEF Reading
  <2> QED BY <1>1, <2>1, <2>4, <2>5, <2>6, GoesOn
<1> QED BY <1>2, <1>3

LEMMA CdrReadsTyped ==
  ASSUME TypesInv, CdrRead \/ RplacdRead \/ RestRead
  PROVE  TypesInv'
<1>1. /\ Accessing /\ op.in = "run" /\ Object(At) \in Objects1
      /\ At.t # "element-forward" /\ op.vma + 1 \in 1 .. 2 * N
  BY AtIs DEF CdrRead, RplacdRead, RestRead, Delivered, Indirect
<1>2. NIL \in Objects1 /\ List(op.vma + 1) \in Objects1
  BY <1>1, Plain
<1>3. \/ \E v \in Objects1 : GotCdr(v)
      \/ \E p \in {"rest", "skiprest", "store"} : Continue(p, op.vma + 1)
      \/ \E how : Excepts(how)
  BY <1>1, <1>2 DEF CdrRead, RplacdRead, RestRead
<1> QED BY <1>1, <1>3, GotCdrTyped, ContinueTyped, ExceptsTyped

LEMMA TestsTyped ==
  ASSUME TypesInv, TestMember \/ TestAssoc \/ TestRgetf \/ KeyRead \/ ValueRead
  PROVE  TypesInv'
<1>1. op.in = "run" /\ Registers /\ Reading
  BY DEF TestMember, TestAssoc, TestRgetf, KeyRead, ValueRead, Running, Accessing, TypesInv
<1>2. op.car \in Objects1 /\ op.cdr \in Objects1 /\ op.scratch \in Objects1
  BY <1>1 DEF Registers
<1>3. CASE TestMember
  BY <1>1, <1>2, <1>3, Leaves1, CompletesTyped, LoopTyped DEF TestMember, Searches
<1>4. CASE TestAssoc
  <2>1. op.i \in Searches
    BY <1>4 DEF TestAssoc, Searches
  <2>2. CASE op.car.t = "list" /\ Continue("key", op.car.v)
    BY <1>1, <1>2, <2>1, <2>2, PointerIs, ContinueCarTyped
  <2> QED BY <1>1, <1>2, <1>4, <2>1, <2>2, LoopTyped, ListExceptionTyped DEF TestAssoc
<1>5. CASE KeyRead
  BY <1>1, <1>2, <1>5, Leaves1, CompletesTyped, LoopTyped DEF KeyRead, Reading
<1>6. CASE TestRgetf
  <2>1. op.i \in Searches
    BY <1>6 DEF TestRgetf, Searches
  <2>2. CASE op.cdr.t = "list" /\ Continue("value", op.cdr.v)
    BY <1>1, <1>2, <2>2, PointerIs, ContinueTyped
  <2>3. CASE CdrOf(op.cdr, Loop(NIL), "skip", "skiprest")
    BY <1>1, <1>2, <2>1, <2>3, CdrOfTyped, Leaves1
  <2> QED BY <1>1, <1>6, <2>2, <2>3, ExceptsTyped, ListExceptionTyped DEF TestRgetf
<1>7. CASE ValueRead
  <2>1. Object(At) \in Objects1
    BY <1>7, AtIs DEF ValueRead
  <2>2. Append(SettingTOS(Object(At)), op.cdr) \in Seq(Objects1)
    BY <1>1, <1>2, <2>1, Leaves1, AppendProperties
  <2> QED BY <1>1, <1>7, <2>2, CompletesTyped DEF ValueRead
<1> QED BY <1>3, <1>4, <1>5, <1>6, <1>7

LEMMA StoreTyped ==
  ASSUME TypesInv, Store
  PROVE  TypesInv'
<1>1. /\ op.in = "run" /\ op.vma \in 1 .. 2 * N /\ At \in MemoryWords
      /\ At.t # "element-forward" /\ Executing
  BY AtIs DEF Store, Delivered, Indirect, TypesInv
<1>2. Stored(Arg(op)) \in MemoryWords
  BY <1>1, Given DEF Stored, MemoryWords, Objects1, Cells, Placed
<1>3. op'.in = "done" /\ traps' = traps /\ stack' = SubSeq(stack, 1, SP(op) - 1)
  BY <1>1 DEF Store, Leaves, Executing
<1>4. SubSeq(stack, 1, SP(op) - 1) \in Seq(Objects1)
  <2>1. SP(op) - 1 \in Int /\ SP(op) - 1 <= Len(stack) /\ stack \in Seq(Objects1)
    BY <1>1, Given DEF TypesInv
  <2> QED BY <2>1, Part
<1>5. memory' = [memory EXCEPT ![op.vma] = Stored(Arg(op))]
  BY DEF Store
<1>6. memory' \in [1 .. 2 * N -> MemoryWords]
  BY <1>2, <1>5 DEF TypesInv
<1>7. ASSUME NEW a \in N + 1 .. 2 * N PROVE memory'[a].t = "element-forward"
  <2>1. a # op.vma /\ a \in 1 .. 2 * N /\ memory[a].t = "element-forward"
    BY <1>1, NSizes DEF At, TypesInv
  <2> QED BY <1>5, <2>1 DEF TypesInv
<1> QED BY <1>3, <1>4, <1>6, <1>7 DEF TypesInv

LEMMA ReadsTyped ==
  ASSUME TypesInv, FollowForward \/ ErrorTrap
  PROVE  TypesInv'
<1>1. /\ op.in = "run" /\ Accessing /\ Executing /\ Registers /\ Reading /\ Named
      /\ Spilled(At) \in Seq(Objects1) /\ Len(Spilled(At)) = Len(stack)
  BY AtIs DEF FollowForward, ErrorTrap, Accessing, TypesInv
<1>2. CASE ErrorTrap
  BY <1>1, <1>2, LeavesTyped DEF ErrorTrap
<1>3. CASE FollowForward
  <2>1. At.v \in 1 .. 2 * N
    BY <1>1, <1>3, AtIs DEF FollowForward, Indirect, Pointers
  <2>2. op' = [op EXCEPT !.vma = At.v] /\ stack' = Spilled(At) /\ UNCHANGED <<memory, traps>>
    BY <1>3 DEF FollowForward
  <2> DEFINE a == At.v
  <2> HIDE DEF a
  <2>3. op' = [op EXCEPT !.vma = a]
    BY <2>2 DEF a
  <2>4. /\ op'.in = "run" /\ op'.i = op.i /\ op'.m = op.m /\ op'.byte = op.byte
        /\ op'.phase = op.phase /\ op'.vma = a
        /\ op'.scratch = op.scratch /\ op'.car = op.car /\ op'.cdr = op.cdr /\ Executing'
    BY <1>1, <2>3 DEF Executing
  <2>5. Registers'
    BY <1>1, <2>1, <2>4, NSizes DEF Registers, a
  <2>6. op.i = "set-to-cdr-push-car" => stack' = stack
    BY <2>2 DEF Spilled, LiveSlot
  <2>7. Reading'
    BY <1>1, <2>4, <2>6, ArgStays DEF Reading
  <2>8. Named'
    BY <1>1, <2>2, <2>4 DEF Named, Need
  <2> QED BY <1>1, <2>2, <2>4, <2>5, <2>7, <2>8 DEF TypesInv
<1> QED BY <1>2, <1>3

LEMMA FixnumsTyped ==
  ASSUME TypesInv, CountStep \/ FieldStep
  PROVE  TypesInv'
<1>1. op.in = "run" /\ Named
  BY DEF CountStep, FieldStep, TypesInv
<1>2. /\ Arg(op) \in Objects1 /\ Len(stack) \in Nat /\ stack \in Seq(Objects1)
      /\ \A k \in 1 .. Len(stack) : stack[k] \in Objects1
  BY <1>1, Given, LenProperties DEF TypesInv
<1>3. ASSUME \E xs, i : FixnumException(i, xs) PROVE TypesInv'
  BY <1>1, <1>3, ExceptsTyped DEF FixnumException
<1>4. CASE CountStep
  <2>1. Fixnum1(Arg(op).v + 1) \in Objects1 /\ Fixnum1(Arg(op).v + (-1)) \in Objects1
    <3>1. Arg(op).v + 1 \in Int /\ Arg(op).v + (-1) \in Int
      BY <1>2 DEF Objects1, Cells
    <3> QED BY <3>1, Plain
  <2>2. \/ \E x \in Objects1 : Completes(SettingArg(x))
        \/ \E xs, i : FixnumException(i, xs)
    BY <1>4, <2>1 DEF CountStep
  <2> QED BY <1>1, <1>3, <2>2, Leaves1, CompletesTyped
<1>5. CASE FieldStep
  <2> DEFINE kept == IF op.i = "ldb" THEN Len(stack) - 1 ELSE Len(stack) - 2
             x == TOS(op).v
             y == stack[kept + 1].v
             new == IF op.i = "ldb" THEN Ldb(op.byte.pos, op.byte.size, x)
                                    ELSE Dpb(y, op.byte.pos, op.byte.size, x)
  <2>1. op.i \in Fields /\ op.byte \in Bytes /\ op.m = "local"
    BY <1>1, <1>5 DEF FieldStep, Named
  <2>2. TOS(op) \in Objects1
    BY <1>1, <2>1, Given
  <2>3. kept \in Int /\ kept <= Len(stack) /\ kept + 1 \in 1 .. Len(stack)
    <3>1. Len(stack) >= Need(op.i, op.m) /\ Len(stack) >= 1
      BY <1>1, Given DEF Named
    <3>2. op.i = "dpb" => Need(op.i, op.m) = 2
      BY DEF Need, Simple
    <3>3. op.i \in {"ldb", "dpb"}
      BY <2>1 DEF Fields
    <3> QED BY <1>2, <3>1, <3>2, <3>3
  <2> HIDE DEF kept
  <2>4. x \in Int /\ y \in Int
    BY <1>2, <2>2, <2>3 DEF Objects1, Cells
  <2> HIDE DEF x, y
  <2>5. new \in Int
    BY <2>1, <2>4, BytesAre
  <2> HIDE DEF new
  <2>6. Append(SubSeq(stack, 1, kept), Fixnum1(new)) \in Seq(Objects1)
    <3>1. SubSeq(stack, 1, kept) \in Seq(Objects1)
      BY <1>2, <2>3, Part
    <3>2. Fixnum1(new) \in Objects1
      BY <2>5, Plain
    <3> QED BY <3>1, <3>2, AppendProperties
  <2>7. \/ \E xs, i : FixnumException(i, xs)
        \/ Completes(Append(SubSeq(stack, 1, kept), Fixnum1(new)))
    BY <1>5 DEF FieldStep, kept, x, y, new
  <2> QED BY <1>1, <1>3, <2>6, <2>7, CompletesTyped
<1> QED BY <1>4, <1>5

LEMMA ArithmeticTyped ==
  ASSUME TypesInv, NEW i \in Binary, ArithmeticStep(i)
  PROVE  TypesInv'
<1>1. op.in = "run" /\ op.i = i /\ op.i \notin Simple
  BY DEF ArithmeticStep, Begin, Running, Binary, Simple
<1>2. TOS(op) \in Objects1 /\ Arg(op) \in Objects1
  BY <1>1, TopGiven, Given
<1>3. TOS(op).v \in Int /\ Arg(op).v \in Int
  BY <1>2 DEF Objects1, Cells
<1>4. CASE \E how : Excepts(how)
  BY <1>1, <1>4, ExceptsTyped
<1>5. CASE ~\E how : Excepts(how)
  <2> DEFINE k == IF i = "unary-minus" THEN SP(op) ELSE SP(op) - 1
  <2>1. PICK o \in Outcomes(i, TOS(op).v, Arg(op).v) :
           Completes(SubSeq(stack, 1, k) \o [j \in 1 .. Len(o.values) |-> Fixnum1(o.values[j])])
    BY <1>5 DEF ArithmeticStep, FixnumException
  <2> DEFINE values == o.values
             above == [j \in 1 .. Len(values) |-> Fixnum1(values[j])]
  <2>2. values \in Seq(Int)
    BY <1>3, OutcomeIs
  <2> HIDE DEF values
  <2>3. above \in Seq(Objects1)
    <3>1. Len(values) \in Nat /\ \A j \in 1 .. Len(values) : values[j] \in Int
      BY <2>2, LenProperties
    <3>2. above \in [1 .. Len(values) -> Objects1]
      BY <3>1, Plain
    <3> QED BY <3>1, <3>2, SeqDef
  <2>4. SubSeq(stack, 1, k) \in Seq(Objects1)
    <3>1. k \in Int /\ k <= Len(stack) /\ stack \in Seq(Objects1)
      BY <1>1, Given DEF TypesInv
    <3> QED BY <3>1, Part
  <2> HIDE DEF k, above
  <2>5. SubSeq(stack, 1, k) \o above \in Seq(Objects1)
    BY <2>3, <2>4, ConcatProperties
  <2>6. Completes(SubSeq(stack, 1, k) \o above)
    BY <2>1 DEF above, values
  <2> QED BY <1>1, <2>5, <2>6, CompletesTyped
<1> QED BY <1>4, <1>5

LEMMA TrapsTyped ==
  ASSUME TypesInv, TransportTrap \/ MonitorTrap \/ PageFault \/ SequenceBreak
  PROVE  TypesInv'
<1>1. op.in = "run" /\ Registers /\ Named
  BY DEF TransportTrap, MonitorTrap, PageFault, SequenceBreak, Running, Accessing, TypesInv
<1>2. PICK vector \in {"transport", "monitor", "page-fault", "sequence-break"},
           words \in Seq(Objects1) :
        /\ GivenUp(vector, words) /\ Len(words) = Len(stack)
        /\ vector \in {"transport", "monitor"} => op.vma \in 1 .. 2 * N
        /\ vector = "transport" => OldP(memory[op.vma])
        /\ vector = "monitor" => memory[op.vma].t = "monitor-forward"
        /\ traps' = traps \/ (traps < MaxTraps /\ traps' = traps + 1)
  <2>1. stack \in Seq(Objects1)
    BY DEF TypesInv
  <2>2. CASE PageFault
    BY <2>1, <2>2 DEF PageFault
  <2>3. CASE SequenceBreak
    BY <2>1, <2>3 DEF SequenceBreak
  <2>4. CASE TransportTrap
    BY <2>4, AtIs DEF TransportTrap, Transports, At
  <2>5. CASE MonitorTrap
    BY <2>5, AtIs DEF MonitorTrap, Monitors, At
  <2> QED BY <2>2, <2>3, <2>4, <2>5
<1>3. /\ op'.in = "trapped" /\ op'.i = op.i /\ op'.m = op.m /\ op'.byte = op.byte
      /\ op'.vma = op.vma /\ op'.vector = vector /\ stack' = words /\ memory' = memory
  BY <1>2 DEF GivenUp
<1>4. traps' \in 0 .. MaxTraps
  BY <1>2, NSizes DEF TypesInv
<1>5. Named'
  BY <1>1, <1>2, <1>3 DEF Named, Need
<1>6. Trapped'
  BY <1>2, <1>3 DEF Trapped, OldP
<1> QED BY <1>3, <1>4, <1>5, <1>6 DEF TypesInv

LEMMA FetchedTyped ==
  ASSUME NEW i, NEW m, NEW b, op' = Fetched(i, m, b)
  PROVE  /\ op'.in = "run" /\ op'.i = i /\ op'.m = m /\ op'.byte = b
         /\ Executing' /\ Registers' /\ Reading'
<1>1. op' = [in |-> "run", i |-> i, m |-> m, byte |-> b, phase |-> "begin", vma |-> 0,
             scratch |-> NIL, car |-> NIL, cdr |-> NIL]
  BY DEF Fetched
<1>2. Executing'
  BY <1>1 DEF Executing
<1>3. Registers'
  BY <1>1, Plain, NSizes DEF Registers, Accesses, DataReads, CdrReads
<1>4. Reading'
  BY <1>1 DEF Reading
<1> QED BY <1>1, <1>2, <1>3, <1>4

LEMMA FetchTyped ==
  ASSUME TypesInv,
         NEW i \in Simple \cup Searches \cup Stores \cup Counting \cup Binary \cup Fields,
         NEW m \in Modes, NEW b \in Bytes, Fetch(i, m, b)
  PROVE  TypesInv'
<1>1. /\ op' = Fetched(i, m, b) /\ UNCHANGED <<stack, memory, traps>>
      /\ Len(stack) >= Need(i, m) /\ (i \in Fields => m = "local")
  BY DEF Fetch, Need
<1>2. /\ op'.in = "run" /\ op'.i = i /\ op'.m = m /\ op'.byte = b
      /\ Executing' /\ Registers' /\ Reading'
  BY <1>1, FetchedTyped
<1>3. Named'
  BY <1>1, <1>2 DEF Named, Need
<1> QED BY <1>1, <1>2, <1>3 DEF TypesInv

LEMMA HandleTyped ==
  ASSUME TypesInv, Handle
  PROVE  TypesInv'
<1>1. Named /\ Trapped /\ op' = Fetched(op.i, op.m, op.byte) /\ UNCHANGED <<stack, traps>>
  BY DEF Handle, TypesInv
<1>2. /\ op'.in = "run" /\ op'.i = op.i /\ op'.m = op.m /\ op'.byte = op.byte
      /\ Executing' /\ Registers' /\ Reading'
  BY <1>1, FetchedTyped
<1>3. Named'
  BY <1>1, <1>2 DEF Named, Need
<1>4. /\ memory' \in [1 .. 2 * N -> MemoryWords]
      /\ \A a \in N + 1 .. 2 * N : memory'[a].t = "element-forward"
  <2>1. /\ memory \in [1 .. 2 * N -> MemoryWords]
        /\ \A a \in N + 1 .. 2 * N : memory[a].t = "element-forward" /\ a \in 1 .. 2 * N
    BY NSizes DEF TypesInv
  <2>2. CASE op.vector = "transport"
    <3> DEFINE w == memory[op.vma]
               u == [w EXCEPT !.v = @ - N]
    <3>1. memory' = [memory EXCEPT ![op.vma] = u] /\ op.vma \in 1 .. 2 * N /\ OldP(w)
      BY <1>1, <2>2 DEF Handle, Trapped
    <3>2. w \in MemoryWords /\ w.t \in Pointers /\ w.v > N
      BY <2>1, <3>1 DEF OldP
    <3> HIDE DEF w
    <3>3. u \in MemoryWords /\ u.t = w.t
      BY <3>2, NSizes DEF MemoryWords, Placed
    <3> QED BY <2>1, <3>1, <3>3 DEF w
  <2>3. CASE op.vector = "monitor"
    <3> DEFINE w == memory[op.vma]
               u == [w EXCEPT !.t = "one-q-forward"]
    <3>1. /\ memory' = [memory EXCEPT ![op.vma] = u] /\ op.vma \in 1 .. 2 * N
          /\ w.t = "monitor-forward" /\ w \in MemoryWords
      BY <1>1, <2>1, <2>3 DEF Handle, Trapped
    <3>2. \A a \in N + 1 .. 2 * N : a # op.vma
      BY <2>1, <3>1
    <3> HIDE DEF w
    <3>3. u \in MemoryWords
      BY <3>1 DEF MemoryWords, Placed, Pointers, Types
    <3> QED BY <2>1, <3>1, <3>2, <3>3
  <2>4. CASE op.vector \notin {"transport", "monitor"}
    BY <2>1, <2>4 DEF Handle
  <2> QED BY <2>2, <2>3, <2>4
<1> QED BY <1>1, <1>2, <1>3, <1>4 DEF TypesInv

LEMMA InitTyped == Init => TypesInv
<1> SUFFICES ASSUME Init PROVE TypesInv
  OBVIOUS
<1>1. PICK s \in Starts :
        /\ stack = s.stack
        /\ memory = [a \in 1 .. 2 * N |->
                       IF a <= N THEN s.memory[a]
                       ELSE [t |-> "element-forward", v |-> a - N, cdr |-> s.memory[a - N].cdr]]
  BY DEF Init
<1>2. s.stack \in Seq(Words) /\ s.memory \in [1 .. N -> MemoryWords]
  BY InstructionsAssumption DEF InstructionsAssumption
<1>3. stack \in Seq(Objects1)
  <2>1. Words \subseteq Objects1
    BY DEF Words, Objects1, Cells
  <2>2. /\ Len(s.stack) \in Nat /\ s.stack \in [1 .. Len(s.stack) -> Words]
    BY <1>2, LenProperties
  <2>3. s.stack \in [1 .. Len(s.stack) -> Objects1]
    BY <2>1, <2>2
  <2> QED BY <1>1, <2>2, <2>3, SeqDef
<1>4. ASSUME NEW a \in 1 .. 2 * N
      PROVE  memory[a] \in MemoryWords /\ (a \in N + 1 .. 2 * N => memory[a].t = "element-forward")
  <2>1. CASE a <= N
    BY <1>1, <1>2, <2>1, NSizes
  <2>2. CASE ~(a <= N)
    <3>1. a - N \in 1 .. N /\ a - N \in 1 .. 2 * N
      BY <2>2, NSizes
    <3>2. s.memory[a - N].cdr \in Cdrs
      BY <1>2, <3>1 DEF MemoryWords
    <3> QED BY <1>1, <2>2, <3>1, <3>2 DEF MemoryWords, Placed, Types, Pointers
  <2> QED BY <2>1, <2>2
<1>5. memory \in [1 .. 2 * N -> MemoryWords]
  BY <1>1, <1>4
<1>6. \A a \in N + 1 .. 2 * N : memory[a].t = "element-forward"
  BY <1>4, NSizes
<1>7. op.in = "idle" /\ traps \in 0 .. MaxTraps
  BY NSizes DEF Init, Idle
<1> QED BY <1>3, <1>5, <1>6, <1>7 DEF TypesInv

LEMMA StepTyped == TypesInv /\ [Next]_vars => TypesInv'
<1> SUFFICES ASSUME TypesInv, [Next]_vars PROVE TypesInv'
  OBVIOUS
<1>1. NoByte \in Bytes /\ "local" \in Modes
  BY NSizes DEF NoByte, Bytes, Modes
<1>2. CASE ListStep
  BY <1>2, BeginsTyped, LoopStepTyped, CarReadTyped, CdrReadsTyped, TestsTyped, StoreTyped,
     ReadsTyped, FixnumsTyped DEF ListStep
<1>3. CASE UNCHANGED vars
  BY <1>3 DEF vars, TypesInv, Named, Executing, Registers, Reading, Trapped, Arg, Slot, OldP
<1> QED BY <1>1, <1>2, <1>3, FetchTyped, ArithmeticTyped, TrapsTyped, HandleTyped DEF Next

(* Whatever the size of memory and the width of a word, the stack holds    *)
(* words, an instruction's address is one of memory's words, and every     *)
(* word keeps a type and a cdr code: a pointer that is followed, from a    *)
(* cdr, through a forward, or after a trap (emulator.c:232-263), is one    *)
(* that memory has.                                                        *)
THEOREM InstructionsTypeCorrect == Spec => []InstructionsTypeOK
<1>1. TypesInv => InstructionsTypeOK
  <2> SUFFICES ASSUME TypesInv PROVE InstructionsTypeOK
    OBVIOUS
  <2>1. stack \in Seq([t : Types, v : Int])
    <3>1. /\ Len(stack) \in Nat /\ stack \in [1 .. Len(stack) -> Objects1]
      BY LenProperties DEF TypesInv
    <3>2. stack \in [1 .. Len(stack) -> Cells]
      BY <3>1 DEF Objects1
    <3>3. stack \in Seq(Cells)
      BY <3>1, <3>2, SeqDef
    <3> QED BY <3>3 DEF Cells
  <2>2. \A a \in 1 .. 2 * N : memory[a].t \in Types /\ memory[a].cdr \in Cdrs
    BY DEF TypesInv, MemoryWords
  <2> QED BY <2>1, <2>2 DEF TypesInv, InstructionsTypeOK, Registers
<1> QED BY <1>1, InitTyped, StepTyped, PTL DEF Spec

(* Whatever the width of a word, the fixnum instructions are exact: each   *)
(* of the code's tests for overflow, made on the wrapped sum, catches      *)
(* exactly the results that are no fixnums (emulator.c:1879 to 1992).      *)
THEOREM ExactForEveryWord == Spec => []FixnumExact
BY NumbersAlways, NumbersExact, PTL

(* Whatever the width of a word, the divisions leave the quotient and the  *)
(* remainder they promise (emulator.c:2008 to 2214): the remainder is      *)
(* corrected by one divisor, which is always enough, and ROUND's test, on  *)
(* a difference that may wrap, only goes wrong for unlike signs.           *)
THEOREM DivisionForEveryWord == Spec => []DivisionRight
BY NumbersAlways, NumbersExact, PTL

-----------------------------------------------------------------------------
(***************************************************************************)
(* Words as rows of bits: powers of two multiply, a division by one of     *)
(* them and then another is one by the product, and what is a multiple of  *)
(* the word away from a number has its bits.                               *)
(***************************************************************************)
LEMMA PowersAdd ==
  ASSUME NEW a \in Nat, NEW b \in Nat
  PROVE  Pow2[a + b] = Pow2[a] * Pow2[b]
<1> DEFINE S == {n \in Nat : Pow2[a + n] = Pow2[a] * Pow2[n]}
<1>1. 0 \in S
  BY PowersOfTwo
<1>2. ASSUME NEW n \in S PROVE n + 1 \in S
  <2>1. n \in Nat /\ a + n \in Nat /\ a + (n + 1) = (a + n) + 1 /\ n + 1 \in Nat
    OBVIOUS
  <2>2. Pow2[a] \in Nat /\ Pow2[n] \in Nat
    BY <2>1, PowersOfTwo
  <2>3. Pow2[a + (n + 1)] = 2 * Pow2[a + n] /\ Pow2[n + 1] = 2 * Pow2[n]
    BY <2>1, PowersOfTwo
  <2>4. Pow2[a + n] = Pow2[a] * Pow2[n]
    OBVIOUS
  <2>5. 2 * (Pow2[a] * Pow2[n]) = Pow2[a] * (2 * Pow2[n])
    BY <2>2
  <2>6. Pow2[a + (n + 1)] = Pow2[a] * Pow2[n + 1]
    BY <2>3, <2>4, <2>5
  <2> QED BY <2>1, <2>6
<1>3. S \subseteq Nat
  OBVIOUS
<1> HIDE DEF S
<1>4. S = Nat
  BY <1>1, <1>2, <1>3, Induction
<1> QED BY <1>4 DEF S

LEMMA PowersGrow ==
  ASSUME NEW a \in Nat, NEW b \in Nat, a <= b
  PROVE  Pow2[a] <= Pow2[b]
<1>1. b - a \in Nat /\ a + (b - a) = b
  OBVIOUS
<1> DEFINE p == Pow2[a]
           q == Pow2[b - a]
<1>2. p \in Nat \ {0} /\ q \in Nat \ {0}
  BY <1>1, PowerIs
<1>3. Pow2[b] = p * q
  BY <1>1, PowersAdd
<1> HIDE DEF p, q
<1>4. p <= p * q
  BY <1>2
<1> QED BY <1>3, <1>4 DEF p

LEMMA WordPower == Word = Pow2[W] /\ Word \in Nat \ {0} /\ W \in Nat \ {0}
<1>1. W \in Nat \ {0} /\ Half \in Nat \ {0} /\ Pow2[W - 1] = Half
  BY ArithmeticAssumption DEF ArithmeticAssumption
<1>2. W - 1 \in Nat /\ W = (W - 1) + 1
  BY <1>1
<1>3. Pow2[W] = 2 * Pow2[W - 1]
  BY <1>2, PowersOfTwo
<1> QED BY <1>1, <1>3 DEF Word

(* A multiple of the divisor goes through a division. *)
LEMMA Through ==
  ASSUME NEW v \in Int, NEW q \in Int, NEW d \in Nat \ {0}
  PROVE  (v + d * q) \div d = (v \div d) + q /\ (v + d * q) % d = v % d
<1> DEFINE a == v \div d
           r == v % d
<1>1. a \in Int /\ r \in Int /\ v = d * a + r /\ 0 <= r /\ r < d
  OBVIOUS
<1> HIDE DEF a, r
<1>2. d * q \in Int /\ d * a \in Int /\ d * (a + q) = d * a + d * q
  BY <1>1
<1>3. v + d * q = d * (a + q) + r
  BY <1>1, <1>2
<1>4. a + q \in Int /\ v + d * q \in Int
  BY <1>1, <1>2
<1>5. (v + d * q) % d = r /\ (v + d * q) \div d = a + q
  BY <1>1, <1>3, <1>4, OneRemainder
<1> QED BY <1>5 DEF a, r

(* Dividing twice. *)
LEMMA Nested ==
  ASSUME NEW v \in Int, NEW m \in Nat \ {0}, NEW n \in Nat \ {0}
  PROVE  /\ m * n \in Nat \ {0}
         /\ (v \div m) \div n = v \div (m * n)
         /\ v % (m * n) = (v % m) + m * ((v \div m) % n)
<1> DEFINE a == v \div m
           r == v % m
<1>1. a \in Int /\ r \in Int /\ v = m * a + r /\ 0 <= r /\ r < m
  OBVIOUS
<1> HIDE DEF a, r
<1> DEFINE b == a \div n
           c == a % n
<1>2. b \in Int /\ c \in Int /\ a = n * b + c /\ 0 <= c /\ c <= n - 1
  BY <1>1
<1> HIDE DEF b, c
<1>3. m * n \in Nat \ {0}
  OBVIOUS
<1>4. m * c \in Int /\ 0 <= m * c /\ m * c <= m * (n - 1) /\ m * (n - 1) = m * n - m
  BY <1>2
<1>5. m * a = (m * n) * b + m * c
  BY <1>2
<1>6. v = (m * n) * b + (m * c + r)
  <2> DEFINE p == (m * n) * b
             s == m * c
             t == m * a
  <2>1. p \in Int /\ s \in Int /\ t = p + s /\ v = t + r
    BY <1>1, <1>2, <1>3, <1>4, <1>5, ProductIs
  <2> HIDE DEF p, s, t
  <2>2. v = p + (s + r)
    BY <1>1, <2>1
  <2> QED BY <2>2 DEF p, s
<1>7. m * c + r \in Int /\ 0 <= m * c + r /\ m * c + r < m * n
  BY <1>1, <1>3, <1>4
<1>8. v % (m * n) = m * c + r /\ v \div (m * n) = b
  <2> DEFINE d == m * n
             s == m * c + r
  <2>1. d \in Nat \ {0} /\ s \in Int /\ v = d * b + s /\ 0 <= s /\ s < d
    BY <1>3, <1>6, <1>7
  <2> HIDE DEF d, s
  <2>2. v % d = s /\ v \div d = b
    BY <1>2, <2>1, OneRemainder
  <2> QED BY <2>2 DEF d, s
<1>9. v % (m * n) = r + m * c
  BY <1>1, <1>4, <1>8
<1> QED BY <1>3, <1>8, <1>9 DEF a, r, b, c

(* The bits of a number, of either sign. *)
Bit(v, k) == (v \div Pow2[k]) % 2

LEMMA BitShifted ==
  ASSUME NEW v \in Int, NEW j \in Nat, NEW k \in Nat
  PROVE  Bit(v \div Pow2[j], k) = Bit(v, j + k)
<1>1. Pow2[j] \in Nat \ {0} /\ Pow2[k] \in Nat \ {0} /\ Pow2[j + k] = Pow2[j] * Pow2[k]
  BY PowerIs, PowersAdd
<1>2. (v \div Pow2[j]) \div Pow2[k] = v \div (Pow2[j] * Pow2[k])
  BY <1>1, Nested
<1> QED BY <1>1, <1>2 DEF Bit

LEMMA BitLow ==
  ASSUME NEW v \in Int, NEW q \in Int, NEW n \in Nat, NEW k \in Nat, k < n
  PROVE  Bit(v + Pow2[n] * q, k) = Bit(v, k)
<1>1. n - k - 1 \in Nat /\ n = k + ((n - k - 1) + 1)
  OBVIOUS
<1> DEFINE p == Pow2[k]
           e == Pow2[n - k - 1]
<1>2. p \in Nat \ {0} /\ e \in Nat \ {0}
  BY <1>1, PowerIs
<1>3. Pow2[n] = p * (2 * e)
  <2>1. Pow2[(n - k - 1) + 1] = 2 * e
    BY <1>1, PowersOfTwo
  <2>2. (n - k - 1) + 1 \in Nat
    BY <1>1
  <2>3. Pow2[k + ((n - k - 1) + 1)] = p * Pow2[(n - k - 1) + 1]
    BY <2>2, PowersAdd
  <2> QED BY <1>1, <2>1, <2>3
<1> HIDE DEF p, e
<1>4. Pow2[n] * q = p * (2 * (e * q)) /\ e * q \in Int /\ 2 * (e * q) \in Int
  BY <1>2, <1>3
<1>5. (v + p * (2 * (e * q))) \div p = (v \div p) + 2 * (e * q)
  BY <1>2, <1>4, Through
<1>6. v \div p \in Int
  BY <1>2, Divided2
<1>7. ((v \div p) + 2 * (e * q)) % 2 = (v \div p) % 2
  <2> DEFINE f == e * q
             g == v \div p
  <2>1. f \in Int /\ g \in Int /\ 2 \in Nat \ {0}
    BY <1>4, <1>6
  <2> HIDE DEF f, g
  <2>2. (g + 2 * f) % 2 = g % 2
    BY <2>1, Through
  <2> QED BY <2>2 DEF f, g
<1> QED BY <1>4, <1>5, <1>7 DEF Bit, p

LEMMA Nothing ==
  ASSUME NEW v \in Nat, NEW d \in Nat, v < d
  PROVE  v \div d = 0 /\ v % d = v
<1>1. d \in Nat \ {0} /\ v \in Int /\ v = d * 0 + v /\ 0 \in Int /\ 0 <= v
  OBVIOUS
<1> QED BY <1>1, OneRemainder

LEMMA BitAbove ==
  ASSUME NEW n \in Nat, NEW v \in Nat, v < Pow2[n], NEW k \in Nat, n <= k
  PROVE  Bit(v, k) = 0
<1>1. Pow2[k] \in Nat /\ Pow2[n] \in Nat /\ Pow2[n] <= Pow2[k]
  BY PowerIs, PowersGrow
<1>2. v \div Pow2[k] = 0
  BY <1>1, Nothing
<1> QED BY <1>2 DEF Bit

LEMMA Whole ==
  ASSUME NEW v \in Int, NEW d \in Nat \ {0}
  PROVE  v = (v % d) + d * (v \div d) /\ v \div d \in Int /\ v % d \in Nat /\ v % d < d
<1> DEFINE a == v \div d
           r == v % d
<1>1. a \in Int /\ r \in Nat /\ v = d * a + r /\ r < d
  OBVIOUS
<1> HIDE DEF a, r
<1>2. d * a \in Int
  BY <1>1, ProductIs
<1>3. v = r + d * a
  BY <1>1, <1>2
<1> QED BY <1>1, <1>3 DEF a, r

LEMMA BitMod ==
  ASSUME NEW v \in Int, NEW n \in Nat, NEW k \in Nat
  PROVE  Bit(v % Pow2[n], k) = IF k < n THEN Bit(v, k) ELSE 0
<1> DEFINE r == v % Pow2[n]
           q == v \div Pow2[n]
<1>1. /\ Pow2[n] \in Nat \ {0}
      /\ v = r + Pow2[n] * q /\ q \in Int /\ r \in Nat /\ r < Pow2[n]
  BY PowerIs, Whole
<1> HIDE DEF r, q
<1>2. CASE k < n
  <2>1. Bit(r + Pow2[n] * q, k) = Bit(r, k)
    BY <1>1, <1>2, BitLow
  <2> QED BY <1>1, <1>2, <2>1 DEF r
<1>3. CASE ~(k < n)
  <2>1. n <= k
    BY <1>3
  <2>2. Bit(r, k) = 0
    BY <1>1, <2>1, BitAbove
  <2> QED BY <1>3, <2>2 DEF r
<1> QED BY <1>2, <1>3

(* A number and the word that holds it. *)
LEMMA Held ==
  ASSUME NEW z \in Int
  PROVE  /\ Unsigned(Wrap(z)) = z % Word
         /\ \E q \in Int : Wrap(z) = z + Word * q
         /\ \E q \in Int : Unsigned(z) = z + Word * q
<1>1. Word \in Nat \ {0} /\ Half \in Nat
  BY Sizes
<1> DEFINE q == (z + Half) \div Word
           s == z \div Word
<1>2. z + Half \in Int
  BY <1>1
<1>3. z + Half = ((z + Half) % Word) + Word * q /\ q \in Int /\ (z + Half) % Word \in Nat
  BY <1>1, <1>2, Whole
<1>4. z = (z % Word) + Word * s /\ s \in Int /\ z % Word \in Nat
  BY <1>1, Whole
<1> HIDE DEF q, s
<1>5. -q \in Int /\ -s \in Int /\ Word * (-q) = -(Word * q) /\ Word * (-s) = -(Word * s)
      /\ Word * q \in Int /\ Word * s \in Int
  BY <1>1, <1>3, <1>4
<1>6. Wrap(z) = z + Word * (-q)
  <2> DEFINE r == (z + Half) % Word
             p == Word * q
  <2>1. r \in Int /\ p \in Int /\ z + Half = r + p /\ Word * (-q) = -p /\ Wrap(z) = r - Half
    BY <1>3, <1>5 DEF Wrap
  <2> HIDE DEF r, p
  <2>2. Wrap(z) = z + (-p)
    BY <1>1, <2>1
  <2> QED BY <2>1, <2>2
<1>7. Unsigned(z) = z + Word * (-s)
  BY <1>4, <1>5 DEF Unsigned
<1>8. (z + Word * (-q)) % Word = z % Word
  BY <1>1, <1>5, Through
<1> QED BY <1>5, <1>6, <1>7, <1>8 DEF Unsigned

LEMMA BitHeld ==
  ASSUME NEW z \in Int, NEW k \in 0 .. W - 1
  PROVE  Bit(Wrap(z), k) = Bit(z, k) /\ Bit(Unsigned(z), k) = Bit(z, k)
<1>1. Word = Pow2[W] /\ W \in Nat /\ k \in Nat /\ k < W
  BY WordPower
<1>2. PICK q \in Int : Wrap(z) = z + Word * q
  BY Held
<1>3. PICK s \in Int : Unsigned(z) = z + Word * s
  BY Held
<1>4. Bit(z + Pow2[W] * q, k) = Bit(z, k) /\ Bit(z + Pow2[W] * s, k) = Bit(z, k)
  BY <1>1, BitLow
<1> QED BY <1>1, <1>2, <1>3, <1>4
(* LDB's byte is the bits it names. *)
LEMMA LdbBits ==
  ASSUME NEW b \in Bytes, NEW x \in Int, NEW k \in 0 .. W - 1
  PROVE  Bit(Ldb(b.pos, b.size, x), k) =
            IF k < b.size + 1 THEN Bit(x, ((W - b.pos) % W) + k) ELSE 0
<1> DEFINE from == (W - b.pos) % W
           v == x \div Pow2[from]
           n == b.size + 1
<1>1. W \in Nat \ {0} /\ b.pos \in Nat /\ n \in Nat /\ k \in Nat
  BY WordPower DEF Bytes
<1>2. from \in Nat
  BY <1>1
<1> HIDE DEF from, n
<1>3. v \in Int
  BY <1>2, PowerIs, Divided2
<1>4. v % Pow2[n] \in Int
  BY <1>1, <1>3, PowerIs, Divided2
<1>5. Bit(v, k) = Bit(x, from + k)
  BY <1>1, <1>2, BitShifted
<1> HIDE DEF v
<1>6. Bit(v % Pow2[n], k) = IF k < n THEN Bit(v, k) ELSE 0
  BY <1>1, <1>3, BitMod
<1>7. Bit(Wrap(v % Pow2[n]), k) = Bit(v % Pow2[n], k)
  BY <1>4, BitHeld
<1>8. Ldb(b.pos, b.size, x) = Wrap(v % Pow2[n])
  BY DEF Ldb, ShiftRight, from, v, n
<1> QED BY <1>5, <1>6, <1>7, <1>8 DEF from, n

(* A word made of a part below a bit and one from it on. *)
LEMMA BitJoined ==
  ASSUME NEW n \in Nat, NEW r \in Nat, r < Pow2[n], NEW v \in Int, NEW k \in Nat
  PROVE  Bit(r + Pow2[n] * v, k) = IF k < n THEN Bit(r, k) ELSE Bit(v, k - n)
<1>1. CASE k < n
  BY <1>1, BitLow
<1>2. CASE ~(k < n)
  <2>1. k - n \in Nat /\ n + (k - n) = k /\ Pow2[n] \in Nat \ {0} /\ Pow2[n] * v \in Int
    BY <1>2, PowerIs, ProductIs
  <2>2. r + Pow2[n] * v \in Int
    BY <2>1
  <2>3. (r + Pow2[n] * v) \div Pow2[n] = v
    <3> DEFINE d == Pow2[n]
    <3>1. d \in Nat \ {0} /\ d \in Nat /\ r \in Int /\ r < d
      BY <2>1
    <3> HIDE DEF d
    <3>2. (r + d * v) \div d = (r \div d) + v
      BY <3>1, Through
    <3>3. r \div d = 0
      BY <3>1, Nothing
    <3>4. (r + d * v) \div d = v
      BY <3>2, <3>3
    <3> QED BY <3>4 DEF d
  <2>5. Bit((r + Pow2[n] * v) \div Pow2[n], k - n) = Bit(r + Pow2[n] * v, n + (k - n))
    BY <2>1, <2>2, BitShifted
  <2> QED BY <1>2, <2>1, <2>3, <2>5
<1> QED BY <1>1, <1>2

(* DPB puts the new byte in its place, and leaves the other bits alone. *)
LEMMA DpbBits ==
  ASSUME NEW b \in Bytes, NEW x \in Int, NEW y \in Int, NEW k \in 0 .. W - 1
  PROVE  Bit(Dpb(y, b.pos, b.size, x), k) =
            IF k \in b.pos .. b.pos + b.size THEN Bit(y, k - b.pos) ELSE Bit(x, k)
<1> DEFINE pos == b.pos
           n == b.size + 1
           end == pos + n
           u == Unsigned(x)
           below == u % Pow2[pos]
           new == Unsigned(y) % Pow2[n]
           high == IF end < W THEN u \div Pow2[end] ELSE 0
           middle == new + Pow2[n] * high
           z == below + Pow2[pos] * middle
<1>1. /\ W \in Nat \ {0} /\ pos \in Nat /\ n \in Nat /\ k \in Nat /\ k < W /\ end \in Nat
      /\ b.pos + b.size + 1 = end /\ b.size \in Nat /\ n = b.size + 1 /\ end = pos + n
  BY WordPower DEF Bytes
<1>2. u \in Nat /\ Unsigned(y) \in Nat
  BY UnsignedIs
<1>3. /\ Pow2[pos] \in Nat \ {0} /\ Pow2[n] \in Nat \ {0} /\ Pow2[end] \in Nat \ {0}
      /\ Pow2[end] = Pow2[pos] * Pow2[n]
  BY <1>1, PowerIs, PowersAdd
<1>4. Bit(u, k) = Bit(x, k)
  BY BitHeld
<1> HIDE DEF end, u, n
<1>5. /\ below \in Nat /\ below < Pow2[pos] /\ new \in Nat /\ new < Pow2[n]
      /\ high \in Int
  BY <1>1, <1>2, <1>3, Whole
<1>6. Bit(below, k) = IF k < pos THEN Bit(u, k) ELSE 0
  BY <1>1, <1>2, BitMod
<1>7. ASSUME NEW j \in 0 .. W - 1, j < n
      PROVE  Bit(new, j) = Bit(y, j)
  <2>1. j \in Nat /\ Unsigned(y) \in Int
    BY <1>2
  <2>2. Bit(new, j) = Bit(Unsigned(y), j)
    BY <1>1, <1>7, <2>1, BitMod
  <2> QED BY <2>2, BitHeld
<1>8. ASSUME k < pos PROVE Bit(z, k) = Bit(x, k)
  <2>1. middle \in Int
    BY <1>3, <1>5, ProductIs
  <2> HIDE DEF below, middle
  <2>2. Bit(z, k) = Bit(below, k)
    BY <1>1, <1>5, <1>8, <2>1, BitJoined
  <2> QED BY <1>1, <1>4, <1>6, <1>8, <2>2
<1>9. ASSUME k \in pos .. pos + b.size PROVE Bit(z, k) = Bit(y, k - pos)
  <2>1. k - pos \in 0 .. W - 1 /\ k - pos \in Nat /\ k - pos < n /\ ~(k < pos)
    BY <1>1, <1>9
  <2>2. middle \in Int
    BY <1>3, <1>5, ProductIs
  <2>3. Bit(middle, k - pos) = Bit(new, k - pos)
    <3> HIDE DEF new, high
    <3> QED BY <1>1, <1>5, <2>1, BitJoined
  <2>4. Bit(z, k) = Bit(middle, k - pos)
    <3> HIDE DEF below, middle
    <3> QED BY <1>1, <1>5, <2>1, <2>2, BitJoined
  <2> QED BY <1>7, <1>9, <2>1, <2>3, <2>4
<1>10. ASSUME ~(k < pos), k \notin pos .. pos + b.size PROVE Bit(z, k) = Bit(x, k)
  <2>1. k - pos \in Nat /\ ~(k - pos < n) /\ end <= k /\ (k - pos) - n = k - end /\ k - end \in Nat
    BY <1>1, <1>10 DEF end
  <2>2. middle \in Int
    BY <1>3, <1>5, ProductIs
  <2>3. Bit(middle, k - pos) = Bit(high, k - end)
    <3> HIDE DEF new, high
    <3> QED BY <1>1, <1>5, <2>1, BitJoined
  <2>4. Bit(z, k) = Bit(middle, k - pos)
    <3> HIDE DEF below, middle
    <3> QED BY <1>1, <1>5, <1>10, <2>1, <2>2, BitJoined
  <2>5. Bit(high, k - end) = Bit(u, k)
    <3>1. high = u \div Pow2[end]
      BY <1>1, <2>1
    <3>2. end + (k - end) = k /\ u \in Int
      BY <1>1, <1>2, <2>1
    <3>3. Bit(u \div Pow2[end], k - end) = Bit(u, end + (k - end))
      BY <1>1, <2>1, <3>2, BitShifted
    <3> QED BY <3>1, <3>2, <3>3
  <2> QED BY <1>4, <1>10, <2>3, <2>4, <2>5
<1>11. Bit(z, k) = IF k \in pos .. pos + b.size THEN Bit(y, k - pos) ELSE Bit(x, k)
  <2> HIDE DEF z
  <2>1. k < pos => k \notin pos .. pos + b.size
    BY <1>1
  <2> QED BY <1>8, <1>9, <1>10, <2>1
<1> DEFINE byte == new * Pow2[pos]
           above == IF end < W THEN ShiftRight(u, end) * Pow2[end] ELSE 0
           whole == below + (byte % Word) + above
<1>12. Dpb(y, b.pos, b.size, x) = Wrap(whole)
  BY <1>1 DEF Dpb, u
<1>13. \E q \in Int : whole = z + Word * q
  <2> DEFINE p == Pow2[pos]
             m == Pow2[n]
             e == Pow2[end]
             q == byte \div Word
             d == byte % Word
  <2>1. /\ p \in Nat /\ m \in Nat /\ e = p * m /\ Word \in Nat \ {0}
        /\ byte = new * p /\ byte \in Int /\ z = below + p * (new + m * high)
    BY <1>3, <1>5, Sizes
  <2>2. above = e * high
    BY <1>1, <1>2, <1>3, <1>5 DEF ShiftRight
  <2>3. byte = d + Word * q /\ q \in Int /\ d \in Nat
    BY <2>1, Whole
  <2>4. whole = below + d + above
    OBVIOUS
  <2> HIDE DEF p, m, e, q, d, byte, above, whole, z, new, below, high
  <2>5. p * (new + m * high) = new * p + e * high
    BY <1>5, <2>1
  <2>6. e * high \in Int /\ Word * q \in Int /\ -q \in Int /\ Word * (-q) = -(Word * q)
    BY <1>5, <2>1, <2>3
  <2>7. whole = z + Word * (-q)
    <3> DEFINE f == e * high
               g == Word * q
    <3>1. /\ f \in Int /\ g \in Int /\ d \in Int /\ below \in Int
          /\ byte = d + g /\ above = f /\ z = below + (byte + f) /\ whole = below + d + above
          /\ Word * (-q) = -g
      BY <1>5, <2>1, <2>2, <2>3, <2>4, <2>5, <2>6
    <3> HIDE DEF f, g
    <3>2. whole = z + (-g)
      BY <3>1
    <3> QED BY <3>1, <3>2
  <2> QED BY <2>6, <2>7
<1>14. PICK q \in Int : whole = z + Word * q
  BY <1>13
<1>15. z \in Int /\ whole \in Int
  <2>1. middle \in Int
    BY <1>3, <1>5, ProductIs
  <2>2. Pow2[pos] * middle \in Int
    <3> HIDE DEF middle
    <3> QED BY <1>3, <2>1, ProductIs
  <2>3. z \in Int
    <3> HIDE DEF middle, below
    <3> QED BY <1>5, <2>2
  <2>4. Word * q \in Int
    BY Sizes, ProductIs
  <2> HIDE DEF z, whole
  <2> QED BY <1>14, <2>3, <2>4
<1> HIDE DEF z, whole
<1>16. Bit(Wrap(whole), k) = Bit(whole, k)
  BY <1>15, BitHeld
<1>17. Bit(z + Pow2[W] * q, k) = Bit(z, k)
  BY <1>1, <1>15, BitLow
<1> QED BY <1>11, <1>12, <1>14, <1>16, <1>17, WordPower

LEMMA FixnumsHeld ==
  ASSUME NEW x \in Fixnum
  PROVE  x \in Int /\ Wrap(x) = x /\ Wrap(Unsigned(x)) = x
<1>1. x \in Int /\ Half \in Nat /\ Word \in Nat \ {0} /\ Word = 2 * Half
  BY Sizes DEF Fixnum
<1>2. Wrap(x) = x
  BY <1>1, WrapIs
<1>3. PICK q \in Int : Unsigned(x) = x + Word * q
  BY <1>1, Held
<1>4. x + Half \in Int /\ Word * q \in Int
  BY <1>1, ProductIs
<1>5. ((x + Half) + Word * q) % Word = (x + Half) % Word
  BY <1>1, <1>4, Through
<1>6. (x + Word * q) + Half = (x + Half) + Word * q
  BY <1>1, <1>4
<1> QED BY <1>1, <1>2, <1>3, <1>5, <1>6 DEF Wrap

LEMMA UnsignedFits ==
  ASSUME NEW z \in Nat, z < Word
  PROVE  Unsigned(Wrap(z)) = z
<1>1. z % Word = z
  BY Sizes, Nothing
<1> QED BY <1>1, Held

(* The halves of a word of h and l, exchanged. *)
LEMMA Exchanged ==
  ASSUME NEW p \in 1 .. W - 1, NEW x \in Fixnum
  PROVE  LET a == Pow2[p]
             b == Pow2[W - p]
             h == Unsigned(x) \div b
             l == Unsigned(x) % b
         IN  /\ a \in Nat \ {0} /\ b \in Nat \ {0} /\ a * b = Word
             /\ h \in Nat /\ h < a /\ l \in Nat /\ l < b /\ Unsigned(x) = l + b * h
             /\ (Unsigned(x) * a) % Word = l * a
             /\ l * a + h \in Nat /\ l * a + h < Word
             /\ Rot(x, p) = Done(<<Wrap(l * a + h)>>)
<1> DEFINE a == Pow2[p]
           b == Pow2[W - p]
           u == Unsigned(x)
           h == u \div b
           l == u % b
<1>1. /\ W \in Nat \ {0} /\ p \in Nat /\ p # 0 /\ p < W /\ W - p \in Nat /\ p + (W - p) = W
      /\ x \in Int
  BY WordPower, FixnumsHeld
<1>2. a \in Nat \ {0} /\ b \in Nat \ {0} /\ a * b = Word
  BY <1>1, PowerIs, PowersAdd, WordPower
<1>3. u \in Nat /\ u < Word
  BY <1>1, WordIs, Sizes
<1>4. l \in Nat /\ l < b /\ u = l + b * h /\ h \in Int
  <2> HIDE DEF a, b, u
  <2>1. u \in Int
    BY <1>3
  <2>2. u = (u % b) + b * (u \div b) /\ u \div b \in Int /\ u % b \in Nat /\ u % b < b
    BY <1>2, <2>1, Whole
  <2> QED BY <2>2
<1>5. ShiftRight(u, W - p) = h
  BY DEF ShiftRight
<1>6. p % W = p
  BY <1>1, Nothing
<1>7. Rot(x, p) = Done(<<Wrap(((u * a) % Word) + h)>>)
  BY <1>1, <1>5, <1>6 DEF Rot
<1> HIDE DEF a, b, u, h, l
<1>8. h >= 0
  <2>1. SUFFICES ASSUME h <= -1 PROVE FALSE
    BY <1>4
  <2>2. b * h <= -b
    BY <1>2, <1>4, <2>1
  <2>3. b * h \in Int
    BY <1>2, <1>4, ProductIs
  <2> QED BY <1>2, <1>3, <1>4, <2>2, <2>3
<1>9. h < a
  <2>1. SUFFICES ASSUME h >= a PROVE FALSE
    BY <1>2, <1>4
  <2>2. b * h >= a * b
    BY <1>2, <1>4, <2>1
  <2>3. b * h \in Int
    BY <1>2, <1>4, ProductIs
  <2> QED BY <1>2, <1>3, <1>4, <2>2, <2>3
<1>10. u * a = l * a + Word * h
  <2>1. b * h \in Int /\ (b * h) * a = (a * b) * h
    BY <1>2, <1>4
  <2>2. (l + b * h) * a = l * a + (b * h) * a
    BY <1>2, <1>4, <2>1
  <2> QED BY <1>2, <1>4, <2>1, <2>2
<1>11. l * a \in Nat /\ l * a <= a * b - a
  <2>1. l <= b - 1
    BY <1>2, <1>4
  <2>2. (b - 1) * a = a * b - a
    BY <1>2
  <2>3. l * a <= (b - 1) * a
    BY <1>2, <1>4, <2>1
  <2> QED BY <1>2, <1>4, <2>2, <2>3
<1>12. l * a < Word
  BY <1>2, <1>11, Sizes
<1>13. (l * a + Word * h) % Word = l * a
  <2> DEFINE m == l * a
  <2>1. m \in Int /\ m \in Nat /\ m < Word /\ Word \in Nat \ {0} /\ Word \in Nat
    BY <1>11, <1>12, Sizes
  <2> HIDE DEF m
  <2>2. (m + Word * h) % Word = m % Word /\ m % Word = m
    BY <1>4, <2>1, Through, Nothing
  <2> QED BY <2>2 DEF m
<1>14. l * a + h \in Nat /\ l * a + h < Word
  BY <1>2, <1>4, <1>8, <1>9, <1>11, Sizes
<1>15. (u * a) % Word = l * a
  BY <1>10, <1>13
<1> QED BY <1>2, <1>4, <1>7, <1>8, <1>9, <1>14, <1>15 DEF a, b, u, h, l

LEMMA RotTurns ==
  ASSUME NEW x \in Fixnum, NEW y \in Int
  PROVE  \E v \in Int : /\ Rot(x, y) = Done(<<v>>) /\ Rot(v, -y) = Done(<<x>>)
                       /\ Unsigned(v) % Pow2[y % W] = Unsigned(x) \div Pow2[W - (y % W)]
<1> DEFINE p == y % W
           s == y \div W
<1>1. W \in Nat \ {0} /\ W \in Nat /\ p \in Nat /\ p < W /\ s \in Int /\ y = p + W * s /\ x \in Int
  BY WordPower, Whole, FixnumsHeld
<1>2. Rot(x, y) = Rot(x, p)
  <2>1. p % W = p
    BY <1>1, Nothing
  <2> QED BY <2>1 DEF Rot
<1> HIDE DEF p, s
<1>3. (-y) % W = IF p = 0 THEN 0 ELSE W - p
  <2>1. -s \in Int /\ W * s \in Int /\ W * (-s) = -(W * s) /\ W * (-s - 1) = -(W * s) - W
        /\ -s - 1 \in Int /\ -y \in Int
    BY <1>1
  <2>2. CASE p = 0
    <3>1. -y = W * (-s) + 0 /\ 0 < W /\ 0 \in Int
      BY <1>1, <2>1, <2>2
    <3> QED BY <1>1, <2>1, <2>2, <3>1, OneRemainder
  <2>3. CASE p # 0
    <3> DEFINE r == W - p
               q == -s - 1
    <3>1. -y = W * q + r /\ r \in Int /\ 0 <= r /\ r < W /\ q \in Int
      BY <1>1, <2>1, <2>3
    <3> HIDE DEF r, q
    <3>2. (-y) % W = r
      BY <1>1, <2>1, <3>1, OneRemainder
    <3> QED BY <2>3, <3>2 DEF r
  <2> QED BY <2>2, <2>3
<1>4. CASE p = 0
  <2>1. Rot(x, y) = Done(<<x>>) /\ Rot(x, -y) = Done(<<x>>)
    BY <1>3, <1>4 DEF Rot, p
  <2>2. Unsigned(x) \in Nat /\ Unsigned(x) < Word
    BY <1>1, WordIs, Sizes
  <2>3. Unsigned(x) % Pow2[0] = 0
    BY <2>2, PowersOfTwo
  <2>4. Unsigned(x) \div Pow2[W] = 0
    BY <2>2, WordPower, Sizes, Nothing
  <2>5. W - 0 = W
    BY <1>1
  <2> QED BY <1>1, <1>4, <2>1, <2>3, <2>4, <2>5 DEF p
<1>5. CASE p # 0
  <2> DEFINE a == Pow2[p]
             b == Pow2[W - p]
             h == Unsigned(x) \div b
             l == Unsigned(x) % b
             z == l * a + h
             v == Wrap(z)
  <2>1. p \in 1 .. W - 1 /\ W - p \in 1 .. W - 1 /\ W - (W - p) = p
    BY <1>1, <1>5
  <2>2. /\ a \in Nat \ {0} /\ b \in Nat \ {0} /\ a * b = Word
        /\ h \in Nat /\ h < a /\ l \in Nat /\ l < b /\ Unsigned(x) = l + b * h
        /\ z \in Nat /\ z < Word
        /\ Rot(x, p) = Done(<<v>>)
    BY <2>1, Exchanged
  <2>3. v \in Fixnum /\ v \in Int /\ Unsigned(v) = z
    BY <2>2, WordIs, WrapInt, UnsignedFits
  <2>4. LET h2 == Unsigned(v) \div a
            l2 == Unsigned(v) % a
        IN  Rot(v, W - p) = Done(<<Wrap(l2 * b + h2)>>)
    BY <2>1, <2>3, Exchanged
  <2>5. z \div a = l /\ z % a = h
    <3> HIDE DEF a, b, h, l
    <3>1. l * a + h = a * l + h /\ z \in Int /\ l \in Int /\ h \in Int /\ 0 <= h
      BY <2>2
    <3> HIDE DEF z
    <3>2. z = a * l + h
      BY <3>1 DEF z
    <3> QED BY <2>2, <3>1, <3>2, OneRemainder
  <2>6. Rot(v, W - p) = Done(<<Wrap(h * b + l)>>)
    <3> HIDE DEF h, l, z, v
    <3> QED BY <2>3, <2>4, <2>5
  <2>7. h * b + l = Unsigned(x)
    <3> HIDE DEF h, l, b, a
    <3> QED BY <2>2
  <2>8. Rot(v, W - p) = Done(<<x>>)
    BY <2>6, <2>7, FixnumsHeld
  <2>9. Rot(v, -y) = Rot(v, W - p)
    <3>1. (W - p) % W = W - p
      BY <1>1, <2>1, Nothing
    <3> QED BY <1>3, <1>5, <3>1 DEF Rot
  <2>10. Unsigned(v) % Pow2[y % W] = Unsigned(x) \div Pow2[W - (y % W)]
    <3>1. Unsigned(v) % a = h
      BY <2>3, <2>5
    <3> QED BY <3>1 DEF p
  <2> QED BY <1>2, <2>2, <2>3, <2>8, <2>9, <2>10
<1> QED BY <1>4, <1>5

LEMMA LshShifts ==
  ASSUME NEW x \in Fixnum, NEW y \in Int
  PROVE  \E v \in Int : /\ Lsh(x, y) = Done(<<v>>)
                       /\ IF y >= 0 THEN Unsigned(v) = (Unsigned(x) * Pow2[y]) % Word
                                    ELSE Unsigned(v) = Unsigned(x) \div Pow2[-y]
<1> DEFINE u == Unsigned(x)
<1>1. /\ W \in Nat \ {0} /\ x \in Int /\ Word \in Nat \ {0} /\ Word = Pow2[W]
      /\ u \in Nat /\ u < Word
  BY WordPower, FixnumsHeld, WordIs, Sizes
<1>2. CASE y = 0
  <2>1. Lsh(x, y) = Done(<<x>>)
    BY <1>2 DEF Lsh
  <2>2. u * Pow2[y] = u
    BY <1>1, <1>2, PowersOfTwo
  <2>3. u % Word = u
    BY <1>1, Nothing
  <2> QED BY <1>1, <1>2, <2>1, <2>2, <2>3
<1>3. CASE y > W - 1
  <2>1. Lsh(x, y) = Done(<<0>>)
    BY <1>1, <1>3 DEF Lsh
  <2>2. Unsigned(0) = 0
    BY <1>1, Nothing DEF Unsigned
  <2>3. y - W \in Nat /\ y = W + (y - W) /\ W \in Nat
    BY <1>1, <1>3
  <2> DEFINE e == Pow2[y - W]
             q == u * e
  <2>4. e \in Nat /\ Pow2[y] = Word * e
    BY <1>1, <2>3, PowerIs, PowersAdd
  <2>5. q \in Int
    BY <1>1, <2>4, ProductIs
  <2>6. u * Pow2[y] = 0 + Word * q
    <3> HIDE DEF u, e
    <3> QED BY <1>1, <2>4
  <2> HIDE DEF q
  <2>7. (0 + Word * q) % Word = 0 % Word /\ 0 % Word = 0
    <3>1. (0 + Word * q) % Word = 0 % Word
      <4>1. 0 \in Int /\ Word \in Nat \ {0}
        BY <1>1
      <4> QED BY <2>5, <4>1, Through
    <3>2. 0 % Word = 0
      BY <1>1, Nothing
    <3> QED BY <3>1, <3>2
  <2>8. y >= 0 /\ 0 \in Int
    BY <1>1, <1>3
  <2>9. Unsigned(0) = (Unsigned(x) * Pow2[y]) % Word
    BY <2>2, <2>6, <2>7
  <2> QED BY <2>1, <2>8, <2>9
<1>4. CASE y < -(W - 1)
  <2>1. Lsh(x, y) = Done(<<0>>)
    BY <1>1, <1>4 DEF Lsh
  <2>2. Unsigned(0) = 0
    BY <1>1, Nothing DEF Unsigned
  <2>3. -y \in Nat /\ W \in Nat /\ W <= -y /\ ~(y >= 0)
    BY <1>1, <1>4
  <2>4. Pow2[-y] \in Nat /\ Word <= Pow2[-y]
    BY <1>1, <2>3, PowerIs, PowersGrow
  <2>5. u < Pow2[-y]
    BY <1>1, <2>4
  <2>6. u \div Pow2[-y] = 0
    BY <1>1, <2>4, <2>5, Nothing
  <2> QED BY <2>1, <2>2, <2>3, <2>6
<1>5. CASE y > 0 /\ y <= W - 1
  <2> DEFINE v == Wrap(u * Pow2[y])
  <2>1. Lsh(x, y) = Done(<<v>>)
    BY <1>1, <1>5 DEF Lsh
  <2>2. y \in Nat /\ y >= 0
    BY <1>5
  <2>3. u * Pow2[y] \in Int
    BY <1>1, <2>2, PowerIs, ProductIs
  <2>4. v \in Int /\ Unsigned(v) = (u * Pow2[y]) % Word
    BY <2>3, WrapInt, Held
  <2> QED BY <2>1, <2>2, <2>4
<1>6. CASE y < 0 /\ y >= -(W - 1)
  <2> DEFINE z == u \div Pow2[-y]
  <2>1. Lsh(x, y) = Done(<<Wrap(z)>>)
    BY <1>1, <1>6 DEF Lsh, ShiftRight
  <2>2. -y \in Nat /\ ~(y >= 0)
    BY <1>6
  <2>3. Pow2[-y] \in Nat \ {0}
    BY <2>2, PowerIs
  <2>4. z \in Nat /\ z <= u
    <3> DEFINE d == Pow2[-y]
    <3> HIDE DEF u, d
    <3>0. u \in Int /\ d \in Nat \ {0}
      BY <1>1, <2>3 DEF d
    <3>1. u = (u % d) + d * (u \div d) /\ u \div d \in Int /\ u % d \in Nat /\ u % d < d
      BY <3>0, Whole
    <3> DEFINE a == u \div d
               r == u % d
    <3>2. d \in Nat \ {0}
      BY <2>3 DEF d
    <3> HIDE DEF a, r
    <3>3. u = r + d * a /\ a \in Int /\ r \in Nat /\ r < d
      BY <3>1 DEF a, r
    <3>4. d * a \in Int
      BY <3>2, <3>3, ProductIs
    <3>5. a >= 0
      <4>1. SUFFICES ASSUME a <= -1 PROVE FALSE
        BY <3>3
      <4>2. d * a <= -d
        BY <3>2, <3>3, <4>1
      <4> QED BY <1>1, <3>2, <3>3, <3>4, <4>2
    <3>6. a <= d * a
      BY <3>2, <3>3, <3>5
    <3>7. a \in Nat /\ a <= u
      BY <1>1, <3>3, <3>4, <3>5, <3>6
    <3> QED BY <3>7 DEF a, d
  <2>5. z < Word
    BY <1>1, <2>4
  <2> HIDE DEF z
  <2>6. Wrap(z) \in Int /\ Unsigned(Wrap(z)) = z
    BY <2>4, <2>5, WrapInt, UnsignedFits
  <2> QED BY <2>1, <2>2, <2>6 DEF z
<1>7. \/ y = 0 \/ y > W - 1 \/ y < -(W - 1)
      \/ y > 0 /\ y <= W - 1
      \/ y < 0 /\ y >= -(W - 1)
  BY <1>1
<1> QED BY <1>2, <1>3, <1>4, <1>5, <1>6, <1>7

LEMMA Congruent ==
  ASSUME NEW z \in Int
  PROVE  (z - Unsigned(Wrap(z))) % Word = 0 /\ (Unsigned(Wrap(z)) - z) % Word = 0
<1>1. Word \in Nat \ {0} /\ Unsigned(Wrap(z)) = z % Word
  BY Sizes, Held
<1> DEFINE r == z % Word
           q == z \div Word
<1>2. z = r + Word * q /\ q \in Int /\ r \in Nat /\ -q \in Int
  BY <1>1, Whole
<1> HIDE DEF r, q
<1>3. Word * q \in Int /\ Word * (-q) = -(Word * q)
  BY <1>1, <1>2
<1>4. z - r = Word * q + 0 /\ r - z = Word * (-q) + 0 /\ z - r \in Int /\ r - z \in Int
      /\ 0 < Word /\ 0 \in Int
  BY <1>1, <1>2, <1>3
<1>5. (z - r) % Word = 0
  BY <1>1, <1>2, <1>4, OneRemainder
<1>6. (r - z) % Word = 0
  <2> DEFINE s == -q
             m == r - z
  <2>1. m = Word * s + 0 /\ m \in Int /\ s \in Int /\ 0 \in Int /\ 0 <= 0 /\ 0 < Word
    BY <1>2, <1>4
  <2> HIDE DEF s, m
  <2>2. m % Word = 0
    BY <1>1, <2>1, OneRemainder
  <2> QED BY <2>2 DEF m
<1> QED BY <1>1, <1>5, <1>6 DEF r

LEMMA AshShifts ==
  ASSUME NEW x \in Fixnum, NEW y \in Int, NEW o \in Ash(x, y), o.how = "done"
  PROVE  \E v \in Int :
            /\ o = Done(<<v>>)
            /\ \/ y >= 0 /\ (y >= W \/ (x * Pow2[y] - Unsigned(v)) % Word = 0)
               \/ y < 0 /\ (y <= -W \/ v = x \div Pow2[-y])
<1>1. W \in Nat \ {0} /\ x \in Int /\ Word \in Nat \ {0} /\ Wrap(x) = x
  BY WordPower, FixnumsHeld
<1>2. CASE y = 0 \/ x = 0
  <2>1. o = Done(<<x>>)
    BY <1>2 DEF Ash
  <2>2. CASE y >= 0
    <3>1. x * Pow2[y] = x
      <4>1. y \in Nat
        BY <2>2
      <4> QED BY <1>1, <1>2, <4>1, PowersOfTwo
    <3>2. (x * Pow2[y] - Unsigned(x)) % Word = 0
      BY <1>1, <3>1, Congruent
    <3> QED BY <1>1, <2>1, <2>2, <3>2
  <2>3. CASE y < 0
    <3>1. x = 0 /\ -y \in Nat
      BY <1>2, <2>3
    <3>2. Pow2[-y] \in Nat \ {0} /\ Pow2[-y] \in Nat
      BY <3>1, PowerIs
    <3>3. 0 \div Pow2[-y] = 0
      BY <3>2, Nothing
    <3> QED BY <1>1, <2>1, <2>3, <3>1, <3>3
  <2> QED BY <2>2, <2>3
<1>3. CASE ~(y = 0 \/ x = 0) /\ y > 0
  <2>1. PICK i \in ShiftedLeft(x, y) :
            o = IF ((x < 0) = (i < 0)) /\ i # 0 THEN Done(<<i>>) ELSE Exception
    BY <1>3 DEF Ash
  <2>2. o = Done(<<i>>)
    BY <2>1 DEF Exception
  <2>3. CASE y < W
    <3>1. x * Pow2[y] \in Int
      <4>1. y \in Nat
        BY <1>3
      <4> QED BY <1>1, <4>1, PowerIs, ProductIs
    <3>2. i = Wrap(x * Pow2[y])
      BY <2>1, <2>3 DEF ShiftedLeft
    <3>3. i \in Int /\ (x * Pow2[y] - Unsigned(i)) % Word = 0
      BY <3>1, <3>2, WrapInt, Congruent
    <3> QED BY <1>3, <2>2, <3>3
  <2>4. CASE ~(y < W)
    <3>1. i \in Int
      BY <1>1, <2>1, <2>4, Sizes DEF ShiftedLeft, Fixnum
    <3> QED BY <1>1, <1>3, <2>2, <2>4, <3>1
  <2> QED BY <2>3, <2>4
<1>4. CASE ~(y = 0 \/ x = 0) /\ y < 0
  <2>1. CASE -y < W
    <3>1. o = Done(<<x \div Pow2[-y]>>)
      BY <1>4, <2>1 DEF Ash, ShiftRight
    <3>2. x \div Pow2[-y] \in Int
      <4>1. -y \in Nat
        BY <1>4
      <4> QED BY <1>1, <4>1, PowerIs, Divided2
    <3> QED BY <1>4, <3>1, <3>2
  <2>2. CASE ~(-y < W)
    <3>1. o \in {Done(<<i>>) : i \in Fixnum}
      BY <1>1, <1>4, <2>2 DEF Ash
    <3>2. PICK i \in Fixnum : o = Done(<<i>>)
      BY <3>1
    <3>3. i \in Int /\ y <= -W
      BY <1>1, <2>2, <3>2, Sizes DEF Fixnum
    <3> QED BY <1>4, <3>2, <3>3
  <2> QED BY <2>1, <2>2
<1> QED BY <1>2, <1>3, <1>4

LEMMA SumsOfWords ==
  ASSUME NEW x \in Int, NEW y \in Int
  PROVE  /\ Wrap(x + y) \in Int /\ (Unsigned(Wrap(x + y)) - x - y) % Word = 0
         /\ Wrap(x - y) \in Int /\ (Unsigned(Wrap(x - y)) - x + y) % Word = 0
<1> DEFINE a == x + y
           b == x - y
<1>1. a \in Int /\ b \in Int
  OBVIOUS
<1>2. Wrap(a) \in Int /\ Wrap(b) \in Int /\ Unsigned(Wrap(a)) \in Int /\ Unsigned(Wrap(b)) \in Int
  <2> HIDE DEF a, b
  <2> QED BY <1>1, WrapInt, UnsignedIs
<1>3. (Unsigned(Wrap(a)) - a) % Word = 0 /\ (Unsigned(Wrap(b)) - b) % Word = 0
  <2> HIDE DEF a, b
  <2> QED BY <1>1, Congruent
<1>4. /\ Unsigned(Wrap(a)) - a = Unsigned(Wrap(a)) - x - y
      /\ Unsigned(Wrap(b)) - b = Unsigned(Wrap(b)) - x + y
  BY <1>2
<1> QED BY <1>2, <1>3, <1>4

LEMMA TwoWords ==
  ASSUME NEW x \in Int, NEW y \in Int
  PROVE  \E v, w \in Int : /\ MultiplyBignumStep(x, y) = Done(<<v, w>>)
                          /\ Unsigned(v) + Word * Unsigned(w) = Unsigned(x) * Unsigned(y)
<1> DEFINE a == Unsigned(x)
           b == Unsigned(y)
           z == a * b
           v == Wrap(z % Word)
           w == Wrap(z \div Word)
<1>1. /\ a \in Nat /\ a < Word /\ b \in Nat /\ b < Word /\ Word \in Nat \ {0}
  BY WordIs, Sizes
<1>2. MultiplyBignumStep(x, y) = Done(<<v, w>>)
  BY DEF MultiplyBignumStep
<1> HIDE DEF a, b
<1>3. z \in Nat
  BY <1>1
<1>4. z < Word * Word
  <2>1. a * b <= a * Word /\ a * Word < Word * Word
    BY <1>1
  <2>2. a * b \in Int /\ a * Word \in Int /\ Word * Word \in Int
    BY <1>1, ProductIs
  <2> QED BY <2>1, <2>2
<1> HIDE DEF z
<1> DEFINE l == z % Word
           h == z \div Word
<1>5. z = l + Word * h /\ h \in Int /\ l \in Nat /\ l < Word
  BY <1>1, <1>3, Whole
<1> HIDE DEF l, h
<1>6. Word * h \in Int /\ Word * Word \in Int
  BY <1>1, <1>5, ProductIs
<1>7. h >= 0
  <2>1. SUFFICES ASSUME h <= -1 PROVE FALSE
    BY <1>5
  <2>2. Word * h <= -Word
    BY <1>1, <1>5, <2>1
  <2> QED BY <1>1, <1>3, <1>5, <1>6, <2>2
<1>8. h < Word
  <2>1. SUFFICES ASSUME h >= Word PROVE FALSE
    BY <1>1, <1>5
  <2>2. Word * h >= Word * Word
    BY <1>1, <1>5, <2>1
  <2> QED BY <1>1, <1>3, <1>4, <1>5, <1>6, <2>2
<1>9. Unsigned(Wrap(l)) = l /\ Unsigned(Wrap(h)) = h /\ Wrap(l) \in Int /\ Wrap(h) \in Int
  <2>1. h \in Nat /\ l \in Nat /\ l \in Int
    BY <1>5, <1>7
  <2> QED BY <1>5, <1>8, <2>1, UnsignedFits, WrapInt
<1>10. Unsigned(v) + Word * Unsigned(w) = z
  BY <1>5, <1>9 DEF l, h
<1> QED BY <1>2, <1>9, <1>10 DEF z, a, b, l, h

Shifting == {"rot", "lsh", "ash", "plus32", "difference32", "multiply-bignum-step"}

(* What an outcome leaves, as ShiftsRight says it of the words left. *)
Shifted(i, x, y, left) ==
    LET u == Unsigned(left[1])
    IN  CASE i = "rot" -> Rot(left[1], -y) = Done(<<x>>)
                          /\ (u % Pow2[y % W]) = (Unsigned(x) \div Pow2[(W - (y % W))])
          [] i = "lsh" -> IF y >= 0 THEN u = (Unsigned(x) * Pow2[y]) % Word
                                    ELSE u = Unsigned(x) \div Pow2[-y]
          [] i = "ash" -> \/ y >= 0 /\ (y >= W \/ (x * Pow2[y] - u) % Word = 0)
                          \/ y < 0 /\ (y <= -W \/ left[1] = x \div Pow2[-y])
          [] i = "plus32"       -> (u - x - y) % Word = 0
          [] i = "difference32" -> (u - x + y) % Word = 0
          [] OTHER -> u + Word * Unsigned(left[2]) = Unsigned(x) * Unsigned(y)

LEMMA ShiftingOutcome ==
  ASSUME NEW i \in Shifting, NEW x \in Fixnum, NEW y \in Int, NEW o \in Outcomes(i, x, y),
         o.how = "done"
  PROVE  \E values \in Seq(Int) : o = Done(values) /\ Shifted(i, x, y, values)
<1>1. x \in Int
  BY FixnumsHeld
<1>2. CASE i = "rot"
  <2>1. PICK v \in Int : /\ Rot(x, y) = Done(<<v>>) /\ Rot(v, -y) = Done(<<x>>)
                         /\ Unsigned(v) % Pow2[y % W] = Unsigned(x) \div Pow2[W - (y % W)]
    BY RotTurns
  <2>2. o = Done(<<v>>)
    BY <1>2, <2>1 DEF Outcomes
  <2>3. <<v>> \in Seq(Int) /\ <<v>>[1] = v
    BY <2>1
  <2>4. Shifted(i, x, y, <<v>>)
    BY <1>2, <2>1, <2>3 DEF Shifted
  <2> QED BY <2>2, <2>3, <2>4
<1>3. CASE i = "lsh"
  <2>1. PICK v \in Int : /\ Lsh(x, y) = Done(<<v>>)
                         /\ IF y >= 0 THEN Unsigned(v) = (Unsigned(x) * Pow2[y]) % Word
                                      ELSE Unsigned(v) = Unsigned(x) \div Pow2[-y]
    BY LshShifts
  <2>2. o = Done(<<v>>)
    BY <1>3, <2>1 DEF Outcomes
  <2>3. <<v>> \in Seq(Int) /\ <<v>>[1] = v
    BY <2>1
  <2>4. Shifted(i, x, y, <<v>>)
    BY <1>3, <2>1, <2>3 DEF Shifted
  <2> QED BY <2>2, <2>3, <2>4
<1>4. CASE i = "ash"
  <2>1. o \in Ash(x, y)
    BY <1>4 DEF Outcomes
  <2>2. PICK v \in Int :
            /\ o = Done(<<v>>)
            /\ \/ y >= 0 /\ (y >= W \/ (x * Pow2[y] - Unsigned(v)) % Word = 0)
               \/ y < 0 /\ (y <= -W \/ v = x \div Pow2[-y])
    BY <2>1, AshShifts
  <2>3. <<v>> \in Seq(Int) /\ <<v>>[1] = v
    BY <2>2
  <2>4. Shifted(i, x, y, <<v>>)
    BY <1>4, <2>2, <2>3 DEF Shifted
  <2> QED BY <2>2, <2>3, <2>4
<1>5. CASE i = "plus32"
  <2> DEFINE v == Wrap(x + y)
  <2>1. v \in Int /\ (Unsigned(v) - x - y) % Word = 0
    BY <1>1, SumsOfWords
  <2>2. o = Done(<<v>>)
    BY <1>5 DEF Outcomes, Plus32
  <2> HIDE DEF v
  <2>3. <<v>> \in Seq(Int) /\ <<v>>[1] = v
    BY <2>1
  <2>4. Shifted(i, x, y, <<v>>)
    BY <1>5, <2>1, <2>3 DEF Shifted
  <2> QED BY <2>2, <2>3, <2>4
<1>6. CASE i = "difference32"
  <2> DEFINE v == Wrap(x - y)
  <2>1. v \in Int /\ (Unsigned(v) - x + y) % Word = 0
    BY <1>1, SumsOfWords
  <2>2. o = Done(<<v>>)
    BY <1>6 DEF Outcomes, Difference32
  <2> HIDE DEF v
  <2>3. <<v>> \in Seq(Int) /\ <<v>>[1] = v
    BY <2>1
  <2>4. Shifted(i, x, y, <<v>>)
    BY <1>6, <2>1, <2>3 DEF Shifted
  <2> QED BY <2>2, <2>3, <2>4
<1>7. CASE i = "multiply-bignum-step"
  <2>1. PICK v, w \in Int : /\ MultiplyBignumStep(x, y) = Done(<<v, w>>)
                            /\ Unsigned(v) + Word * Unsigned(w) = Unsigned(x) * Unsigned(y)
    BY <1>1, TwoWords
  <2>2. o = Done(<<v, w>>)
    BY <1>7, <2>1 DEF Outcomes
  <2>3. <<v, w>> \in Seq(Int) /\ <<v, w>>[1] = v /\ <<v, w>>[2] = w
    BY <2>1
  <2>4. Shifted(i, x, y, <<v, w>>)
    BY <1>7, <2>1, <2>3 DEF Shifted
  <2> QED BY <2>2, <2>3, <2>4
<1> QED BY <1>2, <1>3, <1>4, <1>5, <1>6, <1>7 DEF Shifting

(* LDB and DPB are one step too, from the words they were fetched on. *)
WordsInv ==
    /\ NumbersInv /\ TypesInv
    /\ op.in = "run" /\ op.i \in Fields => stack = was.stack /\ op.phase = "begin"
    /\ op.in = "trapped" => op.i \notin Fields
    /\ op.in = "done" => WordsRight

LEMMA ArithmeticShifts ==
  ASSUME NumbersInv, op.in = "run", op.i \in Binary, ArithmeticStep(op.i),
         WasTOS.t = "fixnum", WasArg.t = "fixnum"
  PROVE  ShiftsRight'
<1>1. /\ Goes /\ op'.in = "done" /\ op'.i = op.i /\ op.i \in Numerical
      /\ X \in Fixnum /\ Y \in Int /\ X' = X /\ Y' = Y
  BY ArithmeticEnds, Operated, StillThere, Sizes DEF Goes, Numerical, Fixnum
<1>2. PICK o \in Outcomes(op.i, X, Y) :
               /\ op'.phase = o.how
               /\ o.how = "done" =>
                     stack' = SubSeq(stack, 1, IF op.i = "unary-minus" THEN WasSP ELSE WasSP - 1)
                              \o [j \in 1 .. Len(o.values) |-> Fixnum1(o.values[j])]
  BY ArithmeticEnds
<1>3. CASE op.i \in Shifting /\ o.how = "done"
  <2>1. PICK values \in Seq(Int) : o = Done(values) /\ Shifted(op.i, X, Y, values)
    BY <1>1, <1>3, ShiftingOutcome
  <2>2. o.values = values /\ op.i # "unary-minus"
    BY <1>3, <2>1 DEF Done, Shifting
  <2>3. stack' = SubSeq(stack, 1, WasSP - 1) \o [j \in 1 .. Len(values) |-> Fixnum1(values[j])]
    BY <1>2, <1>3, <2>2
  <2>4. Left' = values
    BY <1>1, <2>1, <2>3, LeftValues
  <2>5. Shifted(op'.i, X', Y', Left')
    BY <1>1, <2>1, <2>4
  <2> QED BY <2>5 DEF ShiftsRight, Shifted
<1>4. CASE o.how # "done"
  <2>1. ~Ended("done")'
    BY <1>2, <1>4 DEF Ended
  <2> QED BY <2>1 DEF ShiftsRight
<1>5. CASE op.i \notin Shifting
  BY <1>1, <1>5 DEF ShiftsRight, OnFixnums, Shifting
<1> QED BY <1>3, <1>4, <1>5

(* What FieldStep leaves. *)
LEMMA FieldEnds ==
  ASSUME WordsInv, op.in = "run", op.i \in Fields, FieldStep
  PROVE  /\ op'.in = "done" /\ op'.i = op.i /\ op'.byte = op.byte
         /\ WasTOS' = WasTOS /\ WasSP' = WasSP /\ was' = was
         /\ op.byte \in Bytes /\ WasTOS.v \in Int
         /\ op.i = "dpb" => was.stack[WasSP - 1].v \in Int
         /\ Ended("done")' =>
               stack'[Len(stack')].v =
                  IF op.i = "ldb" THEN Ldb(op.byte.pos, op.byte.size, WasTOS.v)
                  ELSE Dpb(was.stack[WasSP - 1].v, op.byte.pos, op.byte.size, WasTOS.v)
<1>1. /\ Executing /\ stack = was.stack /\ op.m = "local" /\ op.byte \in Bytes
      /\ stack \in Seq(Objects1) /\ Len(stack) \in Nat
      /\ Len(stack) >= (IF op.i = "ldb" THEN 1 ELSE 2)
  BY LenProperties DEF WordsInv, TypesInv, Named, Need, Fields, Simple
<1>2. Goes
  BY ListStepGoes DEF WordsInv, ListStep
<1>3. WasTOS' = WasTOS /\ WasSP' = WasSP /\ was' = was /\ op'.i = op.i
  BY <1>2, StillThere DEF Goes
<1>4. WasSP = Len(stack) /\ TOS(op) = WasTOS
  BY <1>1 DEF WasSP, TOS, SP, WasTOS
<1>5. \A k \in 1 .. Len(stack) : stack[k] \in Objects1 /\ stack[k].v \in Int
  BY <1>1, LenProperties DEF Objects1, Cells
<1>6. WasTOS.v \in Int /\ (op.i = "dpb" => was.stack[WasSP - 1].v \in Int)
  <2>1. WasSP \in 1 .. Len(stack) /\ (op.i = "dpb" => WasSP - 1 \in 1 .. Len(stack))
    BY <1>1, <1>4
  <2> QED BY <1>1, <1>5, <2>1 DEF WasTOS
<1> DEFINE kept == IF op.i = "ldb" THEN Len(stack) - 1 ELSE Len(stack) - 2
           operands == {stack[k] : k \in kept + 1 .. Len(stack)}
           v == IF op.i = "ldb" THEN Ldb(op.byte.pos, op.byte.size, TOS(op).v)
                ELSE Dpb(stack[kept + 1].v, op.byte.pos, op.byte.size, TOS(op).v)
           below == SubSeq(stack, 1, kept)
<1>7. \/ FixnumException(op.i, operands)
      \/ Completes(Append(below, Fixnum1(v)))
  BY DEF FieldStep
<1>8. kept \in Nat /\ kept <= Len(stack)
  BY <1>1
<1>9. v = IF op.i = "ldb" THEN Ldb(op.byte.pos, op.byte.size, WasTOS.v)
          ELSE Dpb(was.stack[WasSP - 1].v, op.byte.pos, op.byte.size, WasTOS.v)
  <2>1. op.i = "dpb" => kept + 1 = WasSP - 1
    BY <1>1, <1>4
  <2> QED BY <1>1, <1>4, <2>1 DEF Fields
<1>10. below \in Seq(Objects1)
  BY <1>1, <1>8, Part
<1> HIDE DEF kept, operands, v, below
<1>11. CASE FixnumException(op.i, operands)
  <2>1. PICK how \in {"exception", "illegal"} : op' = [op EXCEPT !.in = "done", !.phase = how]
    BY <1>11 DEF FixnumException, Excepts, Leaves
  <2>2. op'.in = "done" /\ op'.byte = op.byte /\ op'.phase # "done"
    BY <1>1, <2>1 DEF Executing
  <2>3. ~Ended("done")'
    BY <2>2 DEF Ended
  <2> QED BY <1>1, <1>3, <1>6, <2>2, <2>3
<1>12. CASE Completes(Append(below, Fixnum1(v)))
  <2>1. op' = [op EXCEPT !.in = "done", !.phase = "done"] /\ stack' = Append(below, Fixnum1(v))
    BY <1>12 DEF Completes, Leaves
  <2>2. op'.in = "done" /\ op'.byte = op.byte
    BY <1>1, <2>1 DEF Executing
  <2>3. Len(stack') = Len(below) + 1 /\ stack'[Len(below) + 1] = Fixnum1(v)
    <3> DEFINE s == Append(below, Fixnum1(v))
               x == Fixnum1(v)
    <3> HIDE DEF x
    <3>1. Len(Append(below, x)) = Len(below) + 1 /\ Append(below, x)[Len(below) + 1] = x
      BY <1>10
    <3> QED BY <2>1, <3>1 DEF x
  <2>4. stack'[Len(stack')].v = v
    BY <2>3 DEF Fixnum1
  <2> QED BY <1>1, <1>3, <1>6, <1>9, <2>2, <2>4
<1> QED BY <1>7, <1>11, <1>12

LEMMA FieldBits ==
  ASSUME WordsInv, op.in = "run", op.i \in Fields, FieldStep
  PROVE  BytesRight'
<1>1. /\ op'.in = "done" /\ op'.i = op.i /\ op'.byte = op.byte
      /\ WasTOS' = WasTOS /\ WasSP' = WasSP /\ was' = was
      /\ op.byte \in Bytes /\ WasTOS.v \in Int
      /\ op.i = "dpb" => was.stack[WasSP - 1].v \in Int
      /\ Ended("done")' =>
            stack'[Len(stack')].v =
               IF op.i = "ldb" THEN Ldb(op.byte.pos, op.byte.size, WasTOS.v)
               ELSE Dpb(was.stack[WasSP - 1].v, op.byte.pos, op.byte.size, WasTOS.v)
  BY FieldEnds
<1> DEFINE pos == op.byte.pos
           size == op.byte.size + 1
           from == (W - pos) % W
           z == stack'[Len(stack')].v
           x == WasTOS.v
           y == was.stack[WasSP - 1].v
<1>2. pos \in Nat /\ op.byte.size \in Nat /\ pos + size - 1 = pos + op.byte.size
  BY <1>1, WordPower DEF Bytes
<1>3. ASSUME Ended("done")', op.i = "ldb", NEW k \in 0 .. W - 1
      PROVE  (z \div Pow2[k]) % 2 = IF k < size THEN (x \div Pow2[from + k]) % 2 ELSE 0
  <2>1. z = Ldb(op.byte.pos, op.byte.size, x)
    BY <1>1, <1>3
  <2>2. Bit(Ldb(op.byte.pos, op.byte.size, x), k)
           = IF k < op.byte.size + 1 THEN Bit(x, ((W - op.byte.pos) % W) + k) ELSE 0
    <3> HIDE DEF x
    <3>1. x \in Int
      BY <1>1 DEF x
    <3> QED BY <1>1, <3>1, LdbBits
  <2> QED BY <2>1, <2>2 DEF Bit
<1>4. ASSUME Ended("done")', op.i = "dpb", NEW k \in 0 .. W - 1
      PROVE  (z \div Pow2[k]) % 2 = IF k \in pos .. pos + size - 1
                                    THEN (y \div Pow2[k - pos]) % 2 ELSE (x \div Pow2[k]) % 2
  <2>1. z = Dpb(y, op.byte.pos, op.byte.size, x)
    BY <1>1, <1>4
  <2>2. Bit(Dpb(y, op.byte.pos, op.byte.size, x), k)
           = IF k \in op.byte.pos .. op.byte.pos + op.byte.size
             THEN Bit(y, k - op.byte.pos) ELSE Bit(x, k)
    <3> HIDE DEF x, y
    <3>1. x \in Int /\ y \in Int
      BY <1>1, <1>4 DEF x, y
    <3>2. op.byte \in Bytes
      BY <1>1
    <3> DEFINE b == op.byte
    <3> HIDE DEF b
    <3>3. Bit(Dpb(y, b.pos, b.size, x), k)
             = IF k \in b.pos .. b.pos + b.size THEN Bit(y, k - b.pos) ELSE Bit(x, k)
      BY <3>1, <3>2, DpbBits DEF b
    <3> QED BY <3>3 DEF b
  <2> HIDE DEF z, x, y
  <2> QED BY <1>2, <2>1, <2>2 DEF Bit
<1> HIDE DEF from
<1> QED BY <1>1, <1>3, <1>4 DEF BytesRight, from

LEMMA WordsInit == Init => WordsInv
<1> SUFFICES ASSUME Init PROVE WordsInv
  OBVIOUS
<1>1. op.in = "idle"
  BY DEF Init, Idle
<1> QED BY <1>1, NumbersInit, InitTyped DEF WordsInv

LEMMA WordsStep == WordsInv /\ [Next]_vars => WordsInv'
<1> SUFFICES ASSUME WordsInv, [Next]_vars PROVE WordsInv'
  OBVIOUS
<1>1. NumbersInv' /\ TypesInv'
  BY NumbersStep, StepTyped DEF WordsInv
<1>2. Fields \cap Numerical = {} /\ Fields \cap Shifting = {} /\ Shifting \subseteq Binary
      /\ Counting \cap Shifting = {}
  BY DEF Fields, Numerical, Binary, Counting, Shifting
<1>3. ASSUME NEW i \in Binary, ArithmeticStep(i)
      PROVE  WordsInv'
  <2>1. op.in = "run" /\ op.i = i /\ op.i \in Numerical /\ NumbersInv
    BY <1>3 DEF ArithmeticStep, Begin, Running, Numerical, WordsInv
  <2>2. Executing /\ SP(op) = WasSP /\ TOS(op) = WasTOS /\ Arg(op) = WasArg
    BY <2>1, Operated DEF NumbersInv
  <2>3. Goes /\ op'.in = "done"
    <3>1. \/ \E words : Completes(words)
          \/ \E how : Excepts(how)
      BY <1>3 DEF ArithmeticStep, FixnumException
    <3>2. Goes
      BY <2>1, <2>2, <3>1, CompletesGoes, ExceptsGoes
    <3>3. op'.in = "done"
      BY <2>2, <3>1 DEF Completes, Excepts, Leaves, Executing
    <3> QED BY <3>2, <3>3
  <2>4. op'.i \notin Fields
    BY <1>2, <2>1, <2>3 DEF Goes
  <2>5. BytesRight'
    BY <2>4 DEF BytesRight, Fields
  <2>6. ShiftsRight'
    <3>1. CASE WasTOS.t = "fixnum" /\ WasArg.t = "fixnum"
      BY <1>3, <2>1, <3>1, ArithmeticShifts
    <3>2. CASE ~(WasTOS.t = "fixnum" /\ WasArg.t = "fixnum")
      BY <2>3, <3>2, StillThere DEF ShiftsRight
    <3> QED BY <3>1, <3>2
  <2> QED BY <1>1, <2>3, <2>4, <2>5, <2>6 DEF WordsInv, WordsRight
<1>4. ASSUME ListStep PROVE WordsInv'
  <2>1. Goes
    BY <1>4, ListStepGoes DEF WordsInv
  <2>2. op.i \notin Shifting
    <3>1. CASE op.i \in Numerical
      <4>1. CountStep
        BY <1>4, <3>1, ListStepOnNumbers DEF WordsInv
      <4> QED BY <1>2, <4>1 DEF CountStep
    <3>2. CASE op.i \notin Numerical
      BY <1>2, <3>2 DEF Numerical
    <3> QED BY <3>1, <3>2
  <2>3. ShiftsRight'
    BY <2>1, <2>2 DEF ShiftsRight, OnFixnums, Shifting, Goes
  <2>4. CASE op.i \in Fields
    <3>1. op.in = "run" /\ op.phase = "begin" /\ op.i \in {"ldb", "dpb"}
      BY <2>1, <2>4 DEF Goes, WordsInv, Fields
    <3>2. FieldStep
      <4>1. ~Accessing
        BY <3>1 DEF Accessing, Accesses, DataReads, CdrReads
      <4> QED BY <1>4, <3>1, <4>1
              DEF ListStep, BeginCar, BeginCdr, BeginSetToCar, BeginSetToCdr,
                  BeginSetToCdrPushCar, BeginRplaca, BeginRplacd, BeginSearch, Begin, Running,
                  LoopStep, CarRead, CdrRead, RplacdRead, RestRead, TestMember, TestAssoc,
                  TestRgetf, KeyRead, ValueRead, Store, FollowForward, ErrorTrap, CountStep,
                  Counting, Searches
    <3>3. BytesRight' /\ op'.in = "done"
      BY <2>4, <3>1, <3>2, FieldBits, FieldEnds
    <3> QED BY <1>1, <2>3, <3>3 DEF WordsInv, WordsRight
  <2>5. CASE op.i \notin Fields
    <3>1. op'.i \notin Fields /\ op'.in \in {"run", "done"}
      BY <2>1, <2>5 DEF Goes
    <3>2. BytesRight'
      BY <3>1 DEF BytesRight, Fields
    <3> QED BY <1>1, <2>3, <3>1, <3>2 DEF WordsInv, WordsRight
  <2> QED BY <2>4, <2>5
<1>5. CASE TransportTrap \/ MonitorTrap \/ PageFault \/ SequenceBreak
  <2>1. op.in = "run" /\ op.phase # "begin"
    BY <1>5 DEF TransportTrap, MonitorTrap, PageFault, SequenceBreak, Accessing, Accesses,
                DataReads, CdrReads, Running
  <2>2. op'.in = "trapped" /\ op'.i = op.i
    BY <1>5 DEF TransportTrap, MonitorTrap, PageFault, SequenceBreak, GivenUp
  <2> QED BY <1>1, <2>1, <2>2 DEF WordsInv
<1>6. ASSUME NEW i, NEW m, NEW b, Fetch(i, m, b) PROVE WordsInv'
  <2>1. op'.in = "run" /\ op'.phase = "begin" /\ stack' = stack /\ was' = was /\ stack = was.stack
    BY <1>6 DEF Fetch, Fetched, WordsInv, NumbersInv
  <2> QED BY <1>1, <2>1 DEF WordsInv
<1>7. CASE Handle
  <2>1. op.in = "trapped" /\ op'.in = "run" /\ op'.i = op.i
    BY <1>7 DEF Handle, Fetched
  <2> QED BY <1>1, <2>1 DEF WordsInv
<1>8. CASE UNCHANGED vars
  <2>1. ShiftsRight' = ShiftsRight /\ BytesRight' = BytesRight
    BY <1>8 DEF vars, ShiftsRight, BytesRight, OnFixnums, Ended, X, Y, Left, WasTOS, WasArg, WasSP
  <2> QED BY <1>1, <1>8, <2>1 DEF vars, WordsInv, WordsRight
<1> QED BY <1>3, <1>4, <1>5, <1>6, <1>7, <1>8 DEF Next

(* WordsRight of the instructions, for a word of any number of bits: the   *)
(* rotations come back, the shifts keep the bits that stay in the word,    *)
(* sums and products of words are exact modulo the word, and LDB and DPB   *)
(* move the bits of the byte they name and no others (emulator.c:2346 to   *)
(* 2462, 2549, 2795 and 2862).                                             *)
THEOREM WordsForEveryWord == Spec => []WordsRight
<1>1. WordsInv => WordsRight
  <2> SUFFICES ASSUME WordsInv, op.in # "done" PROVE WordsRight
    BY DEF WordsInv
  <2> QED BY DEF WordsRight, ShiftsRight, BytesRight, OnFixnums, Ended
<1> QED BY <1>1, WordsInit, WordsStep, PTL DEF Spec

(***************************************************************************)
(* Where a word is after its forwards.  A memory may have a circle of      *)
(* forwards; a word at one has no home that could be said, but each word's *)
(* home is still that of the word it is forwarded to.                      *)
(***************************************************************************)
Within(m, forwards, S) == \A b \in S : m[b].t \in forwards => m[b].v \in S
Reach(m, forwards, b) ==
    {c \in 1 .. N : \A S \in SUBSET (1 .. N) : Within(m, forwards, S) /\ b \in S => c \in S}
Last(m, forwards, b) == {c \in Reach(m, forwards, b) : m[c].t \notin forwards}

LEMMA LastOf ==
  ASSUME NEW m, NEW f, \A a \in 1 .. N : m[a].t \in f => m[a].v \in 1 .. N, NEW b \in 1 .. N
  PROVE  Last(m, f, b) = IF m[b].t \in f THEN Last(m, f, m[b].v) ELSE {b}
<1>1. \A c \in 1 .. N : c \in Reach(m, f, c)
  BY DEF Reach
<1>2. CASE m[b].t \notin f
  <2>1. {b} \in SUBSET (1 .. N) /\ Within(m, f, {b})
    BY <1>2 DEF Within
  <2>2. Reach(m, f, b) \subseteq {b}
    BY <2>1 DEF Reach
  <2> QED BY <1>1, <1>2, <2>2 DEF Last
<1>3. CASE m[b].t \in f
  <2> DEFINE v == m[b].v
             R == Reach(m, f, v)
  <2>1. v \in 1 .. N
    BY <1>3
  <2>2. R \subseteq 1 .. N /\ v \in R
    BY <1>1, <2>1 DEF Reach
  <2>3. Within(m, f, R)
    <3> SUFFICES ASSUME NEW c \in R, m[c].t \in f PROVE m[c].v \in R
      BY DEF Within
    <3>1. m[c].v \in 1 .. N
      BY <2>2
    <3>2. ASSUME NEW S \in SUBSET (1 .. N), Within(m, f, S), v \in S PROVE m[c].v \in S
      <4>1. c \in S
        BY <3>2 DEF Reach
      <4> QED BY <4>1, <3>2 DEF Within
    <3> QED BY <3>1, <3>2 DEF Reach
  <2> DEFINE U == R \cup {b}
  <2>4. U \in SUBSET (1 .. N) /\ Within(m, f, U) /\ b \in U
    <3> HIDE DEF R
    <3> QED BY <2>2, <2>3 DEF Within
  <2>5. Reach(m, f, b) \subseteq U
    <3> HIDE DEF U
    <3> QED BY <2>4 DEF Reach
  <2>6. R \subseteq Reach(m, f, b)
    <3> SUFFICES ASSUME NEW c \in R, NEW S \in SUBSET (1 .. N), Within(m, f, S), b \in S
                 PROVE  c \in S
      BY <2>2 DEF Reach
    <3>1. v \in S
      BY <1>3 DEF Within
    <3> QED BY <3>1 DEF Reach
  <2>7. Last(m, f, b) = Last(m, f, v)
    BY <1>3, <2>5, <2>6 DEF Last
  <2> QED BY <1>3, <2>7
<1> QED BY <1>2, <1>3

LEMMA HomeIs ==
  ASSUME NEW m, NEW f, \A a \in 1 .. N : m[a].t \in f => m[a].v \in 1 .. N, NEW a \in 1 .. N
  PROVE  Home(m, f, a) = IF m[a].t \in f THEN Home(m, f, m[a].v) ELSE a
<1> DEFINE Eq(home) == home = [b \in 1 .. N |-> IF m[b].t \in f THEN home[m[b].v] ELSE b]
           first == [b \in 1 .. N |-> CHOOSE c : c \in Last(m, f, b)]
           home == CHOOSE home : Eq(home)
<1>1. Eq(first)
  <2>1. ASSUME NEW b \in 1 .. N
        PROVE  first[b] = IF m[b].t \in f THEN first[m[b].v] ELSE b
    <3>1. CASE m[b].t \in f
      BY <3>1, LastOf
    <3>2. CASE m[b].t \notin f
      BY <3>2, LastOf
    <3> QED BY <3>1, <3>2
  <2>2. first = [b \in 1 .. N |-> first[b]]
    OBVIOUS
  <2> HIDE DEF first
  <2> QED BY <2>1, <2>2
<1>2. Eq(home)
  <2> HIDE DEF first, Eq
  <2> QED BY <1>1
<1>3. \A b : Home(m, f, b) = home[b]
  BY DEF Home
<1>4. home[a] = IF m[a].t \in f THEN home[m[a].v] ELSE a
  <2> HIDE DEF home
  <2> QED BY <1>2
<1> HIDE DEF home
<1> QED BY <1>3, <1>4

(***************************************************************************)
(* The search.                                                             *)
(***************************************************************************)
Walking(m, i, sought, walk, l, n) ==
    IF l = NIL THEN NIL
    ELSE IF l.t # "list" \/ n = 0 THEN Undefined
    ELSE IF Here(m, i, sought, l) # NIL THEN Here(m, i, sought, l)
    ELSE IF Onward(m, i, l) \in Objects THEN walk[<<Onward(m, i, l), n - 1>>] ELSE Undefined

LEMMA WalkUpTo ==
  ASSUME NEW m, NEW i, NEW sought
  PROVE  \A k \in Nat : \E w : \A l \in Objects, n \in 0 .. k :
            w[<<l, n>>] = Walking(m, i, sought, w, l, n)
<1> DEFINE P(k) == \E w : \A l \in Objects, n \in 0 .. k :
                      w[<<l, n>>] = Walking(m, i, sought, w, l, n)
           S == {k \in Nat : P(k)}
<1>1. P(0)
  <2> DEFINE w == [p \in Objects \X (0 .. 0) |-> IF p[1] = NIL THEN NIL ELSE Undefined]
  <2>1. \A l \in Objects, n \in 0 .. 0 : w[<<l, n>>] = Walking(m, i, sought, w, l, n)
    BY DEF Walking
  <2> QED BY <2>1
<1>2. ASSUME NEW k \in Nat, P(k) PROVE P(k + 1)
  <2>1. PICK w : \A l \in Objects, n \in 0 .. k : w[<<l, n>>] = Walking(m, i, sought, w, l, n)
    BY <1>2
  <2> DEFINE u == [p \in Objects \X (0 .. k + 1) |->
                     IF p[2] <= k THEN w[<<p[1], p[2]>>] ELSE Walking(m, i, sought, w, p[1], p[2])]
  <2>2. ASSUME NEW l \in Objects, NEW n \in 0 .. k + 1
        PROVE  u[<<l, n>>] = Walking(m, i, sought, w, l, n)
    BY <2>1
  <2>3. ASSUME NEW l \in Objects, NEW n \in 0 .. k PROVE u[<<l, n>>] = w[<<l, n>>]
    OBVIOUS
  <2> HIDE DEF u
  <2>4. ASSUME NEW l \in Objects, NEW n \in 0 .. k + 1
        PROVE  Walking(m, i, sought, w, l, n) = Walking(m, i, sought, u, l, n)
    <3>1. CASE n = 0
      BY <3>1 DEF Walking
    <3>2. CASE n # 0
      <4>1. n - 1 \in 0 .. k
        BY <3>2
      <4> QED BY <4>1, <2>3 DEF Walking
    <3> QED BY <3>1, <3>2
  <2> QED BY <2>2, <2>4
<1>3. 0 \in S /\ S \subseteq Nat
  BY <1>1
<1>4. \A k \in S : k + 1 \in S
  <2> HIDE DEF P
  <2> QED BY <1>2
<1>5. S = Nat
  <2> HIDE DEF S
  <2> QED BY <1>3, <1>4, Induction
<1> QED BY <1>5

Walk(m, i, sought) ==
    CHOOSE walk : walk = [p \in Objects \X (0 .. N) |-> Walking(m, i, sought, walk, p[1], p[2])]

LEMMA WalkIs ==
  ASSUME NEW m, NEW i, NEW sought
  PROVE  /\ \A l \in Objects, n \in 0 .. N :
               Walk(m, i, sought)[<<l, n>>] = Walking(m, i, sought, Walk(m, i, sought), l, n)
         /\ \A l : Search(m, i, sought, l)
                   = IF l \in Objects THEN Walk(m, i, sought)[<<l, N>>] ELSE Undefined
<1> DEFINE Eq(walk) == walk = [p \in Objects \X (0 .. N) |->
                                 Walking(m, i, sought, walk, p[1], p[2])]
           walk == Walk(m, i, sought)
<1>1. PICK w : \A l \in Objects, n \in 0 .. N : w[<<l, n>>] = Walking(m, i, sought, w, l, n)
  <2>1. N \in Nat
    BY NSizes
  <2> QED BY <2>1, WalkUpTo
<1> DEFINE u == [p \in Objects \X (0 .. N) |-> w[p]]
<1>2. ASSUME NEW l \in Objects, NEW n \in 0 .. N
      PROVE  w[<<l, n>>] = Walking(m, i, sought, u, l, n)
  <2>1. CASE n = 0
    BY <2>1, <1>1 DEF Walking
  <2>2. CASE n # 0
    <3>1. n - 1 \in 0 .. N
      BY <2>2, NSizes
    <3> QED BY <3>1, <1>1 DEF Walking
  <2> QED BY <2>1, <2>2
<1>3. Eq(u)
  <2>1. ASSUME NEW p \in Objects \X (0 .. N)
        PROVE  w[p] = Walking(m, i, sought, u, p[1], p[2])
    <3>1. PICK l \in Objects, n \in 0 .. N : p = <<l, n>>
      OBVIOUS
    <3>2. w[<<l, n>>] = Walking(m, i, sought, u, l, n)
      BY <1>2
    <3>3. p[1] = l /\ p[2] = n
      BY <3>1
    <3> QED
      <4> HIDE DEF u
      <4> QED BY <3>1, <3>2, <3>3
  <2>2. u = [p \in Objects \X (0 .. N) |-> Walking(m, i, sought, u, p[1], p[2])]
    <3> DEFINE V(p) == Walking(m, i, sought, u, p[1], p[2])
    <3>1. \A p \in Objects \X (0 .. N) : w[p] = V(p)
      BY <2>1
    <3>2. [p \in Objects \X (0 .. N) |-> w[p]] = [p \in Objects \X (0 .. N) |-> V(p)]
      <4> HIDE DEF V, u
      <4> QED BY <3>1
    <3> QED BY <3>2
  <2> QED BY <2>2
<1>4. Eq(walk)
  <2> HIDE DEF u, Eq
  <2>1. walk = CHOOSE x : Eq(x)
    BY DEF Walk, Eq
  <2> QED BY <1>3, <2>1
<1>5. \A l : Search(m, i, sought, l) = IF l \in Objects THEN walk[<<l, N>>] ELSE Undefined
  BY DEF Search, Walk, Walking
<1>6. \A l \in Objects, n \in 0 .. N : walk[<<l, n>>] = Walking(m, i, sought, walk, l, n)
  <2> HIDE DEF walk
  <2> QED BY <1>4
<1> QED BY <1>5, <1>6

(***************************************************************************)
(* A search that has passed the conses in a set: each goes on to another   *)
(* of them or to where the search is, and unless it has come round to one  *)
(* of them, what is left to find is what is found from there with so much  *)
(* less to go.                                                             *)
(***************************************************************************)
Rest(m, i, sought, l, n) ==
    IF l \in Objects THEN Walk(m, i, sought)[<<l, n>>] ELSE Undefined

Passed(m, i, sought, list, l, conses) ==
    /\ \A a \in conses :
          /\ Here(m, i, sought, List(a)) = NIL
          /\ Onward(m, i, List(a)) = l \/ \E b \in conses : Onward(m, i, List(a)) = List(b)
    /\ \/ \E a \in conses : l = List(a)
       \/ Search(m, i, sought, list) = Rest(m, i, sought, l, N - Cardinality(conses))
AtLoop(m, i, sought, list, l) ==
    \E conses \in SUBSET (1 .. N) : Passed(m, i, sought, list, l, conses)

LEMMA ListsDiffer == \A a, b : List(a) = List(b) => a = b
BY DEF List

LEMMA SearchBegins ==
  ASSUME NEW m, NEW i, NEW sought, NEW l
  PROVE  AtLoop(m, i, sought, l, l)
<1>1. Cardinality({}) = 0
  BY FS_EmptySet
<1>2. N - Cardinality({}) = N
  BY <1>1, NSizes
<1>3. Search(m, i, sought, l) = Rest(m, i, sought, l, N)
  BY WalkIs DEF Rest
<1>4. Passed(m, i, sought, l, l, {})
  BY <1>2, <1>3 DEF Passed
<1> QED BY <1>4 DEF AtLoop

LEMMA RestIs ==
  ASSUME NEW m, NEW i, NEW sought, NEW l, NEW n \in 0 .. N
  PROVE  Rest(m, i, sought, l, n) =
            IF l = NIL THEN NIL
            ELSE IF l \notin Objects \/ l.t # "list" \/ n = 0 THEN Undefined
            ELSE IF Here(m, i, sought, l) # NIL THEN Here(m, i, sought, l)
            ELSE Rest(m, i, sought, Onward(m, i, l), n - 1)
<1>1. NIL \in Objects
  BY DEF Objects
<1>2. CASE l \in Objects
  <2>1. Rest(m, i, sought, l, n) = Walking(m, i, sought, Walk(m, i, sought), l, n)
    BY <1>2, WalkIs DEF Rest
  <2> QED BY <1>2, <2>1 DEF Walking, Rest
<1>3. CASE l \notin Objects
  BY <1>1, <1>3 DEF Rest
<1> QED BY <1>2, <1>3

LEMMA Counted ==
  ASSUME NEW conses \in SUBSET (1 .. N)
  PROVE  /\ N - Cardinality(conses) \in 0 .. N
         /\ \A a \in (1 .. N) \ conses :
               /\ Cardinality(conses \cup {a}) = Cardinality(conses) + 1
               /\ N - Cardinality(conses) \in 1 .. N
<1>1. IsFiniteSet(1 .. N) /\ Cardinality(1 .. N) = N
  BY FS_Interval, NSizes
<1>2. ASSUME NEW S \in SUBSET (1 .. N)
      PROVE  IsFiniteSet(S) /\ Cardinality(S) \in Nat /\ Cardinality(S) <= N
  BY <1>1, FS_Subset, FS_CardinalityType
<1>3. ASSUME NEW a \in (1 .. N) \ conses
      PROVE  Cardinality(conses \cup {a}) = Cardinality(conses) + 1
  BY <1>2, <1>3, FS_AddElement
<1>4. ASSUME NEW a \in (1 .. N) \ conses
      PROVE  N - Cardinality(conses) \in 1 .. N
  <2>1. Cardinality(conses) \in Nat
    BY <1>2
  <2>2. Cardinality(conses \cup {a}) <= N
    <3>1. conses \cup {a} \in SUBSET (1 .. N)
      OBVIOUS
    <3> QED BY <3>1, <1>2
  <2>3. Cardinality(conses) + 1 <= N
    BY <2>2, <1>3
  <2> QED BY <2>1, <2>3, NSizes
<1>5. N - Cardinality(conses) \in 0 .. N
  BY <1>2, NSizes
<1> QED BY <1>3, <1>4, <1>5

LEMMA ListObject == \A a \in 1 .. N : List(a) \in Objects /\ List(a) # NIL /\ List(a).t = "list"
BY DEF Objects, List, NIL

LEMMA SearchGoesOn ==
  ASSUME NEW m, NEW i, NEW sought, NEW list, NEW a \in 1 .. N,
         AtLoop(m, i, sought, list, List(a)), Here(m, i, sought, List(a)) = NIL
  PROVE  AtLoop(m, i, sought, list, Onward(m, i, List(a)))
<1> DEFINE l == List(a)
           next == Onward(m, i, List(a))
<1>1. PICK conses \in SUBSET (1 .. N) : Passed(m, i, sought, list, l, conses)
  BY DEF AtLoop
<1>2. CASE a \in conses
  <2>1. \E b \in conses : next = List(b)
    BY <1>1, <1>2 DEF Passed
  <2>2. Passed(m, i, sought, list, next, conses)
    BY <1>1, <1>2, <2>1 DEF Passed
  <2> QED BY <2>2 DEF AtLoop
<1>3. CASE a \notin conses
  <2> DEFINE more == conses \cup {a}
             n == N - Cardinality(conses)
  <2>1. n \in 1 .. N /\ N - Cardinality(more) = n - 1
    <3>1. Cardinality(conses) \in Int
      <4>1. IsFiniteSet(1 .. N)
        BY FS_Interval, NSizes
      <4>2. IsFiniteSet(conses)
        BY <1>1, <4>1, FS_Subset
      <4> QED BY <4>2, FS_CardinalityType
    <3> QED BY <1>1, <1>3, <3>1, Counted, NSizes
  <2> HIDE DEF n
  <2>2. Search(m, i, sought, list) = Rest(m, i, sought, l, n)
    BY <1>1, <1>3, ListsDiffer DEF Passed, n
  <2>3. Rest(m, i, sought, l, n) = Rest(m, i, sought, next, n - 1)
    BY <2>1, RestIs, ListObject
  <2>4. ASSUME NEW b \in more
        PROVE  /\ Here(m, i, sought, List(b)) = NIL
               /\ Onward(m, i, List(b)) = next \/ \E c \in more : Onward(m, i, List(b)) = List(c)
    BY <1>1 DEF Passed
  <2>5. Passed(m, i, sought, list, next, more)
    BY <2>1, <2>2, <2>3, <2>4 DEF Passed
  <2>6. more \in SUBSET (1 .. N)
    BY <1>1
  <2> QED BY <2>5, <2>6 DEF AtLoop
<1> QED BY <1>2, <1>3

LEMMA SearchStops ==
  ASSUME NEW m, NEW i, NEW sought, NEW list, NEW a \in 1 .. N,
         AtLoop(m, i, sought, list, List(a)), Here(m, i, sought, List(a)) # NIL
  PROVE  Search(m, i, sought, list) = Here(m, i, sought, List(a))
<1> DEFINE l == List(a)
<1>1. PICK conses \in SUBSET (1 .. N) : Passed(m, i, sought, list, l, conses)
  BY DEF AtLoop
<1>2. a \notin conses
  BY <1>1 DEF Passed
<1> DEFINE n == N - Cardinality(conses)
<1>3. n \in 1 .. N
  BY <1>1, <1>2, Counted
<1>4. Search(m, i, sought, list) = Rest(m, i, sought, l, n)
  BY <1>1, <1>2, ListsDiffer DEF Passed
<1> HIDE DEF n
<1>5. n \in 0 .. N /\ n # 0
  BY <1>3
<1> QED BY <1>4, <1>5, RestIs, ListObject

LEMMA SearchEnds ==
  ASSUME NEW m, NEW i, NEW sought, NEW list, NEW l,
         AtLoop(m, i, sought, list, l), l.t # "list"
  PROVE  Search(m, i, sought, list) = IF l = NIL THEN NIL ELSE Undefined
<1>1. PICK conses \in SUBSET (1 .. N) : Passed(m, i, sought, list, l, conses)
  BY DEF AtLoop
<1> DEFINE n == N - Cardinality(conses)
<1>2. ~ \E a \in conses : l = List(a)
  BY ListObject
<1>3. Search(m, i, sought, list) = Rest(m, i, sought, l, n)
  BY <1>1, <1>2 DEF Passed
<1>4. n \in 0 .. N
  BY <1>1, Counted
<1> HIDE DEF n
<1> QED BY <1>3, <1>4, RestIs

(***************************************************************************)
(* What a read finds, said of the settled memory.                          *)
(***************************************************************************)
Proper(m) ==
    /\ \A a \in 1 .. N :
          /\ m[a].t \in Types /\ m[a].t # "monitor-forward" /\ m[a].v \in Int /\ m[a].cdr \in Cdrs
          /\ m[a].t \in Pointers => m[a].v \in 1 .. N
          /\ m[a].t = "nil" => m[a].v = 0
    /\ m[N].cdr \notin {"next", "normal"}

LEMMA HomesAre ==
  ASSUME NEW m, Proper(m), NEW a \in 1 .. N
  PROVE  /\ DataHome(m, a) = IF m[a].t \in {"one-q-forward", "element-forward"}
                             THEN DataHome(m, m[a].v) ELSE a
         /\ CdrHome(m, a) = IF m[a].t = "element-forward" THEN CdrHome(m, m[a].v) ELSE a
<1>1. \A b \in 1 .. N : m[b].t \in {"one-q-forward", "element-forward"} => m[b].v \in 1 .. N
  BY DEF Proper, Pointers
<1>2. DataHome(m, a) = IF m[a].t \in {"one-q-forward", "element-forward"}
                       THEN DataHome(m, m[a].v) ELSE a
  BY <1>1, HomeIs DEF DataHome
<1>3. \A b \in 1 .. N : m[b].t \in {"element-forward"} => m[b].v \in 1 .. N
  BY <1>1
<1>4. CdrHome(m, a) = IF m[a].t \in {"element-forward"} THEN CdrHome(m, m[a].v) ELSE a
  BY <1>3, HomeIs DEF CdrHome
<1> QED BY <1>2, <1>4

Finds == TypesInv /\ Proper(Memory) /\ Settled(memory) = Memory /\ Accessing /\ op.vma \in 1 .. N

LEMMA Finding ==
  ASSUME Finds
  PROVE  /\ At \in MemoryWords
         /\ Memory[op.vma].t = IF At.t = "monitor-forward" THEN "one-q-forward" ELSE At.t
         /\ Memory[op.vma].v = IF OldP(At) THEN At.v - N ELSE At.v
         /\ Memory[op.vma].cdr = At.cdr
<1>1. At \in MemoryWords
  BY AtIs DEF Finds
<1>2. Memory[op.vma] = [t   |-> IF At.t = "monitor-forward" THEN "one-q-forward" ELSE At.t,
                        v   |-> IF OldP(At) THEN At.v - N ELSE At.v,
                        cdr |-> At.cdr]
  BY DEF Finds, Settled, At
<1> QED BY <1>1, <1>2

LEMMA FindsForward ==
  ASSUME Finds, ~Transports, Indirect
  PROVE  /\ At.v \in 1 .. N
         /\ op.phase \notin CdrReads => DataHome(Memory, op.vma) = DataHome(Memory, At.v)
         /\ op.phase \in CdrReads => CdrHome(Memory, op.vma) = CdrHome(Memory, At.v)
<1>1. At.t = "element-forward" \/ (At.t = "one-q-forward" /\ op.phase \notin CdrReads)
  BY DEF Indirect
<1>2. ~OldP(At)
  BY DEF Transports
<1>3. At.t = Memory[op.vma].t /\ At.v = Memory[op.vma].v
  BY <1>1, <1>2, Finding
<1>4. op.vma \in 1 .. N /\ Proper(Memory)
  BY DEF Finds
<1>5. At.v \in 1 .. N
  BY <1>1, <1>3, <1>4 DEF Proper, Pointers
<1> QED BY <1>1, <1>3, <1>4, <1>5, HomesAre

LEMMA FindsNull ==
  ASSUME Finds, ~Transports, Errs
  PROVE  Contents(Memory, op.vma) = Undefined
<1>1. At.t = "null"
  BY DEF Errs
<1>2. Memory[op.vma].t = "null"
  BY <1>1, Finding
<1>3. op.vma \in 1 .. N /\ Proper(Memory)
  BY DEF Finds
<1>4. DataHome(Memory, op.vma) = op.vma
  BY <1>2, <1>3, HomesAre
<1> QED BY <1>2, <1>4 DEF Contents

LEMMA FindsObject ==
  ASSUME Finds, Delivered, op.phase \in DataReads
  PROVE  Contents(Memory, op.vma) = Object(At) /\ Object(At) \in Live
<1>1. op.phase \notin CdrReads
  BY DEF DataReads, CdrReads
<1>2. At.t \notin Invisible /\ ~OldP(At)
  BY <1>1 DEF Delivered, Indirect, Monitors, Errs, Transports, Invisible
<1>3. At.t = Memory[op.vma].t /\ At.v = Memory[op.vma].v
  BY <1>2, Finding DEF Invisible
<1>4. op.vma \in 1 .. N /\ Proper(Memory)
  BY DEF Finds
<1>5. DataHome(Memory, op.vma) = op.vma
  BY <1>2, <1>3, <1>4, HomesAre DEF Invisible
<1>6. Contents(Memory, op.vma) = [t |-> At.t, v |-> At.v]
  BY <1>2, <1>3, <1>5 DEF Contents, Object, Invisible
<1>7. /\ At.t \in Types \ Invisible /\ At.v \in Int
      /\ At.t \in {"list", "locative"} => At.v \in 1 .. N
      /\ At.t = "nil" => At.v = 0
  BY <1>2, <1>3, <1>4 DEF Proper, Pointers
<1> QED BY <1>6, <1>7 DEF Object, Live, NIL

LEMMA FindsCdr ==
  ASSUME Finds, Delivered, op.phase \in CdrReads
  PROVE  /\ CdrHome(Memory, op.vma) = op.vma /\ Memory[op.vma].cdr = At.cdr
         /\ At.cdr \in {"next", "normal"} => op.vma + 1 \in 1 .. N
<1>1. At.t # "element-forward"
  BY DEF Delivered, Indirect
<1>2. Memory[op.vma].t # "element-forward" /\ Memory[op.vma].cdr = At.cdr
  BY <1>1, Finding
<1>3. op.vma \in 1 .. N /\ Proper(Memory)
  BY DEF Finds
<1>4. At.cdr \in {"next", "normal"} => op.vma # N
  BY <1>2, <1>3 DEF Proper
<1> QED BY <1>2, <1>3, <1>4, HomesAre, NSizes

LEMMA FindsPlace ==
  ASSUME Finds, Delivered, op.phase = "store"
  PROVE  DataHome(Memory, op.vma) = op.vma
<1>1. op.phase \notin CdrReads
  BY DEF CdrReads
<1>2. At.t \notin {"one-q-forward", "element-forward", "monitor-forward"}
  BY <1>1 DEF Delivered, Indirect, Monitors
<1>3. Memory[op.vma].t \notin {"one-q-forward", "element-forward"}
  BY <1>2, Finding
<1>4. op.vma \in 1 .. N /\ Proper(Memory)
  BY DEF Finds
<1> QED BY <1>3, <1>4, HomesAre

(* The trap handlers leave the settled memory as it was. *)
LEMMA HandledSettled ==
  ASSUME TypesInv, Handle
  PROVE  Settled(memory') = Settled(memory)
<1>1. /\ memory \in [1 .. 2 * N -> MemoryWords] /\ Trapped
      /\ memory' = CASE op.vector = "transport" -> [memory EXCEPT ![op.vma].v = @ - N]
                     [] op.vector = "monitor"   -> [memory EXCEPT ![op.vma].t = "one-q-forward"]
                     [] OTHER                   -> memory
  BY DEF TypesInv, Handle
<1> DEFINE settled(w) == [t   |-> IF w.t = "monitor-forward" THEN "one-q-forward" ELSE w.t,
                          v   |-> IF OldP(w) THEN w.v - N ELSE w.v,
                          cdr |-> w.cdr]
<1>2. ASSUME NEW a \in 1 .. N PROVE settled(memory'[a]) = settled(memory[a])
  <2>1. a \in 1 .. 2 * N /\ memory[a] \in MemoryWords
    BY <1>1, NSizes
  <2>2. memory[a] = [t |-> memory[a].t, v |-> memory[a].v, cdr |-> memory[a].cdr]
        /\ memory[a].v \in Int /\ (memory[a].t \in Pointers => memory[a].v \in 1 .. 2 * N)
    BY <2>1 DEF MemoryWords, Placed
  <2>3. CASE op.vector = "transport" /\ op.vma = a
    <3>1. OldP(memory[a])
      BY <1>1, <2>3 DEF Trapped
    <3>2. memory'[a] = [memory[a] EXCEPT !.v = memory[a].v - N]
      BY <1>1, <2>1, <2>3
    <3>3. memory'[a].t = memory[a].t /\ memory'[a].v = memory[a].v - N
          /\ memory'[a].cdr = memory[a].cdr
      BY <3>2, <2>2
    <3>4. ~OldP(memory'[a])
      BY <3>1, <3>3, <2>2, NSizes DEF OldP
    <3> QED BY <3>1, <3>3, <3>4
  <2>4. CASE op.vector = "monitor" /\ op.vma = a
    <3>1. memory[a].t = "monitor-forward"
      BY <1>1, <2>4 DEF Trapped
    <3>2. memory'[a] = [memory[a] EXCEPT !.t = "one-q-forward"]
      BY <1>1, <2>1, <2>4
    <3>3. memory'[a].t = "one-q-forward" /\ memory'[a].v = memory[a].v
          /\ memory'[a].cdr = memory[a].cdr
      BY <3>2, <2>2
    <3>4. OldP(memory'[a]) <=> OldP(memory[a])
      BY <3>1, <3>3 DEF OldP, Pointers
    <3> QED BY <3>1, <3>3, <3>4
  <2>5. CASE ~(op.vector \in {"transport", "monitor"} /\ op.vma = a)
    <3>1. memory'[a] = memory[a]
      BY <1>1, <2>1, <2>5
    <3> QED BY <3>1
  <2> QED BY <2>3, <2>4, <2>5
<1> QED BY <1>2 DEF Settled

(***************************************************************************)
(* The invariant.  What an instruction on lists is about to read, at each  *)
(* of its steps, is what it would find at once.                            *)
(***************************************************************************)
Source == IF op.i \in Searches THEN op.scratch ELSE WasArg

(* The object that is read in a phase, and the one whose cdr code is.      *)
Wanted(p) ==
    CASE p = "car"      -> TheCar(Memory, Source)
      [] p = "rest"     -> TheCdr(Memory, Source)
      [] p = "skiprest" -> TheCdr(Memory, op.cdr)
      [] p = "key"      -> TheCar(Memory, op.car)
      [] OTHER          -> TheCar(Memory, op.cdr)
Asked(p) ==
    IF op.i = "rplacd" THEN WasTOS ELSE IF p = "skip" THEN op.cdr ELSE Source

Heads(p, a) ==
    /\ p \in Accesses => a \in 1 .. N
    /\ p \in DataReads => Contents(Memory, a) = Wanted(p)
    /\ p \in CdrReads => Asked(p).t = "list" /\ CdrHome(Memory, a) = CdrHome(Memory, Asked(p).v)
    /\ p = "store" => DataHome(Memory, a) = Changed

Placing(p) ==
    /\ p \in {"loop", "test", "key", "value", "skip", "skiprest"} => op.i \in Searches
    /\ p = "store" => op.i \in Stores /\ (WasTOS.t = "list" \/ WasTOS.t = "locative")
    /\ p = "car" => op.i \in {"car", "set-to-car", "set-to-cdr-push-car"} \cup Searches
    /\ p = "cdr" => op.i \in {"cdr", "set-to-cdr", "set-to-cdr-push-car", "rplacd"} \cup Searches
    /\ p = "rest" => op.i \in {"cdr", "set-to-cdr", "set-to-cdr-push-car"} \cup Searches
    /\ op.i = "set-to-cdr-push-car" /\ p \in {"cdr", "rest"} =>
          op.car = TheCar(Memory, WasArg) /\ op.car \in Live

(* How far a search has come. *)
Searching(p) ==
    op.i \in Searches /\ p # "begin" =>
       /\ WasTOS.t # "double"
       /\ op.scratch \in Live
       /\ p # "loop" => op.scratch.t = "list"
       /\ AtLoop(Memory, op.i, WasTOS, WasArg, op.scratch)
       /\ p \notin {"loop", "car"} => op.car = TheCar(Memory, op.scratch) /\ op.car \in Live
       /\ p \in {"test", "key", "value", "skip", "skiprest"} =>
             op.cdr = TheCdr(Memory, op.scratch) /\ op.cdr \in Live
       /\ p = "key" => op.i = "assoc" /\ op.car.t = "list"
       /\ p = "value" => op.i = "rgetf" /\ op.car = WasTOS /\ op.cdr.t = "list"
       /\ p \in {"skip", "skiprest"} =>
             op.i = "rgetf" /\ op.car # WasTOS /\ op.cdr.t \in {"list", "locative"}

Known(p) == Placing(p) /\ Searching(p)

Kept1 ==
    /\ Len(stack) = Len(was.stack)
    /\ \A k \in 1 .. Len(stack) : k # LiveSlot => stack[k] = was.stack[k]

Intact ==
    /\ op.in \in {"idle", "trapped"} => stack = was.stack
    /\ op.in = "run" => Heads(op.phase, op.vma) /\ Known(op.phase) /\ Kept1
    /\ op.in = "done" => AsIfAtOnce

WasRight == was.stack \in Seq(Live) /\ Proper(Memory)

(* SET-TO-CAR and the like have their operand where it is. *)
InPlace ==
    op.in \in {"run", "trapped"} /\ op.i \in {"set-to-car", "set-to-cdr", "set-to-cdr-push-car"} =>
       op.m = "local"

ResultInv ==
    /\ TypesInv /\ NumbersInv /\ WasRight /\ InPlace
    /\ op.in # "done" => Settled(memory) = Memory
    /\ was.spilled \/ Intact

(***************************************************************************)
(* What stays while an instruction is executed.                            *)
(***************************************************************************)
LEMMA Held1 ==
  ASSUME op'.i = op.i, op'.m = op.m, was' = was
  PROVE  /\ WasArg' = WasArg /\ WasTOS' = WasTOS /\ Memory' = Memory
         /\ WasSP' = WasSP /\ WasKept' = WasKept
         /\ WasRight' <=> WasRight
<1>1. WasArg' = WasArg /\ WasSP' = WasSP
  BY DEF WasArg, WasSP
<1>2. WasTOS' = WasTOS /\ WasKept' = WasKept
  BY <1>1 DEF WasTOS, WasKept
<1>3. Memory' = Memory
  BY DEF Memory
<1>4. WasRight' <=> WasRight
  BY <1>3 DEF WasRight
<1> QED BY <1>1, <1>2, <1>3, <1>4

LEMMA SameAnswer ==
  ASSUME op'.i = op.i, op'.m = op.m, was' = was
  PROVE  /\ Answer' = Answer /\ Changed' = Changed
         /\ Possible' <=> Possible
         /\ MemoryAfter' = MemoryAfter
<1>1. /\ WasArg' = WasArg /\ WasTOS' = WasTOS /\ Memory' = Memory
      /\ WasSP' = WasSP /\ WasKept' = WasKept
  BY Held1
<1>2. Answer' = Answer
  BY <1>1 DEF Answer
<1>3. Changed' = Changed
  BY <1>1 DEF Changed
<1>4. Possible' <=> Possible
  BY <1>2, <1>3 DEF Possible
<1>5. MemoryAfter' = MemoryAfter
  BY <1>1, <1>3 DEF MemoryAfter
<1> QED BY <1>2, <1>3, <1>4, <1>5

LEMMA Undefinable == Undefined \notin Live /\ NIL \in Live /\ NIL # Undefined
BY DEF Undefined, Live, NIL, Types, Pointers, Invisible

Running1 == ResultInv /\ Intact /\ op.in = "run"

(* The stack of a running instruction, where it has not been overwritten.  *)
LEMMA StackSame ==
  ASSUME Running1, LiveSlot = 0
  PROVE  stack = was.stack
<1>1. stack \in Seq(Objects1) /\ was.stack \in Seq(Live) /\ Len(stack) = Len(was.stack)
  BY DEF Running1, ResultInv, TypesInv, WasRight, Intact, Kept1
<1>2. \A k \in 1 .. Len(stack) : stack[k] = was.stack[k]
  <2>1. \A k \in 1 .. Len(stack) : k # 0
    BY <1>1, LenProperties
  <2> QED BY <2>1 DEF Running1, Intact, Kept1
<1>3. stack = [k \in 1 .. Len(stack) |-> stack[k]]
      /\ was.stack = [k \in 1 .. Len(was.stack) |-> was.stack[k]]
  BY <1>1
<1> QED BY <1>1, <1>2, <1>3

LEMMA WasGiven ==
  ASSUME Running1
  PROVE  /\ Len(was.stack) = Len(stack) /\ WasSP = SP(op)
         /\ WasSP \in 0 .. Len(was.stack) /\ Len(was.stack) \in Nat
         /\ WasArg \in Live
         /\ op.i \notin Simple => WasTOS \in Live /\ WasSP \in 1 .. Len(was.stack)
         /\ WasKept \in Seq(Live) /\ Len(WasKept) = WasSP
         /\ op.m = "local" => WasSP = Len(was.stack) /\ WasSP >= 1
<1>1. Len(was.stack) = Len(stack) /\ was.stack \in Seq(Live) /\ op.m \in Modes
      /\ TypesInv /\ op.in = "run"
  BY DEF Running1, ResultInv, TypesInv, WasRight, Intact, Kept1, Named
<1>2. /\ Len(stack) \in Nat /\ Len(stack) >= 1 /\ Slot(op) \in 1 .. Len(stack)
      /\ SP(op) \in Int /\ SP(op) <= Len(stack) /\ SP(op) >= 0
  BY <1>1, Given
<1>3. WasSP = SP(op) /\ WasArg = was.stack[Slot(op)]
  BY <1>1 DEF WasSP, SP, WasArg, Slot
<1>4. WasArg \in Live
  BY <1>1, <1>2, <1>3, LenProperties
<1>5. op.i \notin Simple => WasSP >= 1
  <2>1. Len(stack) >= Need(op.i, op.m)
    BY <1>1 DEF TypesInv, Named
  <2>2. CASE op.m = "pop"
    BY <2>1, <2>2, <1>2, <1>3 DEF Need, SP
  <2>3. CASE op.m = "local"
    BY <2>3, <1>2, <1>3 DEF SP
  <2> QED BY <1>1, <2>2, <2>3 DEF Modes
<1>6. WasSP \in 0 .. Len(was.stack)
  BY <1>1, <1>2, <1>3
<1>7. \A k \in 1 .. WasSP : was.stack[k] \in Live
  BY <1>1, <1>2, <1>6, LenProperties
<1>8. WasKept \in Seq(Live) /\ Len(WasKept) = WasSP
  <2>1. SubSeq(was.stack, 1, WasSP) \in Seq(Live)
    BY <1>1, <1>6, <1>7, SubSeqProperties
  <2>2. Len(SubSeq(was.stack, 1, WasSP)) = WasSP
    BY <1>1, <1>6, <1>7, SubSeqProperties
  <2> QED BY <2>1, <2>2 DEF WasKept
<1>9. op.i \notin Simple => WasTOS \in Live
  <2> SUFFICES ASSUME op.i \notin Simple PROVE WasTOS \in Live
    OBVIOUS
  <2>1. WasSP \in 1 .. WasSP
    BY <1>5, <1>6
  <2> QED BY <2>1, <1>7 DEF WasTOS
<1>10. op.m = "local" => WasSP = Len(was.stack) /\ WasSP >= 1
  BY <1>1, <1>2 DEF WasSP
<1> QED BY <1>1, <1>2, <1>3, <1>4, <1>5, <1>6, <1>8, <1>9, <1>10

LEMMA SameWords ==
  ASSUME Running1, LiveSlot = 0
  PROVE  Arg(op) = WasArg /\ TOS(op) = WasTOS /\ SP(op) = WasSP /\ Kept = WasKept
<1>1. stack = was.stack
  BY StackSame
<1> QED BY <1>1 DEF Arg, Slot, TOS, SP, Kept, WasArg, WasTOS, WasSP, WasKept

(* Only a word that the result replaces may have been overwritten. *)
LEMMA KeptSame ==
  ASSUME Running1, op.i \in Simple
  PROVE  Kept = WasKept /\ (op.m = "local" => stack = was.stack)
<1>1. CASE LiveSlot = 0
  BY <1>1, SameWords, StackSame
<1>2. CASE LiveSlot # 0
  <2>1. op.m = "pop" /\ LiveSlot = Len(stack)
    <3>1. op.i # "rgetf"
      BY DEF Simple
    <3> QED BY <1>2, <3>1 DEF LiveSlot, Slot
  <2>2. /\ stack \in Seq(Objects1) /\ was.stack \in Seq(Live) /\ Len(stack) = Len(was.stack)
        /\ Len(stack) \in Nat
        /\ \A k \in 1 .. Len(stack) : k # Len(stack) => stack[k] = was.stack[k]
    BY <2>1, LenProperties DEF Running1, ResultInv, TypesInv, WasRight, Intact, Kept1
  <2>3. SP(op) = Len(stack) - 1 /\ WasSP = Len(stack) - 1
    BY <2>1, <2>2 DEF SP, WasSP
  <2> DEFINE n == Len(stack) - 1
  <2>4. n \in Int /\ n <= Len(stack) /\ n <= Len(was.stack)
    BY <2>2
  <2>5. SubSeq(stack, 1, n) = [k \in 1 .. n |-> stack[k]]
        /\ SubSeq(was.stack, 1, n) = [k \in 1 .. n |-> was.stack[k]]
    <3> HIDE DEF n
    <3> QED BY <2>2, <2>4
  <2>6. \A k \in 1 .. n : stack[k] = was.stack[k]
    BY <2>2
  <2> HIDE DEF n
  <2>7. SubSeq(stack, 1, n) = SubSeq(was.stack, 1, n)
    BY <2>5, <2>6
  <2> QED BY <2>1, <2>3, <2>7 DEF Kept, WasKept, n
<1> QED BY <1>1, <1>2

LEMMA TopReplaced ==
  ASSUME Running1, op.i = "rgetf", NEW x
  PROVE  SettingTOS(x) = [WasKept EXCEPT ![WasSP] = x]
<1>1. CASE LiveSlot = 0
  BY <1>1, SameWords DEF SettingTOS
<1>2. CASE LiveSlot # 0
  <2>1. LiveSlot = SP(op)
    BY <1>2 DEF LiveSlot
  <2>2. /\ stack \in Seq(Objects1) /\ was.stack \in Seq(Live) /\ Len(stack) = Len(was.stack)
        /\ Len(stack) \in Nat
        /\ \A k \in 1 .. Len(stack) : k # SP(op) => stack[k] = was.stack[k]
    BY <2>1, LenProperties DEF Running1, ResultInv, TypesInv, WasRight, Intact, Kept1
  <2>3. SP(op) = WasSP /\ WasSP \in 0 .. Len(stack)
    BY WasGiven
  <2>4. SubSeq(stack, 1, WasSP) = [k \in 1 .. WasSP |-> stack[k]]
        /\ SubSeq(was.stack, 1, WasSP) = [k \in 1 .. WasSP |-> was.stack[k]]
    BY <2>2, <2>3
  <2>5. \A k \in 1 .. WasSP : k # WasSP => stack[k] = was.stack[k]
    BY <2>2, <2>3
  <2>6. [[k \in 1 .. WasSP |-> stack[k]] EXCEPT ![WasSP] = x]
        = [[k \in 1 .. WasSP |-> was.stack[k]] EXCEPT ![WasSP] = x]
    BY <2>5
  <2> QED BY <2>3, <2>4, <2>6 DEF SettingTOS, Kept, WasKept
<1> QED BY <1>1, <1>2

(***************************************************************************)
(* How an instruction on lists ends and goes on.                           *)
(***************************************************************************)
LEMMA EndsAs ==
  ASSUME Running1, NEW words, NEW how, Leaves(words, how), UNCHANGED memory
  PROVE  /\ op'.in = "done" /\ op'.phase = how /\ op'.i = op.i /\ stack' = words
         /\ Answer' = Answer /\ (Possible' <=> Possible) /\ MemoryAfter' = MemoryAfter
         /\ was' = was /\ Memory' = Memory /\ Settled(memory)' = Memory
<1>1. op'.in = "done" /\ op'.phase = how /\ op'.i = op.i /\ op'.m = op.m /\ was' = was
      /\ stack' = words
  BY DEF Leaves, Running1, ResultInv, TypesInv, Executing
<1>2. Settled(memory) = Memory
  BY DEF Running1, ResultInv
<1>3. Memory' = Memory
  BY <1>1, Held1
<1>4. Settled(memory)' = Settled(memory)
  BY DEF Settled
<1> QED BY <1>1, <1>2, <1>3, <1>4, SameAnswer

LEMMA EndsRight ==
  ASSUME Running1, NEW words \in Seq(Live), Completes(words), op.i \in Simple \cup Searches,
         Answer = words
  PROVE  Intact'
<1>1. /\ op'.in = "done" /\ op'.phase = "done" /\ op'.i = op.i /\ stack' = words
      /\ Answer' = Answer /\ (Possible' <=> Possible) /\ MemoryAfter' = MemoryAfter
      /\ Settled(memory)' = Memory
  BY EndsAs DEF Completes
<1>2. op.i \notin Stores
  BY DEF Simple, Searches, Stores
<1>3. Possible
  <2>1. \A k \in DOMAIN words : words[k] \in Live
    BY LenProperties
  <2> QED BY <1>2, <2>1, Undefinable DEF Possible
<1>4. MemoryAfter = Memory
  BY <1>2 DEF MemoryAfter
<1> QED BY <1>1, <1>3, <1>4 DEF Intact, AsIfAtOnce, Ended

LEMMA EndsWrong ==
  ASSUME Running1, NEW words, NEW how, how # "done", Leaves(words, how), UNCHANGED memory, ~Possible,
         how = "error" \/ words = was.stack
  PROVE  Intact'
<1>1. /\ op'.in = "done" /\ op'.phase = how /\ op'.i = op.i /\ stack' = words
      /\ (Possible' <=> Possible) /\ was' = was /\ Memory' = Memory /\ Settled(memory)' = Memory
  BY EndsAs
<1> QED BY <1>1 DEF Intact, AsIfAtOnce, Ended

LEMMA Exceptional ==
  ASSUME Running1, LiveSlot = 0, ~Possible
  PROVE  /\ \A how : how # "done" /\ Excepts(how) => Intact'
         /\ \A x : ListException(x) => Intact'
<1>1. stack = was.stack
  BY StackSame
<1>2. ASSUME NEW how, how # "done", Excepts(how) PROVE Intact'
  BY <1>1, <1>2, EndsWrong DEF Excepts
<1>3. ASSUME NEW x, ListException(x) PROVE Intact'
  <2>1. (IF x.t = "list-instance" THEN "exception" ELSE "illegal") # "done"
    OBVIOUS
  <2> QED BY <1>2, <1>3, <2>1 DEF ListException
<1> QED BY <1>2, <1>3

(* An instruction that is not on lists says nothing of lists. *)
LEMMA EndsOther ==
  ASSUME Running1, NEW words, NEW how, Leaves(words, how), UNCHANGED memory,
         op.i \notin Simple \cup Searches \cup Stores
  PROVE  Intact'
<1>1. op'.in = "done" /\ op'.i = op.i
  BY EndsAs
<1> QED BY <1>1 DEF Intact, AsIfAtOnce, OnLists

LEMMA HeadsHeld ==
  ASSUME op'.i = op.i, op'.m = op.m, was' = was,
         op'.scratch = op.scratch, op'.car = op.car, op'.cdr = op.cdr, NEW p, NEW a
  PROVE  (Heads(p, a)' <=> Heads(p, a)) /\ (Known(p)' <=> Known(p))
<1>1. WasArg' = WasArg /\ WasTOS' = WasTOS /\ Memory' = Memory /\ Changed' = Changed
  BY Held1, SameAnswer
<1>2. Source' = Source
  BY <1>1 DEF Source
<1>3. Wanted(p)' = Wanted(p) /\ Asked(p)' = Asked(p)
  BY <1>1, <1>2 DEF Wanted, Asked
<1>4. Heads(p, a)' <=> Heads(p, a)
  BY <1>1, <1>3 DEF Heads
<1>5. Placing(p)' <=> Placing(p)
  BY <1>1 DEF Placing
<1>6. Searching(p)' <=> Searching(p)
  BY <1>1 DEF Searching
<1> QED BY <1>4, <1>5, <1>6 DEF Known

LEMMA SamePlaces ==
  ASSUME Running1, LiveSlot = 0, UNCHANGED <<stack, was>>
  PROVE  Kept1'
<1>1. stack = was.stack
  BY StackSame
<1> QED BY <1>1 DEF Kept1

LEMMA ContinueIntact ==
  ASSUME Running1, LiveSlot = 0, NEW p, NEW a, Continue(p, a), Heads(p, a), Known(p)
  PROVE  Intact'
<1>1. /\ op'.in = "run" /\ op'.phase = p /\ op'.vma = a /\ op'.i = op.i /\ op'.m = op.m
      /\ op'.scratch = op.scratch /\ op'.car = op.car /\ op'.cdr = op.cdr
      /\ UNCHANGED <<stack, was>>
  BY DEF Continue, Running1, ResultInv, TypesInv, Executing
<1>2. Heads(p, a)' /\ Known(p)'
  BY <1>1, HeadsHeld
<1>3. Kept1'
  BY <1>1, SamePlaces
<1>4. Heads(op.phase, op.vma)' /\ Known(op.phase)'
  BY <1>1, <1>2 DEF Heads, Known, Placing, Searching, Wanted, Asked
<1> QED BY <1>1, <1>3, <1>4 DEF Intact

LEMMA LoopIntact ==
  ASSUME Running1, LiveSlot = 0, NEW l \in Live, Loop(l), op.i \in Searches,
         WasTOS.t # "double", AtLoop(Memory, op.i, WasTOS, WasArg, l)
  PROVE  Intact'
<1>1. /\ op'.in = "run" /\ op'.phase = "loop" /\ op'.vma = op.vma /\ op'.i = op.i /\ op'.m = op.m
      /\ op'.scratch = l /\ op'.car = op.car /\ op'.cdr = op.cdr
      /\ UNCHANGED <<stack, was>>
  BY DEF Loop, Running1, ResultInv, TypesInv, Executing
<1>2. WasArg' = WasArg /\ WasTOS' = WasTOS /\ Memory' = Memory
  BY <1>1, Held1
<1>3. Kept1'
  BY <1>1, SamePlaces
<1>4. Heads(op.phase, op.vma)'
  BY <1>1 DEF Heads, Accesses, DataReads, CdrReads
<1>5. Placing(op.phase)'
  BY <1>1 DEF Placing, Searches
<1>6. Searching(op.phase)'
  BY <1>1, <1>2 DEF Searching
<1> QED BY <1>1, <1>3, <1>4, <1>5, <1>6 DEF Intact, Known

(***************************************************************************)
(* What each instruction is to leave.                                      *)
(***************************************************************************)
LEMMA SimpleAnswers ==
  ASSUME NEW car, car = TheCar(Memory, WasArg), NEW cdr, cdr = TheCdr(Memory, WasArg)
  PROVE  /\ op.i = "car" =>
               Answer = IF car = Undefined THEN <<Undefined>> ELSE Append(WasKept, car)
         /\ op.i = "cdr" =>
               Answer = IF cdr = Undefined THEN <<Undefined>> ELSE Append(WasKept, cdr)
         /\ op.i = "set-to-car" =>
               Answer = IF car = Undefined THEN <<Undefined>> ELSE [WasKept EXCEPT ![1] = car]
         /\ op.i = "set-to-cdr" =>
               Answer = IF cdr = Undefined THEN <<Undefined>> ELSE [WasKept EXCEPT ![1] = cdr]
         /\ op.i = "set-to-cdr-push-car" =>
               Answer = IF car = Undefined \/ cdr = Undefined THEN <<Undefined>>
                        ELSE Append([WasKept EXCEPT ![1] = cdr], car)
<1>1. CASE op.i = "car"
  BY <1>1 DEF Answer
<1>2. CASE op.i = "cdr"
  BY <1>2 DEF Answer
<1>3. CASE op.i = "set-to-car"
  BY <1>3 DEF Answer
<1>4. CASE op.i = "set-to-cdr"
  BY <1>4 DEF Answer
<1>5. CASE op.i = "set-to-cdr-push-car"
  BY <1>5 DEF Answer
<1> QED BY <1>1, <1>2, <1>3, <1>4, <1>5

LEMMA SearchAnswers ==
  ASSUME NEW found, found = Search(Memory, op.i, WasTOS, WasArg), op.i \in Searches
  PROVE  /\ WasTOS.t = "double" \/ found = Undefined => Answer = <<Undefined>>
         /\ WasTOS.t # "double" /\ found # Undefined /\ op.i \in {"member", "assoc"} =>
               Answer = [WasKept EXCEPT ![WasSP] = found]
         /\ WasTOS.t # "double" /\ found # Undefined /\ op.i = "rgetf" =>
               Answer = IF found = NIL THEN Append([WasKept EXCEPT ![WasSP] = NIL], NIL)
                        ELSE Append([WasKept EXCEPT ![WasSP] =
                                        TheCar(Memory, TheCdr(Memory, found))],
                                    TheCdr(Memory, found))
<1>1. /\ op.i # "car" /\ op.i # "cdr" /\ op.i # "set-to-car" /\ op.i # "set-to-cdr"
      /\ op.i # "set-to-cdr-push-car" /\ op.i # "rplaca" /\ op.i # "rplacd"
      /\ op.i \in {"member", "assoc"} \/ op.i = "rgetf"
  BY DEF Searches
<1>2. CASE WasTOS.t = "double"
  BY <1>1, <1>2 DEF Answer
<1>3. CASE WasTOS.t # "double" /\ op.i \in {"member", "assoc"}
  BY <1>1, <1>3 DEF Answer
<1>4. CASE WasTOS.t # "double" /\ op.i = "rgetf"
  BY <1>1, <1>4 DEF Answer
<1> QED BY <1>1, <1>2, <1>3, <1>4

LEMMA Impossible ==
  ASSUME op.i \in Simple \cup Searches, Answer = <<Undefined>>
  PROVE  ~Possible
<1>1. op.i \notin Stores
  BY DEF Simple, Searches, Stores
<1>2. 1 \in DOMAIN Answer /\ Answer[1] = Undefined
  OBVIOUS
<1>3. Undefined \in {Answer[k] : k \in DOMAIN Answer}
  BY <1>2
<1> QED BY <1>1, <1>3 DEF Possible

(* The words that are left are those of a program. *)
LEMMA LeavesLive ==
  ASSUME Running1
  PROVE  \A x \in Live, y \in Live :
            /\ Append(WasKept, x) \in Seq(Live)
            /\ [WasKept EXCEPT ![1] = x] \in Seq(Live)
            /\ [WasKept EXCEPT ![WasSP] = x] \in Seq(Live)
            /\ Append([WasKept EXCEPT ![1] = x], y) \in Seq(Live)
            /\ Append([WasKept EXCEPT ![WasSP] = x], y) \in Seq(Live)
<1>1. WasKept \in Seq(Live) /\ WasSP \in Nat
  BY WasGiven
<1>2. ASSUME NEW x \in Live, NEW k PROVE [WasKept EXCEPT ![k] = x] \in Seq(Live)
  <2>1. CASE k \in 1 .. Len(WasKept)
    BY <1>1, <2>1, ExceptSeq
  <2>2. CASE k \notin 1 .. Len(WasKept)
    <3>1. WasKept \in [1 .. Len(WasKept) -> Live]
      BY <1>1, LenProperties
    <3>2. [WasKept EXCEPT ![k] = x] = WasKept
      BY <2>2, <3>1
    <3> QED BY <1>1, <3>2
  <2> QED BY <2>1, <2>2
<1>3. \A s \in Seq(Live), x \in Live : Append(s, x) \in Seq(Live)
  BY AppendProperties
<1> QED BY <1>1, <1>2, <1>3

(***************************************************************************)
(* The simple instructions.                                                *)
(***************************************************************************)
Cars == {"car", "set-to-car", "set-to-cdr-push-car"}
Cdrs1 == {"cdr", "set-to-cdr", "set-to-cdr-push-car"}

LEMMA NoSlot ==
  /\ op.phase \in {"begin", "loop", "test", "key", "skip", "skiprest", "cdr", "store"} => LiveSlot = 0
  /\ op.i \notin {"car", "cdr", "rgetf"} => LiveSlot = 0
  /\ op.i \in Searches /\ op.phase # "value" => LiveSlot = 0
BY DEF LiveSlot, Searches

LEMMA Delivers ==
  ASSUME Running1, NEW v, v \in Live
  PROVE  /\ op.i = "car" /\ v = TheCar(Memory, WasArg) /\ Completes(Pushing(v)) => Intact'
         /\ op.i = "set-to-car" /\ op.m = "local" /\ v = TheCar(Memory, WasArg)
            /\ Completes(SettingArg(v)) => Intact'
         /\ op.i = "cdr" /\ v = TheCdr(Memory, WasArg) /\ Completes(Pushing(v)) => Intact'
         /\ op.i = "set-to-cdr" /\ op.m = "local" /\ v = TheCdr(Memory, WasArg)
            /\ Completes(SettingArg(v)) => Intact'
         /\ \A x \in Live :
               op.i = "set-to-cdr-push-car" /\ op.m = "local" /\ v = TheCdr(Memory, WasArg)
               /\ x = TheCar(Memory, WasArg) /\ Completes(Append(SettingArg(v), x)) => Intact'
<1>1. v # Undefined
  BY Undefinable
<1>2. op.m = "local" => Slot(op) = 1
  BY DEF Slot
<1>3. op.i \in Simple => Kept = WasKept
  BY KeptSame
<1>4. CASE op.i = "car" /\ v = TheCar(Memory, WasArg) /\ Completes(Pushing(v))
  <2>1. Answer = Append(WasKept, v)
    BY <1>1, <1>4, SimpleAnswers
  <2>2. Pushing(v) = Answer
    BY <1>3, <1>4, <2>1 DEF Pushing, Simple
  <2>3. Pushing(v) \in Seq(Live)
    BY <2>1, <2>2, LeavesLive
  <2> QED BY <1>4, <2>2, <2>3, EndsRight DEF Simple
<1>5. CASE op.i = "set-to-car" /\ op.m = "local" /\ v = TheCar(Memory, WasArg)
           /\ Completes(SettingArg(v))
  <2>1. Answer = [WasKept EXCEPT ![1] = v]
    BY <1>1, <1>5, SimpleAnswers
  <2>2. SettingArg(v) = Answer
    BY <1>2, <1>3, <1>5, <2>1 DEF SettingArg, Simple
  <2>3. SettingArg(v) \in Seq(Live)
    BY <2>1, <2>2, LeavesLive
  <2> QED BY <1>5, <2>2, <2>3, EndsRight DEF Simple
<1>6. CASE op.i = "cdr" /\ v = TheCdr(Memory, WasArg) /\ Completes(Pushing(v))
  <2>1. Answer = Append(WasKept, v)
    BY <1>1, <1>6, SimpleAnswers
  <2>2. Pushing(v) = Answer
    BY <1>3, <1>6, <2>1 DEF Pushing, Simple
  <2>3. Pushing(v) \in Seq(Live)
    BY <2>1, <2>2, LeavesLive
  <2> QED BY <1>6, <2>2, <2>3, EndsRight DEF Simple
<1>7. CASE op.i = "set-to-cdr" /\ op.m = "local" /\ v = TheCdr(Memory, WasArg)
           /\ Completes(SettingArg(v))
  <2>1. Answer = [WasKept EXCEPT ![1] = v]
    BY <1>1, <1>7, SimpleAnswers
  <2>2. SettingArg(v) = Answer
    BY <1>2, <1>3, <1>7, <2>1 DEF SettingArg, Simple
  <2>3. SettingArg(v) \in Seq(Live)
    BY <2>1, <2>2, LeavesLive
  <2> QED BY <1>7, <2>2, <2>3, EndsRight DEF Simple
<1>8. ASSUME NEW x \in Live, op.i = "set-to-cdr-push-car", op.m = "local",
             v = TheCdr(Memory, WasArg), x = TheCar(Memory, WasArg),
             Completes(Append(SettingArg(v), x))
      PROVE  Intact'
  <2>1. x # Undefined
    BY Undefinable
  <2>2. Answer = Append([WasKept EXCEPT ![1] = v], x)
    BY <1>1, <1>8, <2>1, SimpleAnswers
  <2>3. Append(SettingArg(v), x) = Answer
    BY <1>2, <1>3, <1>8, <2>2 DEF SettingArg, Simple
  <2>4. Append(SettingArg(v), x) \in Seq(Live)
    BY <2>2, <2>3, LeavesLive
  <2> QED BY <1>8, <2>3, <2>4, EndsRight DEF Simple
<1> QED BY <1>4, <1>5, <1>6, <1>7, <1>8

LEMMA CarOfIntact ==
  ASSUME Running1, op.phase = "begin", op.i \in Cars, NEW ACTION onNIL, CarOf(Arg(op), onNIL),
         onNIL /\ WasArg = NIL => Intact'
  PROVE  Intact'
<1>1. LiveSlot = 0 /\ Arg(op) = WasArg /\ WasArg \in Live
  BY NoSlot, SameWords, WasGiven
<1>2. op.i \in Simple /\ op.i \notin Searches
  BY DEF Cars, Simple, Searches
<1>3. CASE WasArg.t \in {"list", "locative"} /\ Continue("car", WasArg.v)
  <2>1. WasArg.v \in 1 .. N
    BY <1>1, <1>3 DEF Live
  <2>2. Contents(Memory, WasArg.v) = TheCar(Memory, Source)
    BY <1>2, <1>3 DEF TheCar, Source
  <2>3. Heads("car", WasArg.v)
    BY <2>1, <2>2 DEF Heads, Wanted, DataReads, CdrReads
  <2>4. Known("car")
    BY <1>2 DEF Known, Placing, Searching, Cars
  <2> QED BY <1>1, <1>3, <2>3, <2>4, ContinueIntact
<1>4. CASE WasArg.t = "nil" /\ onNIL
  BY <1>1, <1>4 DEF Live
<1>5. CASE WasArg.t \notin {"list", "locative", "nil"} /\ ListException(WasArg)
  <2>1. TheCar(Memory, WasArg) = Undefined
    BY <1>5 DEF TheCar
  <2>2. Answer = <<Undefined>>
    BY <2>1, SimpleAnswers DEF Cars
  <2>3. ~Possible
    BY <1>2, <2>2, Impossible
  <2> QED BY <1>1, <1>5, <2>3, Exceptional
<1> QED BY <1>1, <1>3, <1>4, <1>5 DEF CarOf

LEMMA CdrOfIntact ==
  ASSUME Running1, op.phase = "begin", op.i \in {"cdr", "set-to-cdr"}, NEW ACTION onNIL,
         CdrOf(Arg(op), onNIL, "cdr", "rest"), onNIL /\ WasArg = NIL => Intact'
  PROVE  Intact'
<1>1. LiveSlot = 0 /\ Arg(op) = WasArg /\ WasArg \in Live
  BY NoSlot, SameWords, WasGiven
<1>2. op.i \in Simple /\ op.i \notin Searches /\ op.i # "rplacd"
  BY DEF Simple, Searches
<1>3. CASE WasArg.t = "list" /\ Continue("cdr", WasArg.v)
  <2>1. WasArg.v \in 1 .. N
    BY <1>1, <1>3 DEF Live
  <2>2. Asked("cdr") = WasArg
    BY <1>2 DEF Asked, Source
  <2>3. Heads("cdr", WasArg.v)
    BY <1>3, <2>1, <2>2 DEF Heads, DataReads, CdrReads
  <2>4. Known("cdr")
    BY <1>2 DEF Known, Placing, Searching
  <2> QED BY <1>1, <1>3, <2>3, <2>4, ContinueIntact
<1>4. CASE WasArg.t = "locative" /\ Continue("rest", WasArg.v)
  <2>1. WasArg.v \in 1 .. N
    BY <1>1, <1>4 DEF Live
  <2>2. Contents(Memory, WasArg.v) = TheCdr(Memory, Source)
    BY <1>2, <1>4 DEF TheCdr, Source
  <2>3. Heads("rest", WasArg.v)
    BY <2>1, <2>2 DEF Heads, Wanted, DataReads, CdrReads
  <2>4. Known("rest")
    BY <1>2 DEF Known, Placing, Searching
  <2> QED BY <1>1, <1>4, <2>3, <2>4, ContinueIntact
<1>5. CASE WasArg.t = "nil" /\ onNIL
  BY <1>1, <1>5 DEF Live
<1>6. CASE WasArg.t \notin {"list", "locative", "nil"} /\ ListException(WasArg)
  <2>1. TheCdr(Memory, WasArg) = Undefined
    BY <1>6 DEF TheCdr
  <2>2. Answer = <<Undefined>>
    BY <2>1, SimpleAnswers
  <2>3. ~Possible
    BY <1>2, <2>2, Impossible
  <2> QED BY <1>1, <1>6, <2>3, Exceptional
<1> QED BY <1>1, <1>3, <1>4, <1>5, <1>6 DEF CdrOf

LEMMA BeginsIntact ==
  ASSUME Running1,
         BeginCar \/ BeginCdr \/ BeginSetToCar \/ BeginSetToCdr \/ BeginSetToCdrPushCar
  PROVE  Intact'
<1>1. op.phase = "begin"
  BY DEF BeginCar, BeginCdr, BeginSetToCar, BeginSetToCdr, BeginSetToCdrPushCar, Begin, Running
<1>2. op.i \in {"set-to-car", "set-to-cdr", "set-to-cdr-push-car"} => op.m = "local"
  BY DEF Running1, ResultInv, InPlace
<1>3. WasArg = NIL => TheCar(Memory, WasArg) = NIL /\ TheCdr(Memory, WasArg) = NIL
  BY DEF TheCar, TheCdr, NIL
<1>4. NIL \in Live
  BY Undefinable
<1>5. CASE BeginCar
  <2>1. op.i = "car" /\ CarOf(Arg(op), Completes(Pushing(NIL)))
    BY <1>5 DEF BeginCar, Begin
  <2>2. Completes(Pushing(NIL)) /\ WasArg = NIL => Intact'
    BY <2>1, <1>3, <1>4, Delivers
  <2> QED BY <1>1, <2>1, <2>2, CarOfIntact DEF Cars
<1>6. CASE BeginCdr
  <2>1. op.i = "cdr" /\ CdrOf(Arg(op), Completes(Pushing(NIL)), "cdr", "rest")
    BY <1>6 DEF BeginCdr, Begin
  <2>2. Completes(Pushing(NIL)) /\ WasArg = NIL => Intact'
    BY <2>1, <1>3, <1>4, Delivers
  <2> QED BY <1>1, <2>1, <2>2, CdrOfIntact
<1>7. CASE BeginSetToCar
  <2>1. op.i = "set-to-car" /\ CarOf(Arg(op), Completes(SettingArg(NIL)))
    BY <1>7 DEF BeginSetToCar, Begin
  <2>2. Completes(SettingArg(NIL)) /\ WasArg = NIL => Intact'
    BY <2>1, <1>2, <1>3, <1>4, Delivers
  <2> QED BY <1>1, <2>1, <2>2, CarOfIntact DEF Cars
<1>8. CASE BeginSetToCdr
  <2>1. op.i = "set-to-cdr" /\ CdrOf(Arg(op), Completes(SettingArg(NIL)), "cdr", "rest")
    BY <1>8 DEF BeginSetToCdr, Begin
  <2>2. Completes(SettingArg(NIL)) /\ WasArg = NIL => Intact'
    BY <2>1, <1>2, <1>3, <1>4, Delivers
  <2> QED BY <1>1, <2>1, <2>2, CdrOfIntact
<1>9. CASE BeginSetToCdrPushCar
  <2>1. op.i = "set-to-cdr-push-car" /\ CarOf(Arg(op), Completes(Append(SettingArg(NIL), NIL)))
    BY <1>9 DEF BeginSetToCdrPushCar, Begin
  <2>2. Completes(Append(SettingArg(NIL), NIL)) /\ WasArg = NIL => Intact'
    BY <2>1, <1>2, <1>3, <1>4, Delivers
  <2> QED BY <1>1, <2>1, <2>2, CarOfIntact DEF Cars
<1> QED BY <1>5, <1>6, <1>7, <1>8, <1>9

(***************************************************************************)
(* What a read of nothing, or of no cdr, makes of the whole.               *)
(***************************************************************************)
LEMMA ConsOf ==
  ASSUME NEW x \in Live, x.t = "list"
  PROVE  x.v \in 1 .. N /\ x = List(x.v)
BY DEF Live, List

LEMMA SearchFails ==
  ASSUME Running1, op.i \in Searches, Search(Memory, op.i, WasTOS, WasArg) = Undefined
  PROVE  ~Possible
BY SearchAnswers, Impossible

LEMMA SearchThere ==
  ASSUME Running1, op.i \in Searches, op.phase # "begin", op.phase # "loop"
  PROVE  /\ op.scratch.v \in 1 .. N /\ op.scratch = List(op.scratch.v)
         /\ Here(Memory, op.i, WasTOS, op.scratch) # NIL =>
               Search(Memory, op.i, WasTOS, WasArg) = Here(Memory, op.i, WasTOS, op.scratch)
         /\ Here(Memory, op.i, WasTOS, op.scratch) = NIL =>
               AtLoop(Memory, op.i, WasTOS, WasArg, Onward(Memory, op.i, op.scratch))
<1>1. /\ op.scratch \in Live /\ op.scratch.t = "list"
      /\ AtLoop(Memory, op.i, WasTOS, WasArg, op.scratch)
  BY DEF Running1, Intact, Known, Searching
<1>2. op.scratch.v \in 1 .. N /\ op.scratch = List(op.scratch.v)
  BY <1>1, ConsOf
<1> DEFINE a == op.scratch.v
<1>3. a \in 1 .. N /\ op.scratch = List(a)
  BY <1>2
<1> HIDE DEF a
<1>4. AtLoop(Memory, op.i, WasTOS, WasArg, List(a))
  BY <1>1, <1>3
<1> DEFINE m == Memory
           i == op.i
           sought == WasTOS
           list == WasArg
<1>5. AtLoop(m, i, sought, list, List(a))
  BY <1>4
<1> HIDE DEF m, i, sought, list
<1>6. Here(m, i, sought, List(a)) # NIL => Search(m, i, sought, list) = Here(m, i, sought, List(a))
  BY <1>3, <1>5, SearchStops
<1>7. Here(m, i, sought, List(a)) = NIL => AtLoop(m, i, sought, list, Onward(m, i, List(a)))
  BY <1>3, <1>5, SearchGoesOn
<1> QED BY <1>2, <1>3, <1>6, <1>7 DEF m, i, sought, list

LEMMA Skipping ==
  ASSUME Running1, op.phase \in {"skip", "skiprest"}
  PROVE  /\ op.i = "rgetf" /\ op.i \in Searches
         /\ Here(Memory, op.i, WasTOS, op.scratch) = NIL
         /\ Onward(Memory, op.i, op.scratch) = TheCdr(Memory, op.cdr)
         /\ op.cdr \in Live /\ op.cdr.t \in {"list", "locative"}
<1>1. op.i \in Searches
  BY DEF Running1, Intact, Known, Placing
<1>2. /\ op.i = "rgetf" /\ op.car # WasTOS
      /\ op.car = TheCar(Memory, op.scratch) /\ op.cdr = TheCdr(Memory, op.scratch)
      /\ op.car \in Live /\ op.cdr \in Live /\ op.cdr.t \in {"list", "locative"}
  BY <1>1 DEF Running1, Intact, Known, Searching
<1>3. op.car # Undefined /\ op.cdr # Undefined
  BY <1>2, Undefinable
<1>4. Here(Memory, op.i, WasTOS, op.scratch) = NIL
  BY <1>2, <1>3 DEF Here, FoundKey
<1>5. Onward(Memory, op.i, op.scratch) = TheCdr(Memory, op.cdr)
  BY <1>2 DEF Onward
<1> QED BY <1>1, <1>2, <1>4, <1>5

Got(p) == IF p \in DataReads THEN Wanted(p)
          ELSE IF p = "skip" THEN TheCdr(Memory, op.cdr) ELSE TheCdr(Memory, Source)

LEMMA Broken ==
  ASSUME Running1, op.phase \in DataReads \cup {"cdr", "skip"}, op.i # "rplacd",
         Got(op.phase) = Undefined
  PROVE  ~Possible
<1>1. Known(op.phase)
  BY DEF Running1, Intact
<1>2. CASE op.i \notin Searches
  <2>1. op.phase \in {"car", "cdr", "rest"}
    BY <1>1, <1>2 DEF Known, Placing, DataReads
  <2>2. Source = WasArg
    BY <1>2 DEF Source
  <2>3. CASE op.phase = "car"
    <3>1. op.i \in {"car", "set-to-car", "set-to-cdr-push-car"}
      BY <1>1, <1>2, <2>3 DEF Known, Placing
    <3>2. TheCar(Memory, WasArg) = Undefined
      BY <2>2, <2>3 DEF Got, Wanted, DataReads
    <3>3. Answer = <<Undefined>>
      BY <3>1, <3>2, SimpleAnswers
    <3> QED BY <3>1, <3>3, Impossible DEF Simple
  <2>4. CASE op.phase \in {"cdr", "rest"}
    <3>1. op.i \in {"cdr", "set-to-cdr", "set-to-cdr-push-car"}
      BY <1>1, <1>2, <2>4 DEF Known, Placing
    <3>2. TheCdr(Memory, WasArg) = Undefined
      BY <2>2, <2>4 DEF Got, Wanted, DataReads
    <3>3. Answer = <<Undefined>>
      BY <3>1, <3>2, SimpleAnswers
    <3> QED BY <3>1, <3>3, Impossible DEF Simple
  <2> QED BY <2>1, <2>3, <2>4
<1>3. CASE op.i \in Searches
  <2>1. op.phase # "begin" /\ op.phase # "loop"
    BY DEF DataReads
  <2>2. Searching(op.phase)
    BY <1>1 DEF Known
  <2>3. Source = op.scratch
    BY <1>3 DEF Source
  <2>4. NIL # Undefined
    BY Undefinable
  <2> DEFINE found == Here(Memory, op.i, WasTOS, op.scratch)
  <2>5. CASE op.phase \in {"car", "cdr", "rest"}
    <3>1. TheCar(Memory, op.scratch) = Undefined \/ TheCdr(Memory, op.scratch) = Undefined
      BY <2>3, <2>5 DEF Got, Wanted, DataReads
    <3>2. found = Undefined
      BY <3>1 DEF Here
    <3> QED BY <1>3, <2>1, <2>4, <3>2, SearchThere, SearchFails
  <2>6. CASE op.phase \in {"skip", "skiprest"}
    <3> DEFINE next == Onward(Memory, op.i, op.scratch)
    <3>1. found = NIL /\ next = Undefined
      BY <2>6, Skipping DEF Got, Wanted, DataReads
    <3>2. AtLoop(Memory, op.i, WasTOS, WasArg, Undefined)
      BY <1>3, <2>1, <3>1, SearchThere
    <3>3. Undefined.t # "list"
      BY DEF Undefined
    <3>4. Search(Memory, op.i, WasTOS, WasArg) = Undefined
      <4> DEFINE m == Memory
                 i == op.i
                 sought == WasTOS
                 list == WasArg
                 l == Undefined
      <4>1. AtLoop(m, i, sought, list, l) /\ l.t # "list" /\ l # NIL
        BY <3>2, <3>3, <2>4
      <4> HIDE DEF m, i, sought, list, l
      <4>2. Search(m, i, sought, list) = Undefined
        BY <4>1, SearchEnds
      <4> QED BY <4>2 DEF m, i, sought, list
    <3> QED BY <1>3, <3>4, SearchFails
  <2>7. CASE op.phase = "key"
    <3>1. /\ op.i = "assoc" /\ op.car.t = "list"
          /\ op.car = TheCar(Memory, op.scratch) /\ op.cdr = TheCdr(Memory, op.scratch)
          /\ op.car \in Live /\ op.cdr \in Live
      BY <1>3, <2>2, <2>7 DEF Searching
    <3>2. TheCar(Memory, op.car) = Undefined
      BY <2>7 DEF Got, Wanted, DataReads
    <3>3. op.car # NIL /\ op.car # Undefined /\ op.cdr # Undefined
      BY <3>1, Undefinable DEF NIL
    <3>4. found = Undefined
      BY <3>1, <3>2, <3>3 DEF Here, FoundAssoc
    <3> QED BY <1>3, <2>1, <2>4, <3>4, SearchThere, SearchFails
  <2>8. CASE op.phase = "value"
    <3>1. /\ op.i = "rgetf" /\ op.car = WasTOS /\ op.cdr.t = "list"
          /\ op.car = TheCar(Memory, op.scratch) /\ op.cdr = TheCdr(Memory, op.scratch)
          /\ op.car \in Live /\ op.cdr \in Live
      BY <1>3, <2>2, <2>8 DEF Searching
    <3>2. TheCar(Memory, op.cdr) = Undefined
      BY <2>8 DEF Got, Wanted, DataReads
    <3>3. op.car # Undefined /\ op.cdr # Undefined
      BY <3>1, Undefinable
    <3>4. found = Undefined
      BY <3>1, <3>2, <3>3 DEF Here, FoundKey
    <3> QED BY <1>3, <2>1, <2>4, <3>4, SearchThere, SearchFails
  <2> QED BY <2>5, <2>6, <2>7, <2>8 DEF DataReads
<1> QED BY <1>2, <1>3

LEMMA RunningFinds ==
  ASSUME Running1, Accessing
  PROVE  Finds
<1>1. op.vma \in 1 .. N
  BY DEF Running1, Intact, Heads, Accessing
<1> QED BY <1>1 DEF Finds, Running1, ResultInv, WasRight

(* What is delivered is what was wanted. *)
LEMMA DeliversWanted ==
  ASSUME Running1, Accessing, Delivered, op.phase \in DataReads
  PROVE  Object(At) = Wanted(op.phase) /\ Object(At) \in Live
<1>1. Contents(Memory, op.vma) = Wanted(op.phase)
  BY DEF Running1, Intact, Heads
<1> QED BY <1>1, RunningFinds, FindsObject

LEMMA CarReadIntact ==
  ASSUME Running1, CarRead
  PROVE  Intact'
<1> DEFINE v == Object(At)
<1>1. Accessing /\ op.phase = "car" /\ Delivered
  BY DEF CarRead
<1>2. v = TheCar(Memory, Source) /\ v \in Live
  <2>1. op.phase \in DataReads
    BY <1>1 DEF DataReads
  <2>2. Object(At) = Wanted(op.phase) /\ Object(At) \in Live
    BY <1>1, <2>1, DeliversWanted
  <2> QED BY <1>1, <2>2 DEF Wanted
<1>3. op.i \in {"car", "set-to-car", "set-to-cdr-push-car"} \cup Searches
  BY <1>1 DEF Running1, Intact, Known, Placing
<1>4. InPlace /\ op.in = "run"
  BY DEF Running1, ResultInv
<1>5. /\ op.i = "car" => Completes(Pushing(v))
      /\ op.i = "set-to-car" => Completes(SettingArg(v))
      /\ op.i \notin {"car", "set-to-car"} =>
            /\ op' = [op EXCEPT
                         !.car = v,
                         !.phase = IF op.i = "set-to-cdr-push-car" /\ Arg(op).t = "locative"
                                   THEN "rest" ELSE "cdr",
                         !.vma = IF op.i = "set-to-cdr-push-car" THEN Arg(op).v
                                                                 ELSE op.scratch.v]
            /\ UNCHANGED <<stack, memory, was, traps>>
  BY DEF CarRead
<1> HIDE DEF v
<1>6. CASE op.i \in {"car", "set-to-car"}
  <2>1. Source = WasArg
    BY <1>6 DEF Source, Searches
  <2> QED BY <1>2, <1>4, <1>5, <1>6, <2>1, Delivers DEF InPlace
<1>7. CASE op.i \notin {"car", "set-to-car"}
  <2> DEFINE push == op.i = "set-to-cdr-push-car"
             phase == IF push /\ Arg(op).t = "locative" THEN "rest" ELSE "cdr"
             vma == IF push THEN Arg(op).v ELSE op.scratch.v
  <2>1. /\ op'.in = "run" /\ op'.phase = phase /\ op'.vma = vma /\ op'.i = op.i /\ op'.m = op.m
        /\ op'.scratch = op.scratch /\ op'.car = v /\ op'.cdr = op.cdr
        /\ UNCHANGED <<stack, was>>
    <3>1. Executing
      BY DEF Running1, ResultInv, TypesInv
    <3> QED BY <1>4, <1>5, <1>7, <3>1 DEF Executing
  <2>2. WasArg' = WasArg /\ WasTOS' = WasTOS /\ Memory' = Memory /\ Changed' = Changed
    BY <2>1, Held1, SameAnswer
  <2>3. Source' = Source
    BY <2>1, <2>2 DEF Source
  <2>4. LiveSlot = 0
    BY <1>1, <1>3, <1>7, NoSlot DEF Searches
  <2>5. Kept1'
    BY <2>1, <2>4, SamePlaces
  <2>6. Arg(op) = WasArg
    BY <2>4, SameWords
  <2>7. CASE push
    <3>1. op.i \notin Searches /\ Source = WasArg /\ op.i # "rplacd"
      BY <2>7 DEF Source, Searches
    <3>2. WasArg.t \in {"list", "locative"} /\ WasArg.v \in 1 .. N
      <4>1. Arg(op).t \in Pointers
        BY <1>1, <2>7 DEF Running1, ResultInv, TypesInv, Reading, Searches
      <4>2. WasArg \in Live
        BY WasGiven
      <4> QED BY <2>6, <4>1, <4>2 DEF Live, Pointers, Invisible
    <3>3. CASE WasArg.t = "locative"
      <4>1. op'.phase = "rest" /\ op'.vma = WasArg.v
        BY <2>1, <2>6, <2>7, <3>3
      <4>2. Contents(Memory, WasArg.v) = TheCdr(Memory, WasArg)
        BY <3>3 DEF TheCdr
      <4>3. Heads(op.phase, op.vma)'
        BY <2>2, <2>3, <3>1, <3>2, <4>1, <4>2 DEF Heads, Wanted, DataReads, CdrReads
      <4>4. Known(op.phase)'
        BY <1>2, <2>1, <2>2, <2>7, <3>1, <4>1 DEF Known, Placing, Searching
      <4> QED BY <2>1, <2>5, <4>3, <4>4 DEF Intact
    <3>4. CASE WasArg.t = "list"
      <4>1. op'.phase = "cdr" /\ op'.vma = WasArg.v
        BY <2>1, <2>6, <2>7, <3>4
      <4>2. Asked(op.phase)' = WasArg
        BY <2>1, <2>2, <2>3, <3>1, <4>1 DEF Asked
      <4>3. Heads(op.phase, op.vma)'
        BY <2>2, <3>2, <3>4, <4>1, <4>2 DEF Heads, DataReads, CdrReads
      <4>4. Known(op.phase)'
        BY <1>2, <2>1, <2>2, <2>7, <3>1, <4>1 DEF Known, Placing, Searching
      <4> QED BY <2>1, <2>5, <4>3, <4>4 DEF Intact
    <3> QED BY <3>2, <3>3, <3>4
  <2>8. CASE ~push
    <3>1. op.i \in Searches /\ Source = op.scratch /\ op.i # "rplacd"
      BY <1>3, <1>7, <2>8 DEF Source, Searches
    <3>2. Searching("car")
      BY <1>1 DEF Running1, Intact, Known
    <3>3. op.scratch \in Live /\ op.scratch.t = "list" /\ op.scratch.v \in 1 .. N
      BY <3>1, <3>2, ConsOf DEF Searching
    <3>4. op'.phase = "cdr" /\ op'.vma = op.scratch.v
      BY <2>1, <2>8
    <3>5. Asked(op.phase)' = op.scratch
      BY <2>1, <2>3, <3>1, <3>4 DEF Asked
    <3>6. Heads(op.phase, op.vma)'
      BY <2>2, <3>3, <3>4, <3>5 DEF Heads, DataReads, CdrReads
    <3>7. Known(op.phase)'
      BY <1>2, <2>1, <2>2, <2>8, <3>1, <3>2, <3>4 DEF Known, Placing, Searching
    <3> QED BY <2>1, <2>5, <3>6, <3>7 DEF Intact
  <2> QED BY <2>7, <2>8
<1> QED BY <1>6, <1>7

LEMMA GotCdrIntact ==
  ASSUME Running1, op.phase \in {"cdr", "rest", "skip", "skiprest"}, op.i # "rplacd",
         NEW v \in Live, v = Got(op.phase), GotCdr(v)
  PROVE  Intact'
<1>1. Known(op.phase) /\ InPlace /\ op.in = "run"
  BY DEF Running1, Intact, ResultInv
<1>2. op.phase \in {"cdr", "rest"} => v = TheCdr(Memory, Source)
  BY DEF Got, Wanted, DataReads
<1>3. CASE op.i \notin Searches
  <2>1. op.phase \in {"cdr", "rest"}
    BY <1>1, <1>3 DEF Known, Placing
  <2>2. op.i \in {"cdr", "set-to-cdr", "set-to-cdr-push-car"} /\ Source = WasArg
    BY <1>1, <1>3, <2>1 DEF Known, Placing, Source
  <2>3. v = TheCdr(Memory, WasArg)
    BY <1>2, <2>1, <2>2
  <2>4. CASE op.i = "cdr"
    <3>1. Completes(Pushing(v))
      BY <2>4 DEF GotCdr
    <3> QED BY <2>3, <2>4, <3>1, Delivers
  <2>5. CASE op.i = "set-to-cdr"
    <3>1. Completes(SettingArg(v)) /\ op.m = "local"
      BY <1>1, <2>5 DEF GotCdr, InPlace
    <3> QED BY <2>3, <2>5, <3>1, Delivers
  <2>6. CASE op.i = "set-to-cdr-push-car"
    <3>1. Completes(Append(SettingArg(v), op.car)) /\ op.m = "local"
      BY <1>1, <2>6 DEF GotCdr, InPlace
    <3>2. op.car = TheCar(Memory, WasArg) /\ op.car \in Live
      BY <1>1, <2>1, <2>6 DEF Known, Placing
    <3> QED BY <2>3, <2>6, <3>1, <3>2, Delivers
  <2> QED BY <2>2, <2>4, <2>5, <2>6
<1>4. CASE op.i \in Searches /\ op.phase \in {"skip", "skiprest"}
  <2>1. /\ op.i = "rgetf"
        /\ Here(Memory, op.i, WasTOS, op.scratch) = NIL
        /\ Onward(Memory, op.i, op.scratch) = TheCdr(Memory, op.cdr)
    BY <1>4, Skipping
  <2>2. v = TheCdr(Memory, op.cdr)
    BY <1>4 DEF Got, Wanted, DataReads
  <2>3. Loop(v)
    BY <1>4, <2>1 DEF GotCdr
  <2>4. AtLoop(Memory, op.i, WasTOS, WasArg, v)
    BY <1>4, <2>1, <2>2, SearchThere
  <2>5. LiveSlot = 0
    BY <1>4, NoSlot
  <2>6. WasTOS.t # "double"
    BY <1>1, <1>4 DEF Known, Searching
  <2> QED BY <1>4, <2>3, <2>4, <2>5, <2>6, LoopIntact
<1>5. CASE op.i \in Searches /\ op.phase \in {"cdr", "rest"}
  <2>1. op' = [op EXCEPT !.phase = "test", !.cdr = v] /\ UNCHANGED <<stack, memory, was, traps>>
    BY <1>5 DEF GotCdr, Searches
  <2>2. /\ op'.in = "run" /\ op'.phase = "test" /\ op'.vma = op.vma /\ op'.i = op.i /\ op'.m = op.m
        /\ op'.scratch = op.scratch /\ op'.car = op.car /\ op'.cdr = v
        /\ UNCHANGED <<stack, was>>
    <3>1. Executing
      BY DEF Running1, ResultInv, TypesInv
    <3> QED BY <1>1, <2>1, <3>1 DEF Executing
  <2>3. WasArg' = WasArg /\ WasTOS' = WasTOS /\ Memory' = Memory
    BY <2>2, Held1
  <2>4. LiveSlot = 0
    BY <1>5, NoSlot
  <2>5. Kept1'
    BY <2>2, <2>4, SamePlaces
  <2>6. v = TheCdr(Memory, op.scratch)
    BY <1>2, <1>5 DEF Source
  <2>7. Heads(op.phase, op.vma)'
    BY <2>2 DEF Heads, Accesses, DataReads, CdrReads
  <2>8. Placing(op.phase)'
    BY <1>5, <2>2 DEF Placing
  <2>9. Searching(op.phase)
    BY <1>1 DEF Known
  <2>10. Searching(op.phase)'
    BY <1>5, <2>2, <2>3, <2>6, <2>9 DEF Searching
  <2> QED BY <2>2, <2>5, <2>7, <2>8, <2>10 DEF Intact, Known
<1> QED BY <1>3, <1>4, <1>5

LEMMA RestReadIntact ==
  ASSUME Running1, RestRead
  PROVE  Intact'
<1>1. Accessing /\ op.phase \in {"rest", "skiprest"} /\ Delivered /\ GotCdr(Object(At))
  BY DEF RestRead
<1>2. op.phase \in DataReads
  BY <1>1 DEF DataReads
<1>3. Object(At) = Got(op.phase) /\ Object(At) \in Live
  BY <1>1, <1>2, DeliversWanted DEF Got
<1>4. op.i # "rplacd"
  BY <1>1 DEF Running1, Intact, Known, Placing, Searches
<1> QED BY <1>1, <1>3, <1>4, GotCdrIntact

LEMMA CdrReadIntact ==
  ASSUME Running1, CdrRead
  PROVE  Intact'
<1>1. Accessing /\ op.phase \in {"cdr", "skip"} /\ op.i # "rplacd" /\ Delivered
  BY DEF CdrRead, CdrReads
<1>2. op.phase \in CdrReads /\ op.phase \notin DataReads /\ op.phase # "store"
  BY <1>1 DEF CdrReads, DataReads
<1>3. /\ CdrHome(Memory, op.vma) = op.vma /\ Memory[op.vma].cdr = At.cdr
      /\ At.cdr \in {"next", "normal"} => op.vma + 1 \in 1 .. N
  BY <1>1, <1>2, RunningFinds, FindsCdr
<1>4. Asked(op.phase).t = "list" /\ CdrHome(Memory, Asked(op.phase).v) = op.vma
  BY <1>2, <1>3 DEF Running1, Intact, Heads
<1>5. Got(op.phase) = TheCdr(Memory, Asked(op.phase))
  BY <1>1, <1>2 DEF Got, Asked
<1> DEFINE x == Asked(op.phase)
<1>6. x.t = "list" /\ CdrHome(Memory, x.v) = op.vma
  BY <1>4
<1> HIDE DEF x
<1>7. /\ At.cdr = "nil" => TheCdr(Memory, x) = NIL
      /\ At.cdr = "next" => TheCdr(Memory, x) = List(op.vma + 1)
      /\ At.cdr = "normal" => TheCdr(Memory, x) = Contents(Memory, op.vma + 1)
      /\ At.cdr = "spare" => TheCdr(Memory, x) = Undefined
  BY <1>3, <1>6 DEF TheCdr
<1>8. Known(op.phase) /\ LiveSlot = 0
  BY <1>1, NoSlot DEF Running1, Intact
<1>9. CASE At.cdr = "nil" /\ GotCdr(NIL)
  BY <1>1, <1>5, <1>7, <1>9, Undefinable, GotCdrIntact DEF x
<1>10. CASE At.cdr = "next" /\ GotCdr(List(op.vma + 1))
  <2>1. List(op.vma + 1) \in Live
    BY <1>3, <1>10 DEF List, Live, Types, Pointers, Invisible
  <2>2. List(op.vma + 1) = Got(op.phase)
    BY <1>5, <1>7, <1>10 DEF x
  <2> DEFINE l == List(op.vma + 1)
  <2>3. l \in Live /\ l = Got(op.phase) /\ GotCdr(l)
    BY <1>10, <2>1, <2>2
  <2> HIDE DEF l
  <2> QED BY <1>1, <2>3, GotCdrIntact
<1>11. CASE At.cdr = "normal"
            /\ Continue(IF op.phase = "cdr" THEN "rest" ELSE "skiprest", op.vma + 1)
  <2> DEFINE p == IF op.phase = "cdr" THEN "rest" ELSE "skiprest"
             a == op.vma + 1
  <2>1. p \in {"rest", "skiprest"} /\ p \in DataReads /\ p \notin CdrReads /\ p # "store"
    BY DEF DataReads, CdrReads
  <2>2. a \in 1 .. N
    BY <1>3, <1>11
  <2>3. Contents(Memory, a) = Wanted(p)
    BY <1>1, <1>5, <1>7, <1>11 DEF Got, Wanted, DataReads, x
  <2>4. Heads(p, a)
    BY <2>1, <2>2, <2>3 DEF Heads
  <2>5. Placing(p)
    BY <1>1, <1>8 DEF Known, Placing
  <2>6. Searching(p)
    BY <1>1, <1>8 DEF Known, Searching
  <2>7. Continue(p, a)
    BY <1>11
  <2> HIDE DEF p, a
  <2> QED BY <1>8, <2>4, <2>5, <2>6, <2>7, ContinueIntact DEF Known
<1>12. CASE At.cdr = "spare" /\ Excepts("illegal")
  <2>1. Got(op.phase) = Undefined
    BY <1>5, <1>7, <1>12 DEF x
  <2>2. ~Possible
    BY <1>1, <2>1, Broken
  <2> QED BY <1>8, <1>12, <2>2, Exceptional
<1> QED BY <1>9, <1>10, <1>11, <1>12 DEF CdrRead

(***************************************************************************)
(* The searches.                                                           *)
(***************************************************************************)
LEMMA SearchEndsAt ==
  ASSUME Running1, op.i \in Searches, NEW l,
         AtLoop(Memory, op.i, WasTOS, WasArg, l), l.t # "list"
  PROVE  Search(Memory, op.i, WasTOS, WasArg) = IF l = NIL THEN NIL ELSE Undefined
<1> DEFINE m == Memory
           i == op.i
           sought == WasTOS
           list == WasArg
<1>1. AtLoop(m, i, sought, list, l)
  OBVIOUS
<1> HIDE DEF m, i, sought, list
<1>2. Search(m, i, sought, list) = IF l = NIL THEN NIL ELSE Undefined
  BY <1>1, SearchEnds
<1> QED BY <1>2 DEF m, i, sought, list

LEMMA SearchFound ==
  ASSUME Running1, op.i \in {"member", "assoc"}, LiveSlot = 0, WasTOS.t # "double",
         NEW found \in Live, found = Search(Memory, op.i, WasTOS, WasArg),
         Completes(SettingTOS(found))
  PROVE  Intact'
<1>1. found # Undefined /\ op.i \in Searches
  BY Undefinable DEF Searches
<1>2. Answer = [WasKept EXCEPT ![WasSP] = found]
  BY <1>1, SearchAnswers
<1>3. SettingTOS(found) = Answer
  BY <1>2, SameWords DEF SettingTOS
<1>4. SettingTOS(found) \in Seq(Live)
  BY <1>2, <1>3, LeavesLive
<1> QED BY <1>1, <1>3, <1>4, EndsRight

LEMMA KeyFound ==
  ASSUME Running1, op.i = "rgetf", WasTOS.t # "double", NEW v \in Live, NEW d \in Live,
         \/ Search(Memory, op.i, WasTOS, WasArg) = NIL /\ v = NIL /\ d = NIL
         \/ /\ Search(Memory, op.i, WasTOS, WasArg) \notin {NIL, Undefined}
            /\ d = TheCdr(Memory, Search(Memory, op.i, WasTOS, WasArg))
            /\ v = TheCar(Memory, d),
         Completes(Append(SettingTOS(v), d))
  PROVE  Intact'
<1>1. op.i \in Searches /\ NIL # Undefined
  BY Undefinable DEF Searches
<1>2. Answer = Append([WasKept EXCEPT ![WasSP] = v], d)
  BY <1>1, SearchAnswers
<1>3. Append(SettingTOS(v), d) = Answer
  BY <1>2, TopReplaced
<1>4. Append(SettingTOS(v), d) \in Seq(Live)
  BY <1>2, <1>3, LeavesLive
<1> QED BY <1>1, <1>3, <1>4, EndsRight

LEMMA BeginSearchIntact ==
  ASSUME Running1, BeginSearch
  PROVE  Intact'
<1>1. /\ op.phase = "begin" /\ op.i \in Searches
      /\ IF TOS(op).t = "double" THEN Excepts("exception") ELSE Loop(Arg(op))
  BY DEF BeginSearch, Running
<1>2. LiveSlot = 0 /\ Arg(op) = WasArg /\ TOS(op) = WasTOS /\ WasArg \in Live
  BY <1>1, NoSlot, SameWords, WasGiven
<1>3. CASE WasTOS.t = "double"
  <2>1. ~Possible
    BY <1>1, <1>3, SearchAnswers, Impossible
  <2> QED BY <1>1, <1>2, <1>3, <2>1, Exceptional
<1>4. CASE WasTOS.t # "double"
  <2>1. AtLoop(Memory, op.i, WasTOS, WasArg, WasArg)
    <3> DEFINE m == Memory
               i == op.i
               sought == WasTOS
               l == WasArg
    <3> HIDE DEF m, i, sought, l
    <3>1. AtLoop(m, i, sought, l, l)
      BY SearchBegins
    <3> QED BY <3>1 DEF m, i, sought, l
  <2> QED BY <1>1, <1>2, <1>4, <2>1, LoopIntact
<1> QED BY <1>3, <1>4

LEMMA LoopStepIntact ==
  ASSUME Running1, LoopStep
  PROVE  Intact'
<1>1. op.phase = "loop"
  BY DEF LoopStep, Running
<1>2. op.i \in Searches /\ Searching("loop")
  BY <1>1 DEF Running1, Intact, Known, Placing
<1>3. /\ WasTOS.t # "double" /\ op.scratch \in Live
      /\ AtLoop(Memory, op.i, WasTOS, WasArg, op.scratch)
  BY <1>2 DEF Searching
<1>4. LiveSlot = 0
  BY <1>1, NoSlot
<1>5. op.scratch.t # "list" =>
        Search(Memory, op.i, WasTOS, WasArg) = IF op.scratch = NIL THEN NIL ELSE Undefined
  <2> DEFINE l == op.scratch
  <2>1. AtLoop(Memory, op.i, WasTOS, WasArg, l)
    BY <1>3
  <2> HIDE DEF l
  <2>2. l.t # "list" =>
          Search(Memory, op.i, WasTOS, WasArg) = IF l = NIL THEN NIL ELSE Undefined
    BY <1>2, <2>1, SearchEndsAt
  <2> QED BY <2>2 DEF l
<1>6. CASE op.scratch.t = "nil"
           /\ Completes(IF op.i = "rgetf" THEN Append(SettingTOS(NIL), NIL) ELSE SettingTOS(NIL))
  <2>1. NIL = Search(Memory, op.i, WasTOS, WasArg) /\ NIL \in Live
    BY <1>3, <1>5, <1>6, Undefinable DEF Live
  <2>2. CASE op.i = "rgetf"
    BY <1>3, <1>6, <2>1, <2>2, KeyFound
  <2>3. CASE op.i # "rgetf"
    <3>1. op.i \in {"member", "assoc"}
      BY <1>2, <2>3 DEF Searches
    <3>2. Completes(SettingTOS(NIL))
      BY <1>6, <2>3
    <3> QED BY <1>3, <1>4, <2>1, <3>1, <3>2, SearchFound
  <2> QED BY <2>2, <2>3
<1>7. CASE op.scratch.t = "list" /\ Continue("car", op.scratch.v)
  <2>1. op.scratch.v \in 1 .. N
    BY <1>3, <1>7, ConsOf
  <2>2. Contents(Memory, op.scratch.v) = TheCar(Memory, Source)
    BY <1>2, <1>7 DEF TheCar, Source
  <2>3. Heads("car", op.scratch.v)
    BY <2>1, <2>2 DEF Heads, Wanted, DataReads, CdrReads
  <2>4. Known("car")
    BY <1>2, <1>7 DEF Known, Placing, Searching, Searches
  <2> QED BY <1>4, <1>7, <2>3, <2>4, ContinueIntact
<1>8. CASE op.scratch.t \notin {"nil", "list"} /\ ListException(op.scratch)
  <2>1. op.scratch # NIL
    BY <1>8 DEF NIL
  <2>2. ~Possible
    BY <1>2, <1>5, <1>8, <2>1, SearchFails
  <2> QED BY <1>4, <1>8, <2>2, Exceptional
<1> QED BY <1>6, <1>7, <1>8 DEF LoopStep

(* What the registers of a search hold between its reads. *)
LEMMA Registered ==
  ASSUME Running1, op.phase \in {"test", "key", "value"}
  PROVE  /\ op.i \in Searches /\ WasTOS.t # "double"
         /\ op.scratch \in Live /\ op.scratch.t = "list" /\ op.scratch # NIL
         /\ op.car = TheCar(Memory, op.scratch) /\ op.car \in Live /\ op.car # Undefined
         /\ op.cdr = TheCdr(Memory, op.scratch) /\ op.cdr \in Live /\ op.cdr # Undefined
         /\ op.phase = "key" => op.i = "assoc" /\ op.car.t = "list"
         /\ op.phase = "value" => op.i = "rgetf" /\ op.car = WasTOS /\ op.cdr.t = "list"
         /\ Searching(op.phase)
<1>1. op.i \in Searches /\ Searching(op.phase)
  BY DEF Running1, Intact, Known, Placing
<1> QED BY <1>1, Undefinable DEF Searching, NIL

(* A search that finds nothing in a cons goes on to its cdr. *)
LEMMA PassesCons ==
  ASSUME Running1, op.phase \in {"test", "key"}, op.i \in {"member", "assoc"},
         Here(Memory, op.i, WasTOS, op.scratch) = NIL, Loop(op.cdr)
  PROVE  Intact'
<1>1. /\ op.i \in Searches /\ WasTOS.t # "double"
      /\ op.cdr = TheCdr(Memory, op.scratch) /\ op.cdr \in Live
  BY Registered
<1>2. Onward(Memory, op.i, op.scratch) = op.cdr
  BY <1>1 DEF Onward
<1>3. AtLoop(Memory, op.i, WasTOS, WasArg, op.cdr)
  BY <1>1, <1>2, SearchThere
<1>4. LiveSlot = 0
  BY NoSlot
<1> QED BY <1>1, <1>3, <1>4, LoopIntact

LEMMA TestMemberIntact ==
  ASSUME Running1, TestMember
  PROVE  Intact'
<1>1. /\ op.phase = "test" /\ op.i = "member"
      /\ IF op.car = TOS(op) THEN Completes(SettingTOS(op.scratch)) ELSE Loop(op.cdr)
  BY DEF TestMember, Running
<1>2. LiveSlot = 0 /\ TOS(op) = WasTOS
  BY <1>1, NoSlot, SameWords
<1>3. Here(Memory, op.i, WasTOS, op.scratch) = IF op.car = WasTOS THEN op.scratch ELSE NIL
  BY <1>1, Registered DEF Here, FoundMember
<1>4. CASE op.car = WasTOS
  <2>1. op.scratch \in Live /\ op.i \in Searches /\ WasTOS.t # "double" /\ op.scratch # NIL
    BY <1>1, Registered
  <2>2. op.scratch = Search(Memory, op.i, WasTOS, WasArg)
    BY <1>1, <1>3, <1>4, <2>1, SearchThere
  <2> QED BY <1>1, <1>2, <1>4, <2>1, <2>2, SearchFound
<1>5. CASE op.car # WasTOS
  BY <1>1, <1>2, <1>3, <1>5, PassesCons
<1> QED BY <1>4, <1>5

LEMMA TestAssocIntact ==
  ASSUME Running1, TestAssoc
  PROVE  Intact'
<1>1. op.phase = "test" /\ op.i = "assoc"
  BY DEF TestAssoc, Running
<1>2. LiveSlot = 0
  BY <1>1, NoSlot
<1>3. /\ op.i \in Searches /\ op.scratch \in Live /\ op.car \in Live
      /\ op.car = TheCar(Memory, op.scratch) /\ op.car # Undefined
      /\ TheCdr(Memory, op.scratch) # Undefined /\ Searching(op.phase)
  BY <1>1, Registered
<1>4. CASE op.car.t = "nil" /\ Loop(op.cdr)
  <2>1. op.car = NIL
    BY <1>3, <1>4 DEF Live
  <2>2. Here(Memory, op.i, WasTOS, op.scratch) = NIL
    BY <1>1, <1>3, <2>1 DEF Here, FoundAssoc, NIL
  <2> QED BY <1>1, <1>4, <2>2, PassesCons
<1>5. CASE op.car.t = "list" /\ Continue("key", op.car.v)
  <2>1. op.car.v \in 1 .. N
    BY <1>3, <1>5, ConsOf
  <2>2. Contents(Memory, op.car.v) = TheCar(Memory, op.car)
    BY <1>5 DEF TheCar
  <2>3. Heads("key", op.car.v)
    BY <2>1, <2>2 DEF Heads, Wanted, DataReads, CdrReads
  <2>4. Known("key")
    BY <1>1, <1>3, <1>5 DEF Known, Placing, Searching
  <2> QED BY <1>2, <1>5, <2>3, <2>4, ContinueIntact
<1>6. CASE op.car.t \notin {"nil", "list"} /\ ListException(op.car)
  <2>1. op.car # NIL
    BY <1>6 DEF NIL
  <2>2. Here(Memory, op.i, WasTOS, op.scratch) = Undefined
    BY <1>1, <1>3, <1>6, <2>1 DEF Here, FoundAssoc
  <2>3. Search(Memory, op.i, WasTOS, WasArg) = Undefined
    BY <1>1, <1>3, <2>2, SearchThere, Undefinable
  <2>4. ~Possible
    BY <1>3, <2>3, SearchFails
  <2> QED BY <1>2, <1>6, <2>4, Exceptional
<1> QED BY <1>4, <1>5, <1>6 DEF TestAssoc

LEMMA KeyReadIntact ==
  ASSUME Running1, KeyRead
  PROVE  Intact'
<1>1. /\ Accessing /\ op.phase = "key" /\ Delivered
      /\ IF Object(At) = TOS(op) THEN Completes(SettingTOS(op.car)) ELSE Loop(op.cdr)
  BY DEF KeyRead
<1>2. LiveSlot = 0 /\ TOS(op) = WasTOS
  BY <1>1, NoSlot, SameWords
<1>3. /\ op.i \in Searches /\ op.i = "assoc" /\ op.car.t = "list" /\ op.car \in Live
      /\ op.car = TheCar(Memory, op.scratch) /\ op.car # Undefined /\ WasTOS.t # "double"
      /\ TheCdr(Memory, op.scratch) # Undefined
  BY <1>1, Registered
<1>4. Object(At) = TheCar(Memory, op.car) /\ Object(At) # Undefined
  <2>1. op.phase \in DataReads
    BY <1>1 DEF DataReads
  <2>2. Object(At) = Wanted(op.phase) /\ Object(At) \in Live
    BY <1>1, <2>1, DeliversWanted
  <2> QED BY <1>1, <2>2, Undefinable DEF Wanted
<1>5. op.car # NIL
  BY <1>3 DEF NIL
<1> DEFINE v == Object(At)
<1>6. v = TheCar(Memory, op.car) /\ v # Undefined
  BY <1>4
<1>7. IF v = WasTOS THEN Completes(SettingTOS(op.car)) ELSE Loop(op.cdr)
  BY <1>1, <1>2
<1> HIDE DEF v
<1>8. Here(Memory, op.i, WasTOS, op.scratch) = IF v = WasTOS THEN op.car ELSE NIL
  BY <1>3, <1>5, <1>6 DEF Here, FoundAssoc
<1>9. CASE v = WasTOS
  <2>1. op.car = Search(Memory, op.i, WasTOS, WasArg)
    BY <1>1, <1>3, <1>5, <1>8, <1>9, SearchThere
  <2> QED BY <1>2, <1>3, <1>7, <1>9, <2>1, SearchFound
<1>10. CASE v # WasTOS
  BY <1>1, <1>3, <1>7, <1>8, <1>10, PassesCons
<1> QED BY <1>9, <1>10

LEMMA TestRgetfIntact ==
  ASSUME Running1, TestRgetf
  PROVE  Intact'
<1>1. op.phase = "test" /\ op.i = "rgetf"
  BY DEF TestRgetf, Running
<1>2. LiveSlot = 0 /\ TOS(op) = WasTOS
  BY <1>1, NoSlot, SameWords DEF Searches
<1>3. /\ op.i \in Searches /\ op.car = TheCar(Memory, op.scratch) /\ op.car # Undefined
      /\ op.cdr = TheCdr(Memory, op.scratch) /\ op.cdr \in Live /\ op.cdr # Undefined
      /\ WasTOS.t # "double" /\ Searching(op.phase)
  BY <1>1, Registered
<1>4. CASE op.car = WasTOS
  <2>1. CASE op.cdr.t = "list" /\ Continue("value", op.cdr.v)
    <3>1. op.cdr.v \in 1 .. N
      BY <1>3, <2>1, ConsOf
    <3>2. Contents(Memory, op.cdr.v) = TheCar(Memory, op.cdr)
      BY <2>1 DEF TheCar
    <3>3. Heads("value", op.cdr.v)
      BY <3>1, <3>2 DEF Heads, Wanted, DataReads, CdrReads
    <3>4. Known("value")
      BY <1>1, <1>3, <1>4, <2>1 DEF Known, Placing, Searching
    <3> QED BY <1>2, <2>1, <3>3, <3>4, ContinueIntact
  <2>2. CASE op.cdr.t # "list" /\ (Excepts("exception") \/ ListException(op.cdr))
    <3>1. Here(Memory, op.i, WasTOS, op.scratch) = Undefined
      BY <1>1, <1>3, <1>4, <2>2 DEF Here, FoundKey
    <3>2. Search(Memory, op.i, WasTOS, WasArg) = Undefined
      BY <1>1, <1>3, <3>1, SearchThere, Undefinable
    <3>3. ~Possible
      BY <1>3, <3>2, SearchFails
    <3> QED BY <1>2, <2>2, <3>3, Exceptional
  <2> QED BY <1>2, <1>4, <2>1, <2>2 DEF TestRgetf
<1>5. CASE op.car # WasTOS
  <2>1. CdrOf(op.cdr, Loop(NIL), "skip", "skiprest")
    BY <1>2, <1>5 DEF TestRgetf
  <2>2. Here(Memory, op.i, WasTOS, op.scratch) = NIL
    BY <1>1, <1>3, <1>5 DEF Here, FoundKey
  <2>3. Onward(Memory, op.i, op.scratch) = TheCdr(Memory, op.cdr)
    BY <1>1, <1>3 DEF Onward
  <2>4. AtLoop(Memory, op.i, WasTOS, WasArg, TheCdr(Memory, op.cdr))
    BY <1>1, <1>3, <2>2, <2>3, SearchThere
  <2>5. CASE op.cdr.t = "list" /\ Continue("skip", op.cdr.v)
    <3>1. op.cdr.v \in 1 .. N
      BY <1>3, <2>5, ConsOf
    <3>2. Asked("skip") = op.cdr
      BY <1>1 DEF Asked
    <3>3. Heads("skip", op.cdr.v)
      BY <2>5, <3>1, <3>2 DEF Heads, DataReads, CdrReads
    <3>4. Known("skip")
      BY <1>1, <1>3, <1>5, <2>5 DEF Known, Placing, Searching
    <3> QED BY <1>2, <2>5, <3>3, <3>4, ContinueIntact
  <2>6. CASE op.cdr.t = "locative" /\ Continue("skiprest", op.cdr.v)
    <3>1. op.cdr.v \in 1 .. N
      BY <1>3, <2>6 DEF Live
    <3>2. Contents(Memory, op.cdr.v) = TheCdr(Memory, op.cdr)
      BY <2>6 DEF TheCdr
    <3>3. Heads("skiprest", op.cdr.v)
      BY <3>1, <3>2 DEF Heads, Wanted, DataReads, CdrReads
    <3>4. Known("skiprest")
      BY <1>1, <1>3, <1>5, <2>6 DEF Known, Placing, Searching
    <3> QED BY <1>2, <2>6, <3>3, <3>4, ContinueIntact
  <2>7. CASE op.cdr.t = "nil" /\ Loop(NIL)
    <3>1. TheCdr(Memory, op.cdr) = NIL
      BY <2>7 DEF TheCdr
    <3>2. AtLoop(Memory, op.i, WasTOS, WasArg, NIL)
      BY <2>4, <3>1
    <3> QED BY <1>2, <1>3, <2>7, <3>2, Undefinable, LoopIntact
  <2>8. CASE op.cdr.t \notin {"list", "locative", "nil"} /\ ListException(op.cdr)
    <3>1. TheCdr(Memory, op.cdr) = Undefined
      BY <2>8 DEF TheCdr
    <3>2. AtLoop(Memory, op.i, WasTOS, WasArg, Undefined) /\ Undefined.t # "list"
      BY <2>4, <3>1 DEF Undefined
    <3>3. Search(Memory, op.i, WasTOS, WasArg) = Undefined
      BY <1>3, <3>2, SearchEndsAt, Undefinable
    <3>4. ~Possible
      BY <1>3, <3>3, SearchFails
    <3> QED BY <1>2, <2>8, <3>4, Exceptional
  <2> QED BY <2>1, <2>5, <2>6, <2>7, <2>8 DEF CdrOf
<1> QED BY <1>4, <1>5

LEMMA ValueReadIntact ==
  ASSUME Running1, ValueRead
  PROVE  Intact'
<1>1. /\ Accessing /\ op.phase = "value" /\ Delivered
      /\ Completes(Append(SettingTOS(Object(At)), op.cdr))
  BY DEF ValueRead
<1>2. /\ op.i \in Searches /\ op.i = "rgetf" /\ op.car = WasTOS /\ op.cdr.t = "list"
      /\ op.car = TheCar(Memory, op.scratch) /\ op.car # Undefined /\ WasTOS.t # "double"
      /\ op.cdr = TheCdr(Memory, op.scratch) /\ op.cdr # Undefined /\ op.cdr \in Live
      /\ op.scratch \in Live /\ op.scratch # NIL /\ op.scratch # Undefined
  BY <1>1, Registered, Undefinable
<1> DEFINE v == Object(At)
<1>3. v = TheCar(Memory, op.cdr) /\ v \in Live
  <2>1. op.phase \in DataReads
    BY <1>1 DEF DataReads
  <2>2. Object(At) = Wanted(op.phase) /\ Object(At) \in Live
    BY <1>1, <2>1, DeliversWanted
  <2> QED BY <1>1, <2>2 DEF Wanted
<1>4. Completes(Append(SettingTOS(v), op.cdr))
  BY <1>1
<1> HIDE DEF v
<1>5. v # Undefined
  BY <1>3, Undefinable
<1>6. Here(Memory, op.i, WasTOS, op.scratch) = op.scratch
  BY <1>2, <1>3, <1>5 DEF Here, FoundKey
<1>7. Search(Memory, op.i, WasTOS, WasArg) = op.scratch
  BY <1>1, <1>2, <1>6, SearchThere
<1> QED BY <1>2, <1>3, <1>4, <1>7, KeyFound

(***************************************************************************)
(* RPLACA and RPLACD.                                                      *)
(***************************************************************************)
LEMMA NothingChanged ==
  ASSUME op.i \in Stores, Changed = 0
  PROVE  ~Possible
BY DEF Possible

LEMMA StorePlaced ==
  ASSUME Running1, op.i \in Stores, op.phase = "begin",
         WasTOS.t = "locative" \/ (op.i = "rplaca" /\ WasTOS.t = "list"),
         Continue("store", WasTOS.v)
  PROVE  Intact'
<1>1. WasTOS \in Live /\ op.i \notin Searches /\ op.i # "set-to-cdr-push-car"
  BY WasGiven DEF Stores, Simple, Searches
<1>2. WasTOS.v \in 1 .. N
  BY <1>1 DEF Live
<1>3. DataHome(Memory, WasTOS.v) = Changed
  BY DEF Changed
<1>4. Heads("store", WasTOS.v)
  BY <1>2, <1>3 DEF Heads, DataReads, CdrReads
<1>5. Known("store")
  BY <1>1 DEF Known, Placing, Searching
<1> QED BY <1>4, <1>5, NoSlot, ContinueIntact

LEMMA BeginRplacIntact ==
  ASSUME Running1, BeginRplaca \/ BeginRplacd
  PROVE  Intact'
<1>1. op.phase = "begin" /\ op.i \in Stores
  BY DEF BeginRplaca, BeginRplacd, Begin, Running, Stores
<1>2. LiveSlot = 0 /\ TOS(op) = WasTOS /\ WasTOS \in Live
  <2>1. op.i \notin Simple
    BY <1>1 DEF Stores, Simple
  <2> QED BY <1>1, <2>1, NoSlot, SameWords, WasGiven
<1>3. ASSUME WasTOS.t \notin {"list", "locative"}, ListException(WasTOS) PROVE Intact'
  <2>1. Changed = 0
    BY <1>3 DEF Changed
  <2> QED BY <1>1, <1>2, <1>3, <2>1, NothingChanged, Exceptional
<1>4. CASE BeginRplaca
  <2>1. op.i = "rplaca"
    BY <1>4 DEF BeginRplaca, Begin
  <2>2. CASE WasTOS.t \in {"list", "locative"} /\ Continue("store", WasTOS.v)
    BY <1>1, <2>1, <2>2, StorePlaced
  <2> QED BY <1>2, <1>3, <1>4, <2>2 DEF BeginRplaca
<1>5. CASE BeginRplacd
  <2>1. op.i = "rplacd"
    BY <1>5 DEF BeginRplacd, Begin
  <2>2. CASE WasTOS.t = "locative" /\ Continue("store", WasTOS.v)
    BY <1>1, <2>2, StorePlaced
  <2>3. CASE WasTOS.t = "list" /\ Continue("cdr", WasTOS.v)
    <3>1. WasTOS.v \in 1 .. N
      BY <1>2, <2>3, ConsOf
    <3>2. Heads("cdr", WasTOS.v)
      BY <2>1, <2>3, <3>1 DEF Heads, Asked, DataReads, CdrReads
    <3>3. Known("cdr")
      BY <2>1 DEF Known, Placing, Searching, Searches
    <3> QED BY <1>2, <2>3, <3>2, <3>3, ContinueIntact
  <2> QED BY <1>2, <1>3, <1>5, <2>2, <2>3 DEF BeginRplacd
<1> QED BY <1>4, <1>5

LEMMA RplacdReadIntact ==
  ASSUME Running1, RplacdRead
  PROVE  Intact'
<1>1. /\ Accessing /\ op.phase = "cdr" /\ op.i = "rplacd" /\ Delivered
      /\ IF At.cdr = "normal" THEN Continue("store", op.vma + 1) ELSE Excepts("exception")
  BY DEF RplacdRead
<1>2. op.phase \in CdrReads
  BY <1>1 DEF CdrReads
<1>3. /\ CdrHome(Memory, op.vma) = op.vma /\ Memory[op.vma].cdr = At.cdr
      /\ At.cdr \in {"next", "normal"} => op.vma + 1 \in 1 .. N
  BY <1>1, <1>2, RunningFinds, FindsCdr
<1>4. WasTOS.t = "list" /\ CdrHome(Memory, WasTOS.v) = op.vma
  BY <1>1, <1>2, <1>3 DEF Running1, Intact, Heads, Asked
<1>5. Changed = IF At.cdr = "normal" THEN DataHome(Memory, op.vma + 1) ELSE 0
  BY <1>1, <1>3, <1>4 DEF Changed
<1>6. LiveSlot = 0 /\ op.i \in Stores
  BY <1>1, NoSlot DEF Stores
<1>7. CASE At.cdr = "normal"
  <2>1. Heads("store", op.vma + 1)
    BY <1>3, <1>5, <1>7 DEF Heads, DataReads, CdrReads
  <2>2. Known("store")
    BY <1>1, <1>4, <1>6 DEF Known, Placing, Searching, Searches
  <2> QED BY <1>1, <1>6, <1>7, <2>1, <2>2, ContinueIntact
<1>8. CASE At.cdr # "normal"
  BY <1>1, <1>5, <1>6, <1>8, NothingChanged, Exceptional
<1> QED BY <1>7, <1>8

LEMMA StoreIntact ==
  ASSUME Running1, Store
  PROVE  Intact'
<1>1. /\ Accessing /\ op.phase = "store" /\ Delivered
      /\ memory' = [memory EXCEPT ![op.vma] = Stored(Arg(op))]
      /\ Leaves(SubSeq(stack, 1, SP(op) - 1), "done")
  BY DEF Store
<1>2. /\ LiveSlot = 0 /\ Arg(op) = WasArg /\ SP(op) = WasSP /\ stack = was.stack
      /\ WasArg \in Live
  BY <1>1, NoSlot, SameWords, StackSame, WasGiven
<1>3. op.i \in Stores /\ (WasTOS.t = "list" \/ WasTOS.t = "locative")
  BY <1>1 DEF Running1, Intact, Known, Placing
<1>4. Finds
  BY <1>1, RunningFinds
<1>5. op.vma \in 1 .. N /\ Changed = op.vma
  <2>1. DataHome(Memory, op.vma) = op.vma
    BY <1>1, <1>4, FindsPlace
  <2>2. DataHome(Memory, op.vma) = Changed
    BY <1>1 DEF Running1, Intact, Heads
  <2> QED BY <1>4, <2>1, <2>2 DEF Finds
<1>6. /\ op'.in = "done" /\ op'.phase = "done" /\ op'.i = op.i /\ op'.m = op.m /\ was' = was
      /\ stack' = SubSeq(stack, 1, SP(op) - 1)
  BY <1>1 DEF Leaves, Running1, ResultInv, TypesInv, Executing
<1>7. Answer' = Answer /\ (Possible' <=> Possible) /\ MemoryAfter' = MemoryAfter
  BY <1>6, SameAnswer
<1>8. Possible
  BY <1>3, <1>5, NSizes DEF Possible
<1>9. stack' = Answer
  <2>1. Answer = SubSeq(WasKept, 1, WasSP - 1)
    BY <1>3 DEF Answer, Stores
  <2>2. /\ WasSP \in 1 .. Len(was.stack) /\ Len(was.stack) \in Nat
        /\ was.stack \in Seq(Live)
    <3>1. op.i \notin Simple
      BY <1>3 DEF Stores, Simple
    <3> QED BY <3>1, WasGiven DEF Running1, ResultInv, WasRight
  <2> DEFINE s == was.stack
             k == WasSP
  <2>3. s \in Seq(Live) /\ k \in 1 .. Len(s) /\ Len(s) \in Nat
    BY <2>2
  <2> HIDE DEF s, k
  <2>4. SubSeq(SubSeq(s, 1, k), 1, k - 1) = SubSeq(s, 1, k - 1)
    <3>1. SubSeq(s, 1, k) = [j \in 1 .. k |-> s[j]]
      BY <2>3
    <3>2. SubSeq(s, 1, k - 1) = [j \in 1 .. k - 1 |-> s[j]]
      BY <2>3
    <3>3. SubSeq(s, 1, k) \in Seq(Live) /\ Len(SubSeq(s, 1, k)) = k
      BY <2>3, SubSeqProperties, LenProperties
    <3> DEFINE u == SubSeq(s, 1, k)
    <3>4. u = [j \in 1 .. k |-> s[j]] /\ u \in Seq(Live) /\ Len(u) = k
      BY <3>1, <3>3
    <3> HIDE DEF u
    <3>5. SubSeq(u, 1, k - 1) = [j \in 1 .. k - 1 |-> u[j]]
      BY <2>3, <3>4
    <3>6. \A j \in 1 .. k - 1 : u[j] = s[j]
      BY <2>3, <3>4
    <3> QED BY <3>2, <3>5, <3>6 DEF u
  <2> QED BY <1>2, <1>6, <2>1, <2>4 DEF WasKept, s, k
<1>10. Settled(memory') = MemoryAfter
  <2>1. Settled(memory) = Memory /\ memory \in [1 .. 2 * N -> MemoryWords]
    BY DEF Running1, ResultInv, TypesInv
  <2>2. MemoryAfter = [Memory EXCEPT ![op.vma] =
                         [t |-> WasArg.t, v |-> WasArg.v, cdr |-> @.cdr]]
    BY <1>3, <1>5, NSizes DEF MemoryAfter
  <2> DEFINE settled(w) == [t   |-> IF w.t = "monitor-forward" THEN "one-q-forward" ELSE w.t,
                            v   |-> IF OldP(w) THEN w.v - N ELSE w.v,
                            cdr |-> w.cdr]
             new == [t |-> WasArg.t, v |-> WasArg.v, cdr |-> At.cdr]
  <2>3. settled(new) = new
    <3>1. WasArg.t # "monitor-forward" /\ ~OldP(new)
      BY <1>2, NSizes DEF Live, OldP, Pointers, Invisible
    <3> QED BY <3>1
  <2>4. memory' = [memory EXCEPT ![op.vma] = new]
    BY <1>1, <1>2 DEF Stored
  <2>5. Memory[op.vma].cdr = At.cdr
    BY <1>4, Finding
  <2>6. Memory = [a \in 1 .. N |-> settled(memory[a])]
    BY <2>1 DEF Settled
  <2>7. Settled(memory') = [a \in 1 .. N |-> settled(memory'[a])]
    BY DEF Settled
  <2>8. ASSUME NEW a \in 1 .. N
        PROVE  settled(memory'[a]) = IF a = op.vma THEN new ELSE Memory[a]
    <3>1. a \in 1 .. 2 * N
      BY NSizes
    <3>2. memory'[a] = IF a = op.vma THEN new ELSE memory[a]
      <4> HIDE DEF new
      <4> QED BY <2>1, <2>4, <3>1
    <3> HIDE DEF settled, new
    <3> QED BY <2>3, <2>6, <3>2
  <2>9. MemoryAfter = [a \in 1 .. N |-> IF a = op.vma THEN new ELSE Memory[a]]
    <3>1. Memory = [a \in 1 .. N |-> Memory[a]]
      BY DEF Memory, Settled
    <3> HIDE DEF settled
    <3> QED BY <1>5, <2>2, <2>5, <3>1
  <2> HIDE DEF settled, new
  <2> QED BY <2>7, <2>8, <2>9
<1>11. Settled(memory)' = Settled(memory')
  BY DEF Settled
<1> QED BY <1>6, <1>7, <1>8, <1>9, <1>10, <1>11 DEF Intact, AsIfAtOnce, Ended

(***************************************************************************)
(* Forwards, errors and traps.                                             *)
(***************************************************************************)
LEMMA FollowForwardIntact ==
  ASSUME Running1, FollowForward
  PROVE  Intact'
<1>1. /\ Accessing /\ ~Transports /\ Indirect
      /\ stack' = Spilled(At) /\ op' = [op EXCEPT !.vma = At.v]
      /\ UNCHANGED <<memory, was, traps>>
  BY DEF FollowForward
<1>2. /\ op'.in = "run" /\ op'.phase = op.phase /\ op'.vma = At.v /\ op'.i = op.i /\ op'.m = op.m
      /\ op'.scratch = op.scratch /\ op'.car = op.car /\ op'.cdr = op.cdr
  BY <1>1 DEF Running1, ResultInv, TypesInv, Executing
<1>3. /\ At.v \in 1 .. N
      /\ op.phase \notin CdrReads => DataHome(Memory, op.vma) = DataHome(Memory, At.v)
      /\ op.phase \in CdrReads => CdrHome(Memory, op.vma) = CdrHome(Memory, At.v)
  BY <1>1, RunningFinds, FindsForward
<1>4. Heads(op.phase, op.vma) /\ Known(op.phase)
  BY DEF Running1, Intact
<1>5. op.phase \in DataReads \/ op.phase = "store" => op.phase \notin CdrReads
  BY DEF DataReads, CdrReads
<1>6. Contents(Memory, At.v) = Contents(Memory, op.vma) \/ op.phase \notin DataReads
  BY <1>3, <1>5 DEF Contents
<1>7. Heads(op.phase, At.v)
  BY <1>3, <1>4, <1>5, <1>6 DEF Heads
<1>8. PICK p, a : p = op.phase /\ a = At.v
  OBVIOUS
<1>9. Heads(op.phase, op.vma)' /\ Known(op.phase)'
  <2>1. Heads(p, a) /\ Known(p)
    BY <1>4, <1>7, <1>8
  <2>2. (Heads(p, a)' <=> Heads(p, a)) /\ (Known(p)' <=> Known(p))
    BY <1>1, <1>2, HeadsHeld
  <2>3. op'.phase = p /\ op'.vma = a
    BY <1>2, <1>8
  <2> QED BY <2>1, <2>2, <2>3 DEF Heads, Known, Placing, Searching, Wanted, Asked
<1>10. Kept1'
  <2>1. Len(stack') = Len(stack) /\ \A k \in 1 .. Len(stack) : k # LiveSlot => stack'[k] = stack[k]
    <3>1. Spilled(At) \in Seq(Objects1) /\ Len(Spilled(At)) = Len(stack) /\ stack \in Seq(Objects1)
      BY <1>1, AtIs DEF Running1, ResultInv, TypesInv
    <3>2. stack \in [1 .. Len(stack) -> Objects1]
      BY <3>1, LenProperties
    <3> QED BY <1>1, <3>1, <3>2 DEF Spilled
  <2>2. LiveSlot' = LiveSlot
    BY <1>2, <2>1 DEF LiveSlot, Slot, SP
  <2>3. Kept1
    BY DEF Running1, Intact
  <2> QED BY <1>1, <2>1, <2>2, <2>3 DEF Kept1
<1> QED BY <1>2, <1>9, <1>10 DEF Intact

LEMMA ErrorTrapIntact ==
  ASSUME Running1, ErrorTrap
  PROVE  Intact'
<1>1. /\ Accessing /\ ~Transports /\ Errs
      /\ Leaves(Spilled(At), "error") /\ UNCHANGED memory
  BY DEF ErrorTrap
<1>2. op.phase \in DataReads
  BY <1>1 DEF Errs
<1>3. Contents(Memory, op.vma) = Undefined
  BY <1>1, RunningFinds, FindsNull
<1>4. Got(op.phase) = Undefined
  BY <1>2, <1>3 DEF Running1, Intact, Heads, Got
<1>5. op.i # "rplacd"
  BY <1>2 DEF Running1, Intact, Known, Placing, DataReads, Searches
<1>6. ~Possible
  BY <1>2, <1>4, <1>5, Broken
<1> QED BY <1>1, <1>6, EndsWrong

LEMMA GivenUpIntact ==
  ASSUME Found, NEW vector, NEW words, GivenUp(vector, words)
  PROVE  /\ op'.in = "trapped" /\ op'.i = op.i /\ op'.m = op.m /\ memory' = memory /\ Found'
         /\ was'.stack = was.stack /\ was'.memory = was.memory
         /\ was.spilled => was'.spilled
         /\ was'.spilled \/ Intact'
<1>1. /\ op'.in = "trapped" /\ op'.i = op.i /\ op'.m = op.m /\ stack' = words
      /\ was' = [was EXCEPT !.spilled = was.spilled \/ words # was.stack]
      /\ memory' = memory
  BY DEF GivenUp
<1>2. was' = [stack |-> was.stack, memory |-> was.memory,
              spilled |-> was.spilled \/ words # was.stack]
  BY <1>1 DEF Found
<1>3. /\ was'.stack = was.stack /\ was'.memory = was.memory /\ Found'
      /\ was'.spilled <=> (was.spilled \/ words # was.stack)
  <2>1. was'.spilled <=> (was.spilled \/ words # was.stack)
    BY <1>2
  <2> QED BY <1>2, <2>1 DEF Found
<1> QED BY <1>1, <1>3 DEF Intact

LEMMA OthersIntact ==
  ASSUME Running1, CountStep \/ FieldStep \/ \E i \in Binary : ArithmeticStep(i)
  PROVE  Intact'
<1>1. op.i \notin Simple \cup Searches \cup Stores
  <2>1. op.i \in Counting \cup Fields \cup Binary
    BY DEF CountStep, FieldStep, ArithmeticStep, Begin, Running
  <2> QED BY <2>1 DEF Counting, Fields, Binary, Simple, Searches, Stores
<1>2. (\E words : Completes(words)) \/ (\E how : Excepts(how))
  BY DEF CountStep, FieldStep, ArithmeticStep, FixnumException
<1>3. \E words, how : Leaves(words, how) /\ UNCHANGED memory
  BY <1>2 DEF Completes, Excepts
<1> QED BY <1>1, <1>3, EndsOther

LEMMA ListStepIntact ==
  ASSUME Running1, ListStep
  PROVE  Intact'
<1>1. CASE BeginCar \/ BeginCdr \/ BeginSetToCar \/ BeginSetToCdr \/ BeginSetToCdrPushCar
  BY <1>1, BeginsIntact
<1>2. CASE BeginRplaca \/ BeginRplacd \/ BeginSearch
  BY <1>2, BeginRplacIntact, BeginSearchIntact
<1>3. CASE LoopStep \/ CarRead \/ CdrRead \/ RplacdRead \/ RestRead
  BY <1>3, LoopStepIntact, CarReadIntact, CdrReadIntact, RplacdReadIntact, RestReadIntact
<1>4. CASE TestMember \/ TestAssoc \/ TestRgetf \/ KeyRead \/ ValueRead \/ Store
  BY <1>4, TestMemberIntact, TestAssocIntact, TestRgetfIntact, KeyReadIntact, ValueReadIntact,
     StoreIntact
<1>5. CASE FollowForward \/ ErrorTrap \/ CountStep \/ FieldStep
  BY <1>5, FollowForwardIntact, ErrorTrapIntact, OthersIntact
<1> QED BY <1>1, <1>2, <1>3, <1>4, <1>5 DEF ListStep

LEMMA ResultInit == Init => ResultInv
<1> SUFFICES ASSUME Init PROVE ResultInv
  OBVIOUS
<1>1. TypesInv /\ NumbersInv
  BY InitTyped, NumbersInit
<1>2. PICK s \in Starts :
        /\ stack = s.stack
        /\ memory = [a \in 1 .. 2 * N |->
                       IF a <= N THEN s.memory[a]
                       ELSE [t |-> "element-forward", v |-> a - N, cdr |-> s.memory[a - N].cdr]]
  BY DEF Init
<1>3. /\ s.stack \in Seq(Words)
      /\ \A k \in 1 .. Len(s.stack) : s.stack[k] \in Live
      /\ \A a \in 1 .. N : s.memory[a].t = "nil" => s.memory[a].v = 0
      /\ s.memory[N].cdr \notin {"next", "normal"}
  BY InstructionsAssumption, StartsAssumption DEF InstructionsAssumption, StartsAssumption
<1>4. op.in = "idle" /\ was.stack = stack /\ was.memory = memory
  BY DEF Init, Idle
<1>5. was.stack \in Seq(Live)
  <2>1. Len(s.stack) \in Nat /\ s.stack \in [1 .. Len(s.stack) -> Words]
    BY <1>3, LenProperties
  <2>2. s.stack \in [1 .. Len(s.stack) -> Live]
    BY <1>3, <2>1
  <2> QED BY <1>2, <1>4, <2>1, <2>2, SeqDef
<1>6. Memory = Settled(memory)
  BY <1>4 DEF Memory
<1>7. Proper(Memory)
  <2>1. ASSUME NEW a \in 1 .. N
        PROVE  /\ memory[a] \in MemoryWords
               /\ memory[a].t = "nil" => memory[a].v = 0
               /\ a = N => memory[a].cdr \notin {"next", "normal"}
    <3>1. a \in 1 .. 2 * N /\ a <= N
      BY NSizes
    <3>2. memory[a] = s.memory[a]
      BY <1>2, <3>1
    <3> QED BY <1>1, <1>3, <3>1, <3>2 DEF TypesInv
  <2>2. ASSUME NEW a \in 1 .. N
        PROVE  /\ Memory[a].t \in Types /\ Memory[a].t # "monitor-forward"
               /\ Memory[a].v \in Int /\ Memory[a].cdr \in Cdrs
               /\ Memory[a].t \in Pointers => Memory[a].v \in 1 .. N
               /\ Memory[a].t = "nil" => Memory[a].v = 0
               /\ a = N => Memory[a].cdr \notin {"next", "normal"}
    <3> DEFINE w == memory[a]
    <3>1. Memory[a] = [t   |-> IF w.t = "monitor-forward" THEN "one-q-forward" ELSE w.t,
                       v   |-> IF OldP(w) THEN w.v - N ELSE w.v,
                       cdr |-> w.cdr]
      BY <1>6 DEF Settled
    <3>2. w \in MemoryWords /\ (w.t = "nil" => w.v = 0)
          /\ (a = N => w.cdr \notin {"next", "normal"})
      BY <2>1
    <3> HIDE DEF w
    <3>3. w.t \in Types /\ w.v \in Int /\ w.cdr \in Cdrs /\ (w.t \in Pointers => w.v \in 1 .. 2 * N)
      BY <3>2 DEF MemoryWords, Placed
    <3>4. w.t = "nil" => ~OldP(w)
      BY DEF OldP, Pointers
    <3>5. Memory[a].t = "nil" => w.t = "nil"
      BY <3>1
    <3>6. Memory[a].v \in Int /\ (Memory[a].t = "nil" => Memory[a].v = 0)
      BY <3>1, <3>2, <3>3, <3>4, <3>5, NSizes
    <3>7. Memory[a].t \in Pointers => Memory[a].v \in 1 .. N
      <4>1. Memory[a].t \in Pointers => w.t \in Pointers
        BY <3>1 DEF Pointers
      <4> QED BY <3>1, <3>3, <4>1, NSizes DEF OldP
    <3>8. Memory[a].t \in Types /\ Memory[a].t # "monitor-forward" /\ Memory[a].cdr = w.cdr
      BY <3>1, <3>3 DEF Types, Pointers
    <3> QED BY <3>2, <3>3, <3>6, <3>7, <3>8
  <2>3. N \in 1 .. N
    BY NSizes
  <2> QED BY <2>2, <2>3 DEF Proper
<1>8. InPlace
  BY <1>4 DEF InPlace
<1>9. Intact
  BY <1>4 DEF Intact
<1> QED BY <1>1, <1>4, <1>5, <1>6, <1>7, <1>8, <1>9 DEF ResultInv, WasRight

(* What does not depend on how far the instruction has come. *)
Standing ==
    /\ TypesInv /\ NumbersInv /\ WasRight /\ InPlace
    /\ op.in # "done" => Settled(memory) = Memory

LEMMA StepStands ==
  ASSUME Standing, Next
  PROVE  Standing' /\ (was.spilled => was'.spilled)
<1>1. TypesInv' /\ NumbersInv'
  BY StepTyped, NumbersStep DEF Standing
<1>2. ASSUME was'.stack = was.stack, was'.memory = was.memory
      PROVE  (WasRight' <=> WasRight) /\ Memory' = Memory
  BY <1>2 DEF WasRight, Memory
<1>3. \A m : Settled(m)' = Settled(m)
  BY DEF Settled
<1>4. CASE ListStep \/ \E i \in Binary : ArithmeticStep(i)
  <2>1. Goes /\ (UNCHANGED memory \/ Store)
    <3>1. CASE ListStep
      <4>1. Goes
        BY <3>1, ListStepGoes DEF Standing
      <4>2. UNCHANGED memory \/ Store
        BY <3>1
           DEF ListStep, BeginCar, BeginCdr, BeginSetToCar, BeginSetToCdr, BeginSetToCdrPushCar,
               BeginRplaca, BeginRplacd, BeginSearch, LoopStep, CarRead, CdrRead, RplacdRead,
               RestRead, TestMember, TestAssoc, TestRgetf, KeyRead, ValueRead, FollowForward,
               ErrorTrap, CountStep, FieldStep, CarOf, CdrOf, GotCdr, Completes, Excepts,
               ListException, FixnumException, Continue, Loop
      <4> QED BY <4>1, <4>2
    <3>2. CASE \E i \in Binary : ArithmeticStep(i)
      <4>1. op.in = "run" /\ Executing
        BY <3>2 DEF ArithmeticStep, Begin, Running, Standing, TypesInv
      <4>2. (\E words : Completes(words)) \/ (\E how : Excepts(how))
        BY <3>2 DEF ArithmeticStep, FixnumException
      <4>3. Goes
        BY <4>1, <4>2, CompletesGoes, ExceptsGoes
      <4>4. UNCHANGED memory
        BY <4>2 DEF Completes, Excepts
      <4> QED BY <4>3, <4>4
    <3> QED BY <1>4, <3>1, <3>2
  <2>2. was' = was /\ op.in = "run" /\ op'.i = op.i /\ op'.m = op.m
    BY <2>1 DEF Goes
  <2>3. InPlace'
    BY <2>2 DEF InPlace, Standing
  <2>4. op'.in # "done" => UNCHANGED memory
    <3>1. Store => op'.in = "done"
      BY <2>2 DEF Store, Leaves, Standing, TypesInv, Executing
    <3> QED BY <2>1, <3>1
  <2>5. op'.in # "done" => Settled(memory)' = Memory'
    BY <1>2, <2>2, <2>4 DEF Standing, Settled
  <2> QED BY <1>1, <1>2, <2>2, <2>3, <2>5 DEF Standing
<1>5. CASE TransportTrap \/ MonitorTrap \/ PageFault \/ SequenceBreak
  <2>1. \E vector, words : GivenUp(vector, words)
    BY <1>5 DEF TransportTrap, MonitorTrap, PageFault, SequenceBreak
  <2>2. Found /\ op.in = "run"
    BY <1>5 DEF Standing, NumbersInv, TransportTrap, MonitorTrap, PageFault, SequenceBreak,
                Accessing, Running
  <2>3. /\ op'.in = "trapped" /\ op'.i = op.i /\ op'.m = op.m /\ memory' = memory
        /\ was'.stack = was.stack /\ was'.memory = was.memory
        /\ was.spilled => was'.spilled
    BY <2>1, <2>2, GivenUpIntact
  <2>4. Settled(memory)' = Memory'
    BY <1>2, <2>2, <2>3 DEF Standing, Settled
  <2> QED BY <1>1, <1>2, <2>2, <2>3, <2>4 DEF Standing, InPlace
<1>6. ASSUME NEW i, NEW m, NEW b, Fetch(i, m, b), m \in Modes PROVE Standing' /\ was' = was
  <2>1. op.in = "idle" /\ UNCHANGED <<stack, memory, was>> /\ op' = Fetched(i, m, b)
        /\ (i \in {"set-to-car", "set-to-cdr", "set-to-cdr-push-car"} => m = "local")
    BY <1>6 DEF Fetch, Idle
  <2>2. op'.i = i /\ op'.m = m
    BY <2>1 DEF Fetched
  <2>3. Settled(memory)' = Memory'
    BY <1>2, <2>1 DEF Standing, Settled
  <2> QED BY <1>1, <1>2, <2>1, <2>2, <2>3 DEF Standing, InPlace
<1>7. CASE Handle
  <2>1. op.in = "trapped" /\ was' = was /\ op' = Fetched(op.i, op.m, op.byte)
    BY <1>7 DEF Handle
  <2>2. op'.i = op.i /\ op'.m = op.m
    BY <2>1 DEF Fetched
  <2>3. Settled(memory)' = Settled(memory)
    <3>1. Settled(memory') = Settled(memory)
      BY <1>7, HandledSettled DEF Standing
    <3> QED BY <3>1 DEF Settled
  <2>4. Settled(memory)' = Memory'
    BY <1>2, <2>1, <2>3 DEF Standing
  <2> QED BY <1>1, <1>2, <2>1, <2>2, <2>4 DEF Standing, InPlace
<1>8. "local" \in Modes
  BY DEF Modes
<1> QED BY <1>4, <1>5, <1>6, <1>7, <1>8 DEF Next

LEMMA StepIntact ==
  ASSUME ResultInv, Intact, Next
  PROVE  was'.spilled \/ Intact'
<1>1. CASE ListStep \/ \E i \in Binary : ArithmeticStep(i)
  <2>1. op.in = "run"
    BY <1>1, ListStepGoes DEF ResultInv, Goes, ArithmeticStep, Begin, Running
  <2> QED BY <1>1, <2>1, ListStepIntact, OthersIntact DEF Running1
<1>2. CASE TransportTrap \/ MonitorTrap \/ PageFault \/ SequenceBreak
  <2>1. \E vector, words : GivenUp(vector, words)
    BY <1>2 DEF TransportTrap, MonitorTrap, PageFault, SequenceBreak
  <2>2. Found
    BY DEF ResultInv, NumbersInv
  <2> QED BY <2>1, <2>2, GivenUpIntact
<1>3. ASSUME stack = was.stack, UNCHANGED <<stack, was>>, NEW i, NEW m, NEW b, op' = Fetched(i, m, b)
      PROVE  Intact'
  <2>1. op'.in = "run" /\ op'.phase = "begin"
    BY <1>3 DEF Fetched
  <2>2. Heads(op.phase, op.vma)'
    BY <2>1 DEF Heads, Accesses, DataReads, CdrReads
  <2>3. Known(op.phase)'
    BY <2>1 DEF Known, Placing, Searching
  <2>4. Kept1'
    BY <1>3 DEF Kept1
  <2> QED BY <2>1, <2>2, <2>3, <2>4 DEF Intact
<1>4. ASSUME NEW i, NEW m, NEW b, Fetch(i, m, b) PROVE Intact'
  <2>1. op.in = "idle" /\ op' = Fetched(i, m, b) /\ UNCHANGED <<stack, was>>
    BY <1>4 DEF Fetch, Idle
  <2> QED BY <1>3, <2>1 DEF Intact
<1>5. CASE Handle
  <2>1. op.in = "trapped" /\ op' = Fetched(op.i, op.m, op.byte) /\ UNCHANGED <<stack, was>>
    BY <1>5 DEF Handle
  <2>2. stack = was.stack
    BY <2>1 DEF Intact
  <2>3. PICK i, m, b : op' = Fetched(i, m, b)
    BY <2>1
  <2> QED BY <1>3, <2>1, <2>2, <2>3
<1> QED BY <1>1, <1>2, <1>4, <1>5 DEF Next

LEMMA ResultStep == ResultInv /\ [Next]_vars => ResultInv'
<1>1. ASSUME ResultInv, Next PROVE ResultInv'
  <2>1. Standing' /\ (was.spilled => was'.spilled)
    BY <1>1, StepStands DEF ResultInv, Standing
  <2>2. was'.spilled \/ Intact'
    BY <1>1, <2>1, StepIntact DEF ResultInv
  <2> QED BY <2>1, <2>2 DEF ResultInv, Standing
<1>2. ASSUME ResultInv, UNCHANGED vars PROVE ResultInv'
  <2>1. stack' = stack /\ memory' = memory /\ op' = op /\ was' = was /\ traps' = traps
    BY <1>2 DEF vars
  <2>2. TypesInv' /\ NumbersInv'
    BY <1>2, StepTyped, NumbersStep DEF ResultInv
  <2>3. WasRight' /\ InPlace' /\ (op'.in # "done" => Settled(memory)' = Memory')
    BY <1>2, <2>1, Held1 DEF ResultInv, InPlace, Settled
  <2>4. Intact' <=> Intact
    <3>1. AsIfAtOnce' <=> AsIfAtOnce
      <4>1. /\ Answer' = Answer /\ (Possible' <=> Possible) /\ MemoryAfter' = MemoryAfter
            /\ Memory' = Memory
        BY <2>1, SameAnswer, Held1
      <4> QED BY <2>1, <4>1 DEF AsIfAtOnce, OnLists, Ended, Settled
    <3>2. PICK p, a : p = op.phase /\ a = op.vma
      OBVIOUS
    <3>3. (Heads(p, a)' <=> Heads(p, a)) /\ (Known(p)' <=> Known(p))
      BY <2>1, HeadsHeld
    <3>4. (Heads(op.phase, op.vma)' <=> Heads(op.phase, op.vma))
          /\ (Known(op.phase)' <=> Known(op.phase))
      BY <2>1, <3>2, <3>3 DEF Heads, Known, Placing, Searching, Wanted, Asked
    <3>5. Kept1' <=> Kept1
      BY <2>1 DEF Kept1, LiveSlot, Slot, SP
    <3> QED BY <2>1, <3>1, <3>4, <3>5 DEF Intact
  <2> QED BY <1>2, <2>1, <2>2, <2>3, <2>4 DEF ResultInv
<1> QED BY <1>1, <1>2

(* ResultRight, whatever the stack and the memory, for lists of any shape, *)
(* circular ones too, through any number of forwards, transports, monitors *)
(* and page faults: an instruction on lists that ends has done what it     *)
(* would have done at once, unless it was given up with an operand's word  *)
(* already overwritten (MemoryReadInternal, emulator.c:214-268, and the    *)
(* instructions at 1095-1406).                                             *)
THEOREM ResultForEveryMemory == Spec => []ResultRight
<1>1. ResultInv => ResultRight
  <2> SUFFICES ASSUME ResultInv, ~was.spilled PROVE AsIfAtOnce
    BY DEF ResultRight
  <2> QED BY DEF ResultInv, Intact, AsIfAtOnce, OnLists
<1> QED BY <1>1, ResultInit, ResultStep, PTL DEF Spec
==============================================================================
