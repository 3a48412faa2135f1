----------------------------- MODULE NetworkProofs ----------------------------
(***************************************************************************)
(* Proofs about the network channel of NetworkChannel.tla, for every set   *)
(* of packet buffers, every room in its queues and every number of         *)
(* restarts of Lisp.                                                       *)
(***************************************************************************)
EXTENDS NetworkChannel, SignalsProofs, SequenceTheorems, FiniteSetTheorems

(***************************************************************************)
(* One direction: buffers of the set S go from F, those at hand, through   *)
(* the queue A, a thread's hands h and the queue B back to F, in           *)
(* incarnation n.                                                          *)
(***************************************************************************)
Tag(b, n) == [buf |-> b, inc |-> n]

Typed(A, h, B, F, S) ==
    /\ A \in Seq(Buffer(S)) /\ B \in Seq(Buffer(S))
    /\ h \in Buffer(S) \cup {None}
    /\ F \subseteq S
Past(A, h, B, n) ==
    /\ \A k \in 1 .. Len(A) : A[k].inc <= n
    /\ \A k \in 1 .. Len(B) : B[k].inc <= n
    /\ h.inc <= n
(* A buffer of this incarnation is in one place. *)
Single(s, n) == \A k, l \in 1 .. Len(s) : s[k] = s[l] /\ s[k].inc = n => k = l
Apart(A, h, B, F, n) ==
    /\ Single(A, n) /\ Single(B, n)
    /\ \A k \in 1 .. Len(A) : A[k].inc = n => A[k] # h /\ A[k].buf \notin F
    /\ \A k \in 1 .. Len(B) : B[k].inc = n => B[k] # h /\ B[k].buf \notin F
    /\ \A k \in 1 .. Len(A), l \in 1 .. Len(B) : A[k].inc = n => A[k] # B[l]
    /\ h.inc = n => h.buf \notin F
(* And in some place. *)
Within(A, h, B, F, n, b) ==
    \/ b \in F
    \/ h = Tag(b, n)
    \/ \E k \in 1 .. Len(A) : A[k] = Tag(b, n)
    \/ \E k \in 1 .. Len(B) : B[k] = Tag(b, n)
Circulate(A, h, B, F, n, S) ==
    /\ Typed(A, h, B, F, S)
    /\ Past(A, h, B, n)
    /\ Apart(A, h, B, F, n)
    /\ \A b \in S : Within(A, h, B, F, n, b)

LEMMA TailOf ==
  ASSUME NEW S, NEW s \in Seq(S), s # <<>>
  PROVE  /\ Tail(s) \in Seq(S) /\ Head(s) \in S
         /\ Len(s) \in Nat /\ 1 \in 1 .. Len(s) /\ Head(s) = s[1]
         /\ Len(Tail(s)) = Len(s) - 1
         /\ \A k \in 1 .. Len(Tail(s)) : k + 1 \in 1 .. Len(s) /\ Tail(s)[k] = s[k + 1]
OBVIOUS

LEMMA AppendTo ==
  ASSUME NEW S, NEW s \in Seq(S), NEW e \in S
  PROVE  /\ Append(s, e) \in Seq(S)
         /\ Len(s) \in Nat
         /\ Len(Append(s, e)) = Len(s) + 1
         /\ Append(s, e)[Len(s) + 1] = e
         /\ \A k \in 1 .. Len(s) : Append(s, e)[k] = s[k]
OBVIOUS

LEMMA ElementsOf ==
  ASSUME NEW S, NEW s \in Seq(Buffer(S))
  PROVE  \A k \in 1 .. Len(s) : s[k] \in Buffer(S) /\ s[k] # None
<1>1. \A e \in Buffer(S) : e.inc # -1
  BY NetworkAssumption DEF NetworkAssumption, Buffer
<1>2. \A k \in 1 .. Len(s) : s[k] \in Buffer(S)
  BY ElementOfSeq
<1> QED BY <1>1, <1>2 DEF None

LEMMA Tags ==
  ASSUME NEW S, NEW b, NEW n
  PROVE  /\ Tag(b, n).buf = b /\ Tag(b, n).inc = n
         /\ b \in S /\ n \in 0 .. MaxResets => Tag(b, n) \in Buffer(S)
         /\ \A e \in Buffer(S) : e.inc = n /\ e.buf = b => e = Tag(b, n)
BY DEF Tag, Buffer

LEMMA Earlier ==
  ASSUME NEW S, NEW s \in Seq(Buffer(S)), NEW n \in 0 .. MaxResets
  PROVE  /\ \A e \in Buffer(S) : e.inc \in 0 .. MaxResets
         /\ None.inc = -1 /\ None.inc <= n /\ None.inc # n
         /\ n \in Nat
BY NetworkAssumption DEF Buffer, None, NetworkAssumption

(* The guest puts a buffer it has at hand. *)
LEMMA GuestPuts ==
  ASSUME NEW A, NEW h, NEW B, NEW F, NEW n \in 0 .. MaxResets, NEW S,
         Circulate(A, h, B, F, n, S), NEW b \in F
  PROVE  Circulate(Append(A, Tag(b, n)), h, B, F \ {b}, n, S)
<1> DEFINE e == Tag(b, n)
           C == Append(A, e)
<1>1. Typed(A, h, B, F, S) /\ Past(A, h, B, n) /\ Apart(A, h, B, F, n) /\ b \in S
  BY DEF Circulate, Typed
<1>2. e \in Buffer(S) /\ e.inc = n /\ e.buf = b
  BY <1>1, Tags
<1>3. /\ C \in Seq(Buffer(S)) /\ Len(A) \in Nat /\ Len(C) = Len(A) + 1 /\ C[Len(A) + 1] = e
      /\ \A k \in 1 .. Len(A) : C[k] = A[k]
  BY <1>1, <1>2, AppendTo DEF Typed
<1> HIDE DEF e, C
<1>4. \A k \in 1 .. Len(C) : k \in 1 .. Len(A) \/ k = Len(A) + 1
  BY <1>3
<1>5. /\ \A k \in 1 .. Len(A) : A[k] # e
      /\ \A k \in 1 .. Len(B) : B[k] # e
      /\ h # e
  BY <1>1, <1>2 DEF Apart
<1>6. n <= n
  OBVIOUS
<1>7. Typed(C, h, B, F \ {b}, S)
  BY <1>1, <1>3 DEF Typed
<1>8. Past(C, h, B, n)
  BY <1>1, <1>2, <1>3, <1>4, <1>6, Zenon DEF Past
<1>9. Apart(C, h, B, F \ {b}, n)
  <2>1. Single(C, n)
    <3> SUFFICES ASSUME NEW k \in 1 .. Len(C), NEW l \in 1 .. Len(C), C[k] = C[l], C[k].inc = n
                 PROVE  k = l
      BY DEF Single
    <3>1. CASE k \in 1 .. Len(A) /\ l \in 1 .. Len(A)
      BY <1>1, <1>3, <3>1 DEF Apart, Single
    <3>2. CASE k \notin 1 .. Len(A) \/ l \notin 1 .. Len(A)
      <4>1. \A j \in 1 .. Len(A) : C[j] # e
        BY <1>3, <1>5
      <4> QED BY <1>3, <1>4, <3>2, <4>1
    <3> QED BY <3>1, <3>2
  <2>2. \A k \in 1 .. Len(C) : C[k].inc = n => C[k] # h /\ C[k].buf \notin F \ {b}
    BY <1>1, <1>2, <1>3, <1>4, <1>5 DEF Apart
  <2>3. \A k \in 1 .. Len(C), l \in 1 .. Len(B) : C[k].inc = n => C[k] # B[l]
    BY <1>1, <1>3, <1>4, <1>5 DEF Apart
  <2> QED BY <1>1, <2>1, <2>2, <2>3 DEF Apart
<1>10. \A c \in S : Within(C, h, B, F \ {b}, n, c)
  <2> SUFFICES ASSUME NEW c \in S PROVE Within(C, h, B, F \ {b}, n, c)
    OBVIOUS
  <2>1. Within(A, h, B, F, n, c) /\ Len(A) + 1 \in 1 .. Len(C) /\ 1 .. Len(A) \subseteq 1 .. Len(C)
    BY <1>3 DEF Circulate
  <2> QED BY <1>3, <2>1 DEF Within, e
<1> QED BY <1>7, <1>8, <1>9, <1>10 DEF Circulate, e, C

(* The guest takes one back, and knows those of its incarnation. *)
LEMMA GuestTakes ==
  ASSUME NEW A, NEW h, NEW B, NEW F, NEW n \in 0 .. MaxResets, NEW S,
         Circulate(A, h, B, F, n, S), B # <<>>
  PROVE  Circulate(A, h, Tail(B), F \cup (IF Head(B).inc = n THEN {Head(B).buf} ELSE {}), n, S)
<1> DEFINE e == Head(B)
           C == Tail(B)
           G == F \cup (IF e.inc = n THEN {e.buf} ELSE {})
<1>1. Typed(A, h, B, F, S) /\ Past(A, h, B, n) /\ Apart(A, h, B, F, n)
  BY DEF Circulate
<1>2. /\ C \in Seq(Buffer(S)) /\ e \in Buffer(S)
      /\ Len(B) \in Nat /\ 1 \in 1 .. Len(B) /\ e = B[1] /\ Len(C) = Len(B) - 1
      /\ \A k \in 1 .. Len(C) : k + 1 \in 1 .. Len(B) /\ C[k] = B[k + 1]
  BY <1>1, TailOf DEF Typed
<1>3. /\ \A k \in 1 .. Len(A) : A[k] \in Buffer(S)
      /\ \A k \in 1 .. Len(C) : C[k] \in Buffer(S)
  BY <1>1, <1>2, ElementsOf DEF Typed
<1> HIDE DEF e, C
<1>4. \A k \in 1 .. Len(C) : k + 1 # 1
  BY <1>2
<1>5. e.inc = n => /\ \A k \in 1 .. Len(A) : A[k] # e
                   /\ \A k \in 1 .. Len(C) : C[k] # e
                   /\ h # e
  BY <1>1, <1>2, <1>4 DEF Apart, Single
<1>6. e.inc = n => \A f \in Buffer(S) : f.inc = n /\ f # e => f.buf # e.buf
  BY <1>2 DEF Buffer
<1>7. Typed(A, h, C, G, S)
  BY <1>1, <1>2 DEF Typed, Buffer
<1>8. Past(A, h, C, n)
  BY <1>1, <1>2 DEF Past
<1>9. Apart(A, h, C, G, n)
  <2>1. Single(C, n)
    <3>1. \A k, l \in 1 .. Len(C) : k + 1 = l + 1 => k = l
      BY <1>2
    <3> SUFFICES ASSUME NEW k \in 1 .. Len(C), NEW l \in 1 .. Len(C), C[k] = C[l], C[k].inc = n
                 PROVE  k = l
      BY DEF Single
    <3>2. B[k + 1] = B[l + 1] /\ B[k + 1].inc = n /\ k + 1 \in 1 .. Len(B) /\ l + 1 \in 1 .. Len(B)
      BY <1>2
    <3>3. k + 1 = l + 1
      BY <1>1, <3>2, Zenon DEF Apart, Single
    <3> QED BY <3>1, <3>3
  <2>2. \A k \in 1 .. Len(A) : A[k].inc = n => A[k] # h /\ A[k].buf \notin G
    BY <1>1, <1>3, <1>5, <1>6 DEF Apart
  <2>3. \A k \in 1 .. Len(C) : C[k].inc = n => C[k] # h /\ C[k].buf \notin G
    BY <1>1, <1>2, <1>3, <1>5, <1>6 DEF Apart
  <2>4. \A k \in 1 .. Len(A), l \in 1 .. Len(C) : A[k].inc = n => A[k] # C[l]
    BY <1>1, <1>2 DEF Apart
  <2>5. h.inc = n => h.buf \notin G
    <3>1. h.inc = n => h \in Buffer(S)
      BY <1>1, Earlier DEF Typed
    <3> QED BY <1>1, <1>5, <1>6, <3>1 DEF Apart
  <2> QED BY <1>1, <2>1, <2>2, <2>3, <2>4, <2>5 DEF Apart
<1>10. \A c \in S : Within(A, h, C, G, n, c)
  <2> SUFFICES ASSUME NEW c \in S PROVE Within(A, h, C, G, n, c)
    OBVIOUS
  <2>1. Within(A, h, B, F, n, c)
    BY DEF Circulate
  <2>2. CASE \E k \in 1 .. Len(B) : B[k] = Tag(c, n)
    <3>1. PICK k \in 1 .. Len(B) : B[k] = Tag(c, n)
      BY <2>2
    <3>2. CASE k = 1
      BY <1>2, <3>1, <3>2, Tags DEF Within
    <3>3. CASE k # 1
      <4>1. k - 1 \in 1 .. Len(C) /\ (k - 1) + 1 = k
        BY <1>2, <3>1, <3>3
      <4>2. C[k - 1] = Tag(c, n)
        BY <1>2, <3>1, <4>1
      <4> QED BY <4>1, <4>2 DEF Within
    <3> QED BY <3>2, <3>3
  <2> QED BY <2>1, <2>2 DEF Within
<1> HIDE DEF G
<1>11. Circulate(A, h, C, G, n, S)
  BY <1>7, <1>8, <1>9, <1>10 DEF Circulate
<1> QED BY <1>11 DEF G, e, C

(* The thread takes one, and has none of its own before. *)
LEMMA ThreadTakes ==
  ASSUME NEW A, NEW B, NEW F, NEW n \in 0 .. MaxResets, NEW S,
         Circulate(A, None, B, F, n, S), A # <<>>
  PROVE  Circulate(Tail(A), Head(A), B, F, n, S) /\ Head(A) # None
<1> DEFINE e == Head(A)
           C == Tail(A)
<1>1. Typed(A, None, B, F, S) /\ Past(A, None, B, n) /\ Apart(A, None, B, F, n)
  BY DEF Circulate
<1>2. /\ C \in Seq(Buffer(S)) /\ e \in Buffer(S)
      /\ Len(A) \in Nat /\ 1 \in 1 .. Len(A) /\ e = A[1] /\ Len(C) = Len(A) - 1
      /\ \A k \in 1 .. Len(C) : k + 1 \in 1 .. Len(A) /\ C[k] = A[k + 1]
  BY <1>1, TailOf DEF Typed
<1>3. e # None
  BY <1>1, <1>2, ElementsOf DEF Typed
<1> HIDE DEF e, C
<1>4. \A k, l \in 1 .. Len(C) : k + 1 # 1 /\ (k + 1 = l + 1 => k = l)
  BY <1>2
<1>5. Typed(C, e, B, F, S)
  BY <1>1, <1>2 DEF Typed
<1>6. Past(C, e, B, n)
  BY <1>1, <1>2 DEF Past
<1>7. Apart(C, e, B, F, n)
  <2>1. Single(C, n)
    <3> SUFFICES ASSUME NEW k \in 1 .. Len(C), NEW l \in 1 .. Len(C), C[k] = C[l], C[k].inc = n
                 PROVE  k = l
      BY DEF Single
    <3>1. A[k + 1] = A[l + 1] /\ A[k + 1].inc = n /\ k + 1 \in 1 .. Len(A) /\ l + 1 \in 1 .. Len(A)
      BY <1>2
    <3>2. k + 1 = l + 1
      BY <1>1, <3>1, Zenon DEF Apart, Single
    <3> QED BY <1>4, <3>2
  <2>2. \A k \in 1 .. Len(C) : C[k].inc = n => C[k] # e /\ C[k].buf \notin F
    <3> SUFFICES ASSUME NEW k \in 1 .. Len(C), C[k].inc = n
                 PROVE  C[k] # e /\ C[k].buf \notin F
      OBVIOUS
    <3>1. k + 1 \in 1 .. Len(A) /\ C[k] = A[k + 1] /\ k + 1 # 1 /\ A[k + 1].inc = n
      BY <1>2, <1>4
    <3>2. A[k + 1] # A[1]
      BY <1>1, <1>2, <3>1, Zenon DEF Apart, Single
    <3> QED BY <1>1, <1>2, <3>1, <3>2 DEF Apart
  <2>3. \A k \in 1 .. Len(B) : B[k].inc = n => B[k] # e /\ B[k].buf \notin F
    BY <1>1, <1>2 DEF Apart
  <2>4. \A k \in 1 .. Len(C), l \in 1 .. Len(B) : C[k].inc = n => C[k] # B[l]
    BY <1>1, <1>2 DEF Apart
  <2>5. e.inc = n => e.buf \notin F
    BY <1>1, <1>2 DEF Apart
  <2> QED BY <1>1, <2>1, <2>2, <2>3, <2>4, <2>5 DEF Apart
<1>8. \A c \in S : Within(C, e, B, F, n, c)
  <2> SUFFICES ASSUME NEW c \in S PROVE Within(C, e, B, F, n, c)
    OBVIOUS
  <2>1. Within(A, None, B, F, n, c)
    BY DEF Circulate
  <2>2. None # Tag(c, n)
    BY <1>1, Earlier, Tags DEF Typed
  <2>3. CASE \E k \in 1 .. Len(A) : A[k] = Tag(c, n)
    <3>1. PICK k \in 1 .. Len(A) : A[k] = Tag(c, n)
      BY <2>3
    <3>2. CASE k = 1
      BY <1>2, <3>1, <3>2 DEF Within
    <3>3. CASE k # 1
      <4>1. k - 1 \in 1 .. Len(C) /\ (k - 1) + 1 = k
        BY <1>2, <3>1, <3>3
      <4>2. C[k - 1] = Tag(c, n)
        BY <1>2, <3>1, <4>1
      <4> QED BY <4>1, <4>2 DEF Within
    <3> QED BY <3>2, <3>3
  <2> QED BY <2>1, <2>2, <2>3 DEF Within
<1> QED BY <1>3, <1>5, <1>6, <1>7, <1>8 DEF Circulate, e, C

(* The thread puts what it has. *)
LEMMA ThreadPuts ==
  ASSUME NEW A, NEW h, NEW B, NEW F, NEW n \in 0 .. MaxResets, NEW S,
         Circulate(A, h, B, F, n, S), h # None
  PROVE  Circulate(A, None, Append(B, h), F, n, S)
<1> DEFINE C == Append(B, h)
<1>1. Typed(A, h, B, F, S) /\ Past(A, h, B, n) /\ Apart(A, h, B, F, n) /\ h \in Buffer(S)
  BY DEF Circulate, Typed
<1>2. /\ C \in Seq(Buffer(S)) /\ Len(B) \in Nat /\ Len(C) = Len(B) + 1 /\ C[Len(B) + 1] = h
      /\ \A k \in 1 .. Len(B) : C[k] = B[k]
  BY <1>1, AppendTo DEF Typed
<1>3. None.inc <= n /\ None.inc # n
  BY <1>1, Earlier DEF Typed
<1> HIDE DEF C
<1>4. \A k \in 1 .. Len(C) : k \in 1 .. Len(B) \/ k = Len(B) + 1
  BY <1>2
<1>5. \A k \in 1 .. Len(C) : (k \in 1 .. Len(B) /\ C[k] = B[k]) \/ C[k] = h
  BY <1>2, <1>4
<1>6. Typed(A, None, C, F, S)
  BY <1>1, <1>2 DEF Typed
<1>7. Past(A, None, C, n)
  BY <1>1, <1>3, <1>5 DEF Past
<1>8. Apart(A, None, C, F, n)
  <2>1. Single(C, n)
    <3> SUFFICES ASSUME NEW k \in 1 .. Len(C), NEW l \in 1 .. Len(C), C[k] = C[l], C[k].inc = n
                 PROVE  k = l
      BY DEF Single
    <3>1. CASE k \in 1 .. Len(B) /\ l \in 1 .. Len(B)
      BY <1>1, <1>2, <3>1 DEF Apart, Single
    <3>2. CASE k \notin 1 .. Len(B) \/ l \notin 1 .. Len(B)
      <4>1. \A j \in 1 .. Len(B) : B[j].inc = n => C[j] # h
        BY <1>1, <1>2 DEF Apart
      <4> QED BY <1>2, <1>4, <3>2, <4>1
    <3> QED BY <3>1, <3>2
  <2>2. \A k \in 1 .. Len(A) : A[k].inc = n => A[k] # None /\ A[k].buf \notin F
    BY <1>1, <1>3 DEF Apart
  <2>3. \A k \in 1 .. Len(C) : C[k].inc = n => C[k] # None /\ C[k].buf \notin F
    BY <1>1, <1>3, <1>5 DEF Apart
  <2>4. \A k \in 1 .. Len(A), l \in 1 .. Len(C) : A[k].inc = n => A[k] # C[l]
    BY <1>1, <1>5 DEF Apart
  <2> QED BY <1>1, <1>3, <2>1, <2>2, <2>3, <2>4 DEF Apart
<1>9. \A c \in S : Within(A, None, C, F, n, c)
  <2> SUFFICES ASSUME NEW c \in S PROVE Within(A, None, C, F, n, c)
    OBVIOUS
  <2>1. Within(A, h, B, F, n, c) /\ Len(B) + 1 \in 1 .. Len(C) /\ 1 .. Len(B) \subseteq 1 .. Len(C)
    BY <1>2 DEF Circulate
  <2> QED BY <1>2, <2>1 DEF Within
<1> QED BY <1>6, <1>7, <1>8, <1>9 DEF Circulate, C

(* When Lisp starts again it has all buffers, and what is on its way is of *)
(* an earlier incarnation.                                                 *)
LEMMA LispRestarts ==
  ASSUME NEW A, NEW h, NEW B, NEW F, NEW n \in 0 .. MaxResets, NEW S,
         Circulate(A, h, B, F, n, S)
  PROVE  Circulate(A, h, B, S, n + 1, S)
<1>1. Typed(A, h, B, F, S) /\ Past(A, h, B, n)
  BY DEF Circulate
<1>2. /\ \A k \in 1 .. Len(A) : A[k] \in Buffer(S)
      /\ \A k \in 1 .. Len(B) : B[k] \in Buffer(S)
      /\ \A e \in Buffer(S) : e.inc \in Int
      /\ h.inc \in Int /\ n \in Int
  <2>1. h \in Buffer(S) \/ h = None
    BY <1>1 DEF Typed
  <2> QED BY <1>1, <2>1, ElementsOf, Earlier DEF Typed
<1>3. \A i \in Int : i <= n => i <= n + 1 /\ i # n + 1
  BY <1>2
<1>4. Past(A, h, B, n + 1) /\ Apart(A, h, B, S, n + 1)
  BY <1>1, <1>2, <1>3 DEF Past, Apart, Single
<1> QED BY <1>1, <1>4 DEF Circulate, Typed, Within

(* A queue that is reset while the guest has all its buffers holds none of *)
(* them.                                                                   *)
LEMMA QueueReset ==
  ASSUME NEW A, NEW h, NEW B, NEW n \in 0 .. MaxResets, NEW S, Circulate(A, h, B, S, n, S)
  PROVE  Circulate(<<>>, h, B, S, n, S) /\ Circulate(A, h, <<>>, S, n, S)
<1>1. <<>> \in Seq(Buffer(S)) /\ 1 .. Len(<<>>) = {}
  OBVIOUS
<1> DEFINE empty == <<>>
<1>2. empty \in Seq(Buffer(S)) /\ 1 .. Len(empty) = {}
  BY <1>1
<1> HIDE DEF empty
<1>3. Circulate(empty, h, B, S, n, S) /\ Circulate(A, h, empty, S, n, S)
  BY <1>2 DEF Circulate, Typed, Past, Apart, Single, Within
<1> QED BY <1>3 DEF empty

Hold(b) == IF b = None THEN <<>> ELSE <<b>>

(* One place on the whole way. *)
LEMMA HoldIs ==
  ASSUME NEW S, NEW h \in Buffer(S) \cup {None}
  PROVE  /\ Hold(h) \in Seq(Buffer(S))
         /\ Len(Hold(h)) = IF h = None THEN 0 ELSE 1
         /\ h # None => Hold(h)[1] = h
<1>1. CASE h = None
  <2>1. Hold(h) = <<>>
    BY <1>1 DEF Hold
  <2> QED BY <1>1, <2>1
<1>2. CASE h # None
  <2>1. Hold(h) = <<h>> /\ h \in Buffer(S)
    BY <1>2 DEF Hold
  <2> QED BY <1>2, <2>1
<1> QED BY <1>1, <1>2

Whole(A, h, B) == A \o Hold(h) \o B
Held(h) == IF h = None THEN 0 ELSE 1

LEMMA TwoParts ==
  ASSUME NEW T, NEW s \in Seq(T), NEW t \in Seq(T)
  PROVE  /\ s \o t \in Seq(T)
         /\ Len(s \o t) = Len(s) + Len(t)
         /\ \A i \in 1 .. Len(s) : (s \o t)[i] = s[i]
         /\ \A i \in 1 .. Len(t) : (s \o t)[Len(s) + i] = t[i]
         /\ Len(s) \in Nat /\ Len(t) \in Nat
BY ConcatProperties

LEMMA HeldIs ==
  ASSUME NEW h
  PROVE  Held(h) \in 0 .. 1 /\ (h # None <=> Held(h) = 1)
BY DEF Held

Joins(w, A, h, B, S) ==
    /\ w \in Seq(Buffer(S)) /\ Len(A) \in Nat /\ Len(B) \in Nat
    /\ Len(w) = Len(A) + Held(h) + Len(B)
    /\ \A i \in 1 .. Len(A) : w[i] = A[i]
    /\ h # None => w[Len(A) + 1] = h
    /\ \A i \in 1 .. Len(B) : w[Len(A) + Held(h) + i] = B[i]

LEMMA TheWay ==
  ASSUME NEW S, NEW A \in Seq(Buffer(S)), NEW h \in Buffer(S) \cup {None}, NEW B \in Seq(Buffer(S))
  PROVE  Joins(Whole(A, h, B), A, h, B, S)
<1> DEFINE H == Hold(h)
           front == A \o H
           all == front \o B
<1>1. H \in Seq(Buffer(S)) /\ Len(H) = Held(h) /\ (h # None => H[1] = h)
  BY HoldIs DEF Held
<1>2. Held(h) \in 0 .. 1 /\ (h # None <=> Held(h) = 1)
  BY DEF Held
<1> HIDE DEF H
<1>3. /\ front \in Seq(Buffer(S)) /\ Len(front) = Len(A) + Len(H) /\ Len(A) \in Nat
      /\ \A i \in 1 .. Len(A) : front[i] = A[i]
      /\ \A i \in 1 .. Len(H) : front[Len(A) + i] = H[i]
  BY <1>1, TwoParts
<1> HIDE DEF front
<1>4. /\ all \in Seq(Buffer(S)) /\ Len(all) = Len(front) + Len(B) /\ Len(B) \in Nat
      /\ \A i \in 1 .. Len(front) : all[i] = front[i]
      /\ \A i \in 1 .. Len(B) : all[Len(front) + i] = B[i]
  <2>1. front \in Seq(Buffer(S))
    BY <1>3
  <2> QED BY <2>1, TwoParts
<1>5. all = Whole(A, h, B)
  BY DEF all, front, H, Whole
<1> HIDE DEF all
<1>6. Len(front) = Len(A) + Held(h)
  BY <1>1, <1>3
<1>7. \A i \in 1 .. Len(A) : all[i] = A[i]
  BY <1>2, <1>3, <1>4, <1>6
<1>8. h # None => all[Len(A) + 1] = h
  <2> SUFFICES ASSUME h # None PROVE all[Len(A) + 1] = h
    OBVIOUS
  <2>1. Held(h) = 1 /\ H[1] = h /\ 1 \in 1 .. Len(H) /\ Len(A) + 1 \in 1 .. Len(front)
    BY <1>1, <1>2, <1>3, <1>6
  <2> QED BY <1>3, <1>4, <2>1
<1>9. Joins(all, A, h, B, S)
  BY <1>3, <1>4, <1>6, <1>7, <1>8 DEF Joins
<1> QED BY <1>5, <1>9

(* Where an element is. *)
LEMMA OnTheWay ==
  ASSUME NEW S, NEW A \in Seq(Buffer(S)), NEW h \in Buffer(S) \cup {None}, NEW B \in Seq(Buffer(S)),
         NEW i \in 1 .. Len(Whole(A, h, B))
  PROVE  \/ i \in 1 .. Len(A) /\ Whole(A, h, B)[i] = A[i]
         \/ h # None /\ i = Len(A) + 1 /\ Whole(A, h, B)[i] = h
         \/ i - (Len(A) + Held(h)) \in 1 .. Len(B) /\ Whole(A, h, B)[i] = B[i - (Len(A) + Held(h))]
<1> DEFINE all == Whole(A, h, B)
           j == i - (Len(A) + Held(h))
<1> HIDE DEF j
<1>7. Joins(all, A, h, B, S)
  BY TheWay
<1>1. /\ all \in Seq(Buffer(S)) /\ Len(A) \in Nat /\ Len(B) \in Nat
      /\ Len(all) = Len(A) + Held(h) + Len(B)
      /\ \A k \in 1 .. Len(A) : all[k] = A[k]
      /\ h # None => all[Len(A) + 1] = h
      /\ \A k \in 1 .. Len(B) : all[Len(A) + Held(h) + k] = B[k]
  BY <1>7 DEF Joins
<1>6. Held(h) \in 0 .. 1 /\ (h # None <=> Held(h) = 1)
  BY HeldIs
<1>2. i \in 1 .. Len(all)
  OBVIOUS
<1> HIDE DEF all
<1>3. CASE i <= Len(A)
  BY <1>1, <1>2, <1>3 DEF all
<1>4. CASE i > Len(A) /\ i <= Len(A) + Held(h)
  BY <1>1, <1>2, <1>4, <1>6 DEF all
<1>5. CASE i > Len(A) + Held(h)
  <2>1. j \in 1 .. Len(B) /\ Len(A) + Held(h) + j = i
    BY <1>1, <1>2, <1>5, <1>6, SMTT(30) DEF j
  <2>2. all[i] = B[j]
    BY <1>1, <2>1
  <2> QED BY <2>1, <2>2 DEF all, j
<1> QED BY <1>1, <1>2, <1>3, <1>4, <1>5, <1>6

LEMMA OnePlace ==
  ASSUME NEW A, NEW h, NEW B, NEW F, NEW S, incarnation \in 0 .. MaxResets,
         Circulate(A, h, B, F, incarnation, S), NEW b \in S
  PROVE  Cardinality(Places(b, A \o Hold(h) \o B)) = IF b \in F THEN 0 ELSE 1
<1> DEFINE all == Whole(A, h, B)
           one == Held(h)
           t == Tag(b, incarnation)
<1>1. Typed(A, h, B, F, S) /\ Apart(A, h, B, F, incarnation) /\ Within(A, h, B, F, incarnation, b)
  BY DEF Circulate
<1>2. /\ A \in Seq(Buffer(S)) /\ h \in Buffer(S) \cup {None} /\ B \in Seq(Buffer(S))
  BY <1>1 DEF Typed
<1>13. Joins(all, A, h, B, S)
  BY <1>2, TheWay
<1>10. /\ all \in Seq(Buffer(S)) /\ Len(A) \in Nat /\ Len(B) \in Nat
       /\ Len(all) = Len(A) + one + Len(B)
       /\ \A i \in 1 .. Len(A) : all[i] = A[i]
       /\ h # None => all[Len(A) + 1] = h
       /\ \A i \in 1 .. Len(B) : all[Len(A) + one + i] = B[i]
  BY <1>13 DEF Joins
<1>11. /\ Len(A) \in Nat /\ Len(B) \in Nat /\ one \in 0 .. 1
       /\ Len(all) = Len(A) + one + Len(B) /\ (h # None <=> one = 1)
  BY <1>10, HeldIs
<1>12. /\ \A i \in 1 .. Len(A) : all[i] = A[i]
       /\ h # None => all[Len(A) + 1] = h
       /\ \A i \in 1 .. Len(B) : all[Len(A) + one + i] = B[i]
  BY <1>10
<1>4. \A i \in 1 .. Len(all) :
            \/ i \in 1 .. Len(A) /\ all[i] = A[i]
            \/ h # None /\ i = Len(A) + 1 /\ all[i] = h
            \/ i - (Len(A) + one) \in 1 .. Len(B) /\ all[i] = B[i - (Len(A) + one)]
  BY <1>2, OnTheWay
<1>3. DOMAIN all = 1 .. Len(all)
  BY <1>10, <1>4, LenProperties
<1>5. t.buf = b /\ t.inc = incarnation /\ t # None
  BY <1>1, Tags, Earlier DEF Typed
<1>6. Places(b, all) = {i \in 1 .. Len(all) : all[i] = t}
  BY <1>3 DEF Places, Tagged, Tag
<1> HIDE DEF all, one, t
<1>7. ASSUME NEW i \in 1 .. Len(all), NEW j \in 1 .. Len(all), all[i] = t, all[j] = t
      PROVE  i = j
  <2>1. CASE i \in 1 .. Len(A) /\ all[i] = A[i]
    <3>1. A[i].inc = incarnation /\ A[i] # h /\ \A l \in 1 .. Len(B) : A[i] # B[l]
      BY <1>1, <1>5, <1>7, <2>1 DEF Apart
    <3>2. j \in 1 .. Len(A) /\ all[j] = A[j]
      BY <1>10, <1>4, <1>7, <2>1, <3>1
    <3> QED BY <1>1, <1>7, <2>1, <3>1, <3>2 DEF Apart, Single
  <2>2. CASE h # None /\ i = Len(A) + 1 /\ all[i] = h
    <3>1. /\ \A l \in 1 .. Len(A) : A[l] # t
          /\ \A l \in 1 .. Len(B) : B[l] # t
      BY <1>1, <1>5, <1>7, <2>2 DEF Apart
    <3> QED BY <1>10, <1>4, <1>7, <2>2, <3>1
  <2>3. CASE i - (Len(A) + one) \in 1 .. Len(B) /\ all[i] = B[i - (Len(A) + one)]
    <3>1. h # t /\ \A l \in 1 .. Len(A) : A[l] # t
      BY <1>1, <1>5, <1>7, <2>3 DEF Apart
    <3>2. j - (Len(A) + one) \in 1 .. Len(B) /\ all[j] = B[j - (Len(A) + one)]
      BY <1>10, <1>4, <1>7, <3>1
    <3>3. i - (Len(A) + one) = j - (Len(A) + one)
      BY <1>1, <1>5, <1>7, <2>3, <3>2 DEF Apart, Single
    <3> QED BY <1>11, <1>7, <3>3
  <2> QED BY <1>10, <1>4, <2>1, <2>2, <2>3
<1>8. CASE b \in F
  <2>1. /\ \A k \in 1 .. Len(A) : A[k] # t
        /\ \A k \in 1 .. Len(B) : B[k] # t
        /\ h # t
    BY <1>1, <1>5, <1>8 DEF Apart
  <2>2. Places(b, all) = {}
    BY <1>10, <1>4, <1>6, <2>1, SMTT(30)
  <2> QED BY <1>8, <2>2, FS_EmptySet DEF all, Whole
<1>9. CASE b \notin F
  <2>1. \E i \in 1 .. Len(all) : all[i] = t
    <3>1. CASE h = t
      <4>1. h # None /\ Len(A) + 1 \in 1 .. Len(all)
        BY <1>11, <1>5, <3>1
      <4> QED BY <1>12, <3>1, <4>1
    <3>2. CASE \E k \in 1 .. Len(A) : A[k] = t
      <4>1. 1 .. Len(A) \subseteq 1 .. Len(all)
        BY <1>11
      <4> QED BY <1>12, <3>2, <4>1
    <3>3. CASE \E k \in 1 .. Len(B) : B[k] = t
      <4>1. PICK k \in 1 .. Len(B) : B[k] = t
        BY <3>3
      <4>2. Len(A) + one + k \in 1 .. Len(all)
        BY <1>11, <4>1
      <4> QED BY <1>12, <4>1, <4>2
    <3> QED BY <1>1, <1>9, <3>1, <3>2, <3>3 DEF Within, t
  <2>2. PICK i \in 1 .. Len(all) : all[i] = t
    BY <2>1
  <2>3. Places(b, all) = {i}
    BY <1>6, <1>7, <2>2
  <2> QED BY <1>9, <2>3, FS_Singleton DEF all, Whole
<1> QED BY <1>8, <1>9

-----------------------------------------------------------------------------
(* Buffers of an earlier incarnation: none in a queue, or one in a         *)
(* thread's hands and the queue it puts into.                              *)
NoneOld(A, n) == \A k \in 1 .. Len(A) : ~(A[k].inc < n)
Old(h, n) == h # None /\ h.inc < n
OneOld(h, B, n) ==
    /\ \A k, l \in 1 .. Len(B) : B[k].inc < n /\ B[l].inc < n => k = l
    /\ Old(h, n) => NoneOld(B, n)

LEMMA OldGuest ==
  ASSUME NEW S, NEW A \in Seq(Buffer(S)), NEW n \in 0 .. MaxResets, NEW b \in S
  PROVE  NoneOld(A, n) => NoneOld(Append(A, Tag(b, n)), n)
<1> SUFFICES ASSUME NoneOld(A, n) PROVE NoneOld(Append(A, Tag(b, n)), n)
  OBVIOUS
<1> DEFINE e == Tag(b, n)
           C == Append(A, e)
<1>1. e \in Buffer(S) /\ e.inc = n /\ ~(n < n)
  BY Tags, Earlier
<1> HIDE DEF e
<1>2. /\ Len(A) \in Nat /\ Len(C) = Len(A) + 1 /\ C[Len(A) + 1] = e
      /\ \A k \in 1 .. Len(A) : C[k] = A[k]
  BY <1>1, AppendTo
<1> HIDE DEF C
<1>3. \A k \in 1 .. Len(C) : k \in 1 .. Len(A) \/ k = Len(A) + 1
  BY <1>2
<1>4. NoneOld(C, n)
  BY <1>1, <1>2, <1>3 DEF NoneOld
<1> QED BY <1>4 DEF C, e

LEMMA OldReturned ==
  ASSUME NEW S, NEW B \in Seq(Buffer(S)), NEW h, NEW n, B # <<>>
  PROVE  OneOld(h, B, n) => OneOld(h, Tail(B), n)
<1> SUFFICES ASSUME OneOld(h, B, n) PROVE OneOld(h, Tail(B), n)
  OBVIOUS
<1> DEFINE C == Tail(B)
<1>1. \A k \in 1 .. Len(C) : k + 1 \in 1 .. Len(B) /\ C[k] = B[k + 1]
  BY TailOf
<1>2. \A k, l \in 1 .. Len(C) : k + 1 = l + 1 => k = l
  OBVIOUS
<1> HIDE DEF C
<1>3. ASSUME NEW k \in 1 .. Len(C), NEW l \in 1 .. Len(C), C[k].inc < n, C[l].inc < n
      PROVE  k = l
  <2>1. k + 1 \in 1 .. Len(B) /\ l + 1 \in 1 .. Len(B) /\ B[k + 1].inc < n /\ B[l + 1].inc < n
    BY <1>1, <1>3
  <2>2. k + 1 = l + 1
    BY <2>1, Zenon DEF OneOld
  <2> QED BY <1>2, <2>2
<1>4. Old(h, n) => NoneOld(C, n)
  BY <1>1 DEF OneOld, NoneOld
<1>5. OneOld(h, C, n)
  BY <1>3, <1>4 DEF OneOld
<1> QED BY <1>5 DEF C

LEMMA OldThreadTakes ==
  ASSUME NEW S, NEW A \in Seq(Buffer(S)), NEW B, NEW n \in 0 .. MaxResets, A # <<>>
  PROVE  /\ NoneOld(A, n) => NoneOld(Tail(A), n)
         /\ NoneOld(A, n) /\ OneOld(None, B, n) => OneOld(Head(A), B, n)
<1>1. ASSUME NoneOld(A, n) PROVE NoneOld(Tail(A), n)
  <2> DEFINE C == Tail(A)
  <2>1. \A k \in 1 .. Len(C) : k + 1 \in 1 .. Len(A) /\ C[k] = A[k + 1]
    BY TailOf
  <2> HIDE DEF C
  <2>2. NoneOld(C, n)
    BY <1>1, <2>1 DEF NoneOld
  <2> QED BY <2>2 DEF C
<1>2. ASSUME NoneOld(A, n), OneOld(None, B, n) PROVE OneOld(Head(A), B, n)
  <2>1. Head(A) = A[1] /\ 1 \in 1 .. Len(A)
    BY TailOf
  <2> QED BY <1>2, <2>1 DEF NoneOld, OneOld, Old
<1> QED BY <1>1, <1>2

LEMMA OldThreadPuts ==
  ASSUME NEW S, NEW B \in Seq(Buffer(S)), NEW h \in Buffer(S), h # None, NEW n \in 0 .. MaxResets,
         OneOld(h, B, n)
  PROVE  OneOld(None, Append(B, h), n)
<1> DEFINE C == Append(B, h)
<1>1. /\ Len(B) \in Nat /\ Len(C) = Len(B) + 1 /\ C[Len(B) + 1] = h
      /\ \A k \in 1 .. Len(B) : C[k] = B[k]
  BY AppendTo
<1> HIDE DEF C
<1>2. \A k \in 1 .. Len(C) : k \in 1 .. Len(B) \/ k = Len(B) + 1
  BY <1>1
<1>3. ASSUME NEW k \in 1 .. Len(C), NEW l \in 1 .. Len(C), C[k].inc < n, C[l].inc < n
      PROVE  k = l
  <2>1. CASE k \in 1 .. Len(B) /\ l \in 1 .. Len(B)
    <3>1. B[k].inc < n /\ B[l].inc < n
      BY <1>1, <1>3, <2>1
    <3> QED BY <2>1, <3>1, Zenon DEF OneOld
  <2>2. CASE k = Len(B) + 1 \/ l = Len(B) + 1
    <3>1. Old(h, n)
      BY <1>1, <1>3, <2>2 DEF Old
    <3>2. \A j \in 1 .. Len(B) : ~(C[j].inc < n)
      BY <1>1, <3>1 DEF OneOld, NoneOld
    <3> QED BY <1>2, <1>3, <3>2
  <2> QED BY <1>2, <2>1, <2>2
<1>4. OneOld(None, C, n)
  BY <1>3 DEF OneOld, Old
<1> QED BY <1>4 DEF C

LEMMA NothingOld ==
  ASSUME NEW h, NEW n
  PROVE  NoneOld(<<>>, n) /\ OneOld(h, <<>>, n)
<1> DEFINE empty == <<>>
<1>1. 1 .. Len(empty) = {}
  OBVIOUS
<1> HIDE DEF empty
<1>2. NoneOld(empty, n) /\ OneOld(h, empty, n)
  BY <1>1 DEF NoneOld, OneOld
<1> QED BY <1>2 DEF empty

LEMMA NoStale ==
  ASSUME NEW S, NEW A \in Seq(Buffer(S)), NoneOld(A, incarnation)
  PROVE  Stale(A) = {}
<1>1. DOMAIN A = 1 .. Len(A)
  BY LenProperties
<1> QED BY <1>1 DEF Stale, NoneOld

LEMMA OneStale ==
  ASSUME NEW S, NEW h \in Buffer(S) \cup {None}, NEW B \in Seq(Buffer(S)),
         incarnation \in 0 .. MaxResets, OneOld(h, B, incarnation)
  PROVE  Cardinality(Stale(Hold(h) \o B)) <= incarnation
<1> DEFINE H == Hold(h)
           all == H \o B
<1>1. H \in Seq(Buffer(S)) /\ Len(H) = Held(h) /\ (h # None => H[1] = h)
  BY HoldIs DEF Held
<1>2. Held(h) \in 0 .. 1 /\ (h # None <=> Held(h) = 1)
  BY HeldIs
<1> HIDE DEF H
<1>3. /\ all \in Seq(Buffer(S)) /\ Len(all) = Len(H) + Len(B)
      /\ \A i \in 1 .. Len(H) : all[i] = H[i]
      /\ \A i \in 1 .. Len(B) : all[Len(H) + i] = B[i]
      /\ Len(H) \in Nat /\ Len(B) \in Nat
  <2>1. H \in Seq(Buffer(S))
    BY <1>1
  <2> QED BY <2>1, TwoParts
<1> HIDE DEF all
<1>4. Stale(all) = {i \in 1 .. Len(all) : all[i].inc < incarnation}
  BY <1>3, LenProperties DEF Stale
<1>5. \A i \in 1 .. Len(all) : all[i] \in Buffer(S) /\ all[i].inc \in 0 .. MaxResets
  BY <1>3, ElementsOf, Earlier
<1>6. incarnation \in Nat /\ MaxResets \in Nat
  BY NetworkAssumption DEF NetworkAssumption
<1>7. CASE incarnation = 0
  <2>1. Stale(all) = {}
    BY <1>4, <1>5, <1>6, <1>7
  <2>2. Cardinality(Stale(all)) = 0
    BY <2>1, FS_EmptySet
  <2> QED BY <1>7, <2>2 DEF all, H
<1>8. CASE incarnation # 0
  <2>1. ASSUME NEW i \in Stale(all), NEW j \in Stale(all), i <= j PROVE i = j
    <3>1. i \in 1 .. Len(all) /\ j \in 1 .. Len(all) /\ all[i].inc < incarnation /\ all[j].inc < incarnation
      BY <1>4, <2>1
    <3>2. CASE i <= Len(H)
      <4>1. h # None /\ i = 1 /\ all[i] = h /\ Len(H) = 1
        BY <1>1, <1>2, <1>3, <3>1, <3>2
      <4>2. \A k \in 1 .. Len(B) : ~(B[k].inc < incarnation)
        BY <3>1, <4>1 DEF OneOld, Old, NoneOld
      <4>3. CASE j > 1
        <5>1. j - 1 \in 1 .. Len(B) /\ Len(H) + (j - 1) = j
          BY <1>3, <3>1, <4>1, <4>3
        <5>2. all[j] = B[j - 1]
          BY <1>3, <5>1
        <5> QED BY <3>1, <4>2, <5>1, <5>2
      <4> QED BY <3>1, <4>1, <4>3
    <3>3. CASE i > Len(H)
      <4>1. /\ i - Len(H) \in 1 .. Len(B) /\ Len(H) + (i - Len(H)) = i
            /\ j - Len(H) \in 1 .. Len(B) /\ Len(H) + (j - Len(H)) = j
        BY <1>3, <2>1, <3>1, <3>3
      <4>2. all[i] = B[i - Len(H)] /\ all[j] = B[j - Len(H)]
        BY <1>3, <4>1
      <4>3. i - Len(H) = j - Len(H)
        BY <3>1, <4>1, <4>2 DEF OneOld
      <4> QED BY <1>3, <3>1, <4>3
    <3> QED BY <1>3, <3>1, <3>2, <3>3
  <2>2. \A i, j \in Stale(all) : i = j
    <3> SUFFICES ASSUME NEW i \in Stale(all), NEW j \in Stale(all) PROVE i = j
      OBVIOUS
    <3>1. i \in Int /\ j \in Int
      BY <1>4
    <3> QED BY <2>1, <3>1
  <2>3. CASE Stale(all) = {}
    <3>1. Cardinality(Stale(all)) = 0
      BY <2>3, FS_EmptySet
    <3> QED BY <1>6, <3>1 DEF all, H
  <2>4. CASE Stale(all) # {}
    <3>1. PICK i \in Stale(all) : TRUE
      BY <2>4
    <3>2. Stale(all) = {i}
      BY <2>2, <3>1
    <3>3. Cardinality(Stale(all)) = 1
      BY <3>2, FS_Singleton
    <3> QED BY <1>6, <1>8, <3>3 DEF all, H
  <2> QED BY <2>3, <2>4
<1> QED BY <1>7, <1>8

-----------------------------------------------------------------------------
(* Types: they hold of a torn channel as well.                             *)

Slots(buffers) == Buffer(buffers) \cup {None}

Shape ==
    /\ guestToHostQ \in RingOf(TransmitSpace, Slots(TxBuffers))
    /\ guestToHostReturnQ \in RingOf(TransmitSpace, Slots(TxBuffers))
    /\ hostToGuestSupplyQ \in RingOf(ReceiveSpace, Slots(RxBuffers))
    /\ hostToGuestQ \in RingOf(ReceiveSpace, Slots(RxBuffers))
    /\ incarnation \in 0 .. MaxResets
    /\ txFree \subseteq TxBuffers /\ rxFree \subseteq RxBuffers
    /\ tPC \in {"loop", "take", "taken", "send", "full"}
    /\ tBuffer \in Slots(TxBuffers) /\ tIndex \in 0 .. TransmitSpace
    /\ rPC \in {"poll", "take", "taken", "put", "full"}
    /\ rBuffer \in Slots(RxBuffers) /\ rIndex \in 0 .. ReceiveSpace
    /\ reset_request \in BOOLEAN
    /\ resetPC \in {"none", "transmit", "transmitted", "return", "returned", "supply",
                    "supplied", "receive"}
    /\ torn \in BOOLEAN

LEMMA Spaces ==
  /\ TransmitSpace \in Nat \ {0} /\ ReceiveSpace \in Nat \ {0} /\ MaxResets \in Nat
BY NetworkAssumption DEF NetworkAssumption

LEMMA InitShape == NetInit => Shape
<1> SUFFICES ASSUME NetInit PROVE Shape
  OBVIOUS
<1>1. /\ NewQueue(TransmitSpace, None) \in RingOf(TransmitSpace, Slots(TxBuffers))
      /\ NewQueue(ReceiveSpace, None) \in RingOf(ReceiveSpace, Slots(RxBuffers))
  BY Spaces, RingNew DEF Slots
<1>2. None \in Slots(TxBuffers) /\ None \in Slots(RxBuffers)
  BY DEF Slots
<1>3. 0 \in 0 .. MaxResets /\ 0 \in 0 .. TransmitSpace /\ 0 \in 0 .. ReceiveSpace
  BY Spaces
<1>4. reset_request \in BOOLEAN /\ torn \in BOOLEAN
  BY DEF NetInit
<1>5. /\ guestToHostQ \in RingOf(TransmitSpace, Slots(TxBuffers))
      /\ guestToHostReturnQ \in RingOf(TransmitSpace, Slots(TxBuffers))
      /\ hostToGuestSupplyQ \in RingOf(ReceiveSpace, Slots(RxBuffers))
      /\ hostToGuestQ \in RingOf(ReceiveSpace, Slots(RxBuffers))
  BY <1>1 DEF NetInit
<1> QED BY <1>2, <1>3, <1>4, <1>5 DEF NetInit, Shape

LEMMA GuestShape ==
  ASSUME Shape, torn' \in BOOLEAN,
         GuestTransmit \/ GuestTakeReturned \/ GuestSupply \/ GuestTakePacket \/ RequestReset
  PROVE  Shape'
<1> USE Spaces
<1>1. /\ \A b \in TxBuffers : Tagged(b) \in Slots(TxBuffers)
      /\ \A b \in RxBuffers : Tagged(b) \in Slots(RxBuffers)
  BY DEF Shape, Tagged, Slots, Buffer
<1>2. /\ \A b \in Slots(TxBuffers) : Kept(b) \subseteq TxBuffers
      /\ \A b \in Slots(RxBuffers) : Kept(b) \subseteq RxBuffers
  BY DEF Shape, Slots, Buffer, Kept, None
<1>3. CASE GuestTransmit
  <2>1. PICK b \in txFree : guestToHostQ' = Put(guestToHostQ, Tagged(b)) /\ txFree' = txFree \ {b}
    BY <1>3 DEF GuestTransmit
  <2>2. EmbQueueSpace(guestToHostQ) > 0
    BY <1>3 DEF GuestTransmit
  <2>3. guestToHostQ' \in RingOf(TransmitSpace, Slots(TxBuffers))
    BY <1>1, <2>1, <2>2, RingPut DEF Shape
  <2> QED BY <1>3, <2>1, <2>3 DEF GuestTransmit, Shape, transmit, receive, reset
<1>4. CASE GuestTakeReturned
  <2>1. /\ guestToHostReturnQ' \in RingOf(TransmitSpace, Slots(TxBuffers))
        /\ First(guestToHostReturnQ) \in Slots(TxBuffers)
    BY <1>4, RingTake, RingStores DEF GuestTakeReturned, Shape
  <2> QED BY <1>2, <1>4, <2>1 DEF GuestTakeReturned, Shape, transmit, receive, reset
<1>5. CASE GuestSupply
  <2>1. PICK b \in rxFree : /\ hostToGuestSupplyQ' = Put(hostToGuestSupplyQ, Tagged(b))
                            /\ rxFree' = rxFree \ {b}
    BY <1>5 DEF GuestSupply
  <2>2. EmbQueueSpace(hostToGuestSupplyQ) > 0
    BY <1>5 DEF GuestSupply
  <2>3. hostToGuestSupplyQ' \in RingOf(ReceiveSpace, Slots(RxBuffers))
    BY <1>1, <2>1, <2>2, RingPut DEF Shape
  <2> QED BY <1>5, <2>1, <2>3 DEF GuestSupply, Shape, transmit, receive, reset
<1>6. CASE GuestTakePacket
  <2>1. /\ hostToGuestQ' \in RingOf(ReceiveSpace, Slots(RxBuffers))
        /\ First(hostToGuestQ) \in Slots(RxBuffers)
    BY <1>6, RingTake, RingStores DEF GuestTakePacket, Shape
  <2> QED BY <1>2, <1>6, <2>1 DEF GuestTakePacket, Shape, transmit, receive, reset
<1>7. CASE RequestReset
  BY <1>7 DEF RequestReset, Shape, queues, transmit, receive
<1> QED BY <1>3, <1>4, <1>5, <1>6, <1>7

LEMMA ThreadShape ==
  ASSUME Shape, torn' \in BOOLEAN,
         \/ TransmitTest \/ TransmitCopy \/ TransmitTake \/ TransmitFill \/ TransmitPut
         \/ NetworkChannelReceiver
  PROVE  Shape'
<1> USE Spaces DEF Shape
<1>1. /\ guestToHostQ.take_index \in 0 .. TransmitSpace
      /\ First(guestToHostQ) \in Slots(TxBuffers)
      /\ StoreTakeIndex(guestToHostQ, After(guestToHostQ, tIndex))
            \in RingOf(TransmitSpace, Slots(TxBuffers))
  BY RingStores
<1>2. /\ guestToHostReturnQ.put_index \in 0 .. TransmitSpace
      /\ Filling(guestToHostReturnQ, tBuffer) \in RingOf(TransmitSpace, Slots(TxBuffers))
      /\ StorePutIndex(guestToHostReturnQ, After(guestToHostReturnQ, tIndex))
            \in RingOf(TransmitSpace, Slots(TxBuffers))
  BY RingStores, RingFilling
<1>3. /\ hostToGuestSupplyQ.take_index \in 0 .. ReceiveSpace
      /\ First(hostToGuestSupplyQ) \in Slots(RxBuffers)
      /\ StoreTakeIndex(hostToGuestSupplyQ, After(hostToGuestSupplyQ, rIndex))
            \in RingOf(ReceiveSpace, Slots(RxBuffers))
  BY RingStores
<1>4. /\ hostToGuestQ.put_index \in 0 .. ReceiveSpace
      /\ Filling(hostToGuestQ, rBuffer) \in RingOf(ReceiveSpace, Slots(RxBuffers))
      /\ StorePutIndex(hostToGuestQ, After(hostToGuestQ, rIndex))
            \in RingOf(ReceiveSpace, Slots(RxBuffers))
  BY RingStores, RingFilling
<1>5. None \in Slots(TxBuffers) /\ None \in Slots(RxBuffers)
  BY DEF Slots
<1>6. CASE TransmitTest \/ TransmitCopy \/ TransmitTake
  BY <1>1, <1>6 DEF TransmitTest, TransmitCopy, TransmitTake, queues, guest, receive, reset
<1>7. CASE TransmitFill \/ TransmitPut
  BY <1>2, <1>5, <1>7 DEF TransmitFill, TransmitPut, guest, receive, reset
<1>8. CASE ReceivePacket \/ ReceiveCopy \/ ReceiveTake
  BY <1>3, <1>8 DEF ReceivePacket, ReceiveCopy, ReceiveTake, queues, guest, transmit, reset
<1>9. CASE ReceiveFill \/ ReceivePut
  BY <1>4, <1>5, <1>9 DEF ReceiveFill, ReceivePut, guest, transmit, reset
<1> QED BY <1>6, <1>7, <1>8, <1>9 DEF NetworkChannelReceiver

ResetStep ==
    \/ ResetTransmitPut \/ ResetTransmitTake \/ ResetReturnPut \/ ResetReturnTake
    \/ ResetSupplyPut \/ ResetSupplyTake \/ ResetReceivePut \/ ResetReceiveTake

LEMMA ResetShape ==
  ASSUME Shape, torn' \in BOOLEAN, ResetStep
  PROVE  Shape'
<1> USE Spaces DEF Shape
<1>1. /\ StorePutIndex(guestToHostQ, 0) \in RingOf(TransmitSpace, Slots(TxBuffers))
      /\ StoreTakeIndex(guestToHostQ, 0) \in RingOf(TransmitSpace, Slots(TxBuffers))
      /\ StorePutIndex(guestToHostReturnQ, 0) \in RingOf(TransmitSpace, Slots(TxBuffers))
      /\ StoreTakeIndex(guestToHostReturnQ, 0) \in RingOf(TransmitSpace, Slots(TxBuffers))
  BY RingReset
<1>2. /\ StorePutIndex(hostToGuestSupplyQ, 0) \in RingOf(ReceiveSpace, Slots(RxBuffers))
      /\ StoreTakeIndex(hostToGuestSupplyQ, 0) \in RingOf(ReceiveSpace, Slots(RxBuffers))
      /\ StorePutIndex(hostToGuestQ, 0) \in RingOf(ReceiveSpace, Slots(RxBuffers))
      /\ StoreTakeIndex(hostToGuestQ, 0) \in RingOf(ReceiveSpace, Slots(RxBuffers))
  BY RingReset
<1>3. CASE ResetTransmitPut \/ ResetTransmitTake
  BY <1>1, <1>3 DEF ResetTransmitPut, ResetTransmitTake, guest, transmit, receive
<1>4. CASE ResetReturnPut \/ ResetReturnTake
  BY <1>1, <1>4 DEF ResetReturnPut, ResetReturnTake, guest, transmit, receive
<1>5. CASE ResetSupplyPut \/ ResetSupplyTake
  BY <1>2, <1>5 DEF ResetSupplyPut, ResetSupplyTake, guest, transmit, receive
<1>6. CASE ResetReceivePut \/ ResetReceiveTake
  BY <1>2, <1>6 DEF ResetReceivePut, ResetReceiveTake, guest, transmit, receive
<1> QED BY <1>3, <1>4, <1>5, <1>6 DEF ResetStep

(* The steps that only the signals take part in. *)
Aside == EmulatorSignals \/ HandlerSignals \/ TransmitReturn \/ TransmitDefer \/ PollSignals

LEMMA AsideStays == Aside => UNCHANGED <<queues, guest, transmit, receive, reset>>
BY DEF Aside, EmulatorSignals, HandlerSignals, TransmitReturn, TransmitDefer, PollSignals

LEMMA NetSteps ==
  NetStep => \/ GuestTransmit \/ GuestTakeReturned \/ GuestSupply \/ GuestTakePacket \/ RequestReset
             \/ Aside
             \/ TransmitTest \/ TransmitCopy \/ TransmitTake \/ TransmitFill \/ TransmitPut
             \/ NetworkChannelReceiver \/ ResetStep
BY DEF NetStep, Aside, NetworkChannelTransmitter, PollNetwork, ResetStep

LEMMA NextShape == Shape /\ [NetNext]_netVars => Shape'
<1> SUFFICES ASSUME Shape, [NetNext]_netVars PROVE Shape'
  OBVIOUS
<1>1. CASE UNCHANGED netVars \/ Torn
  BY <1>1 DEF Torn, netVars, Shape, queues, guest, transmit, receive, reset
<1>2. CASE Watched(NetStep)
  <2>1. NetStep /\ torn' \in BOOLEAN
    BY <1>2 DEF Watched, Overlap
  <2>2. CASE Aside
    BY <2>1, <2>2, AsideStays DEF Shape, queues, guest, transmit, receive, reset
  <2> QED BY <2>1, <2>2, NetSteps, GuestShape, ThreadShape, ResetShape
<1> QED BY <1>1, <1>2 DEF NetNext


-----------------------------------------------------------------------------
(* The inductive invariant of a channel that is followed                   *)

tHand == IF tPC \in {"send", "full"} THEN tBuffer ELSE None
rHand == IF rPC \in {"put", "full"} THEN rBuffer ELSE None

Both ==
    /\ Circulate(guestToHost, tHand, guestToHostReturn, txFree, incarnation, TxBuffers)
    /\ Circulate(supply, rHand, hostToGuest, rxFree, incarnation, RxBuffers)
(* What a thread holds is a buffer, and the guest waits for the reset.     *)
Placed ==
    /\ tPC \in {"send", "full"} => tBuffer # None
    /\ rPC \in {"put", "full"} => rBuffer # None
    /\ reset_request => txFree = TxBuffers /\ rxFree = RxBuffers
    /\ resetPC # "none" => reset_request
(* What is old is gone from the queues in the order they are reset.        *)
Renewed ==
    /\ (~reset_request \/ resetPC # "none") => NoneOld(guestToHost, incarnation)
    /\ (~reset_request \/ resetPC \in {"return", "returned", "supply", "supplied", "receive"})
          => OneOld(tHand, guestToHostReturn, incarnation)
    /\ (~reset_request \/ resetPC \in {"supply", "supplied", "receive"})
          => NoneOld(supply, incarnation)
    /\ (~reset_request \/ resetPC = "receive") => OneOld(rHand, hostToGuest, incarnation)
(* A take has copied the first element, a put has filled the slot at the   *)
(* put index.                                                              *)
Taking(q, s, b, i) == s # <<>> /\ b = Head(s) /\ i = q.take_index
Ready(q, b, i) == i = q.put_index /\ q.element[i] = b
(* The indexes that the threads have loaded are the queues', and there is  *)
(* room for what they hold.                                                *)
Ringed ==
    /\ tPC = "taken" => Taking(guestToHostQ, guestToHost, tBuffer, tIndex)
    /\ tPC # "loop" => Len(guestToHostReturn) < TransmitSpace
    /\ tPC = "full" => Ready(guestToHostReturnQ, tBuffer, tIndex)
    /\ rPC = "taken" => Taking(hostToGuestSupplyQ, supply, rBuffer, rIndex)
    /\ rPC # "poll" => Len(hostToGuest) < ReceiveSpace
    /\ rPC = "full" => Ready(hostToGuestQ, rBuffer, rIndex)
    /\ resetPC = "transmit" => guestToHostQ.put_index = 0
    /\ resetPC = "return" => guestToHostReturnQ.put_index = 0
    /\ resetPC = "supply" => hostToGuestSupplyQ.put_index = 0
    /\ resetPC = "receive" => hostToGuestQ.put_index = 0
Followed == Both /\ Placed /\ Renewed /\ Ringed /\ ~Overlap

LEMMA InitFollowed == NetInit => Followed
<1> SUFFICES ASSUME NetInit PROVE Followed
  OBVIOUS
<1> DEFINE empty == <<>>
<1>1. \A T : empty \in Seq(T)
  OBVIOUS
<1>2. 1 .. Len(empty) = {}
  OBVIOUS
<1>3. \A h, n : NoneOld(empty, n) /\ OneOld(h, empty, n)
  BY NothingOld
<1>4. None.inc = -1
  BY DEF None
<1>5. /\ Elements(NewQueue(TransmitSpace, None)) = empty
      /\ Elements(NewQueue(ReceiveSpace, None)) = empty
  BY Spaces, RingNew DEF Slots
<1>6. /\ guestToHost = empty /\ guestToHostReturn = empty /\ supply = empty /\ hostToGuest = empty
      /\ tHand = None /\ rHand = None
  BY <1>5 DEF NetInit, guestToHost, guestToHostReturn, supply, hostToGuest, tHand, rHand
<1>7. /\ incarnation = 0 /\ txFree = TxBuffers /\ rxFree = RxBuffers
      /\ tPC = "loop" /\ rPC = "poll" /\ ~reset_request /\ resetPC = "none"
  BY DEF NetInit
<1> HIDE DEF empty
<1>8. \A S : Circulate(empty, None, empty, S, 0, S)
  BY <1>1, <1>2, <1>4 DEF Circulate, Typed, Past, Apart, Single, Within
<1>9. Both
  BY <1>6, <1>7, <1>8 DEF Both
<1>10. Placed /\ Ringed /\ ~Overlap
  BY <1>7 DEF Placed, Ringed, Overlap
<1>11. Renewed
  BY <1>3, <1>6, <1>7 DEF Renewed
<1> QED BY <1>9, <1>10, <1>11 DEF Followed

(* The contents of the queues follow their rings. *)
LEMMA ContentsStay ==
  ASSUME UNCHANGED resetPC
  PROVE  /\ UNCHANGED guestToHostQ => UNCHANGED guestToHost
         /\ UNCHANGED guestToHostReturnQ => UNCHANGED guestToHostReturn
         /\ UNCHANGED hostToGuestSupplyQ => UNCHANGED supply
         /\ UNCHANGED hostToGuestQ => UNCHANGED hostToGuest
BY DEF guestToHost, guestToHostReturn, supply, hostToGuest

LEMMA FollowedStays ==
  ASSUME Followed, UNCHANGED <<queues, guest, transmit, receive, reset>>
  PROVE  Followed'
<1>1. /\ UNCHANGED <<queues, guest, transmit, receive, reset>>
      /\ UNCHANGED <<guestToHost, guestToHostReturn, supply, hostToGuest>>
  BY ContentsStay DEF queues, reset
<1>2. Both' /\ Renewed'
  BY <1>1 DEF Followed, Both, Renewed, guest, transmit, receive, reset, tHand, rHand
<1>3. Placed' /\ Overlap' = Overlap
  BY <1>1 DEF Followed, Placed, Overlap, guest, transmit, receive, reset
<1>4. Ringed'
  BY <1>1 DEF Followed, Ringed, Taking, Ready, queues, transmit, receive, reset
<1> QED BY <1>2, <1>3, <1>4 DEF Followed

LEMMA ShapeOf ==
  ASSUME Followed
  PROVE  /\ guestToHost \in Seq(Buffer(TxBuffers)) /\ guestToHostReturn \in Seq(Buffer(TxBuffers))
         /\ supply \in Seq(Buffer(RxBuffers)) /\ hostToGuest \in Seq(Buffer(RxBuffers))
         /\ tHand \in Buffer(TxBuffers) \cup {None} /\ rHand \in Buffer(RxBuffers) \cup {None}
BY DEF Followed, Both, Circulate, Typed

(* The first element stays when one is put behind it. *)
LEMMA HeadStays ==
  ASSUME NEW S, NEW s \in Seq(S), NEW e \in S, s # <<>>
  PROVE  Append(s, e) # <<>> /\ Head(Append(s, e)) = Head(s)
OBVIOUS

(* The guest's steps: it is at hand only while no reset is asked for.      *)
LEMMA GuestFollowed ==
  ASSUME Shape, Followed,
         GuestTransmit \/ GuestTakeReturned \/ GuestSupply \/ GuestTakePacket \/ RequestReset
  PROVE  Followed'
<1> USE Spaces
<1> DEFINE n == incarnation
<1>1. /\ Both /\ Placed /\ Renewed /\ Ringed /\ n \in 0 .. MaxResets
      /\ ~reset_request /\ resetPC = "none"
  <2>1. ~reset_request
    BY DEF GuestTransmit, GuestTakeReturned, GuestSupply, GuestTakePacket, RequestReset, AtGuest
  <2> QED BY <2>1 DEF Followed, Placed, Shape
<1>2. CASE GuestTransmit
  <2>1. PICK b \in txFree : /\ guestToHostQ' = Put(guestToHostQ, Tag(b, n))
                            /\ txFree' = txFree \ {b}
    BY <1>2 DEF GuestTransmit, Tagged, Tag
  <2>2. /\ EmbQueueSpace(guestToHostQ) > 0
        /\ UNCHANGED <<guestToHostReturnQ, hostToGuestSupplyQ, hostToGuestQ, incarnation, rxFree,
                       transmit, receive, reset>>
    BY <1>2 DEF GuestTransmit
  <2>3. Tag(b, n) \in Buffer(TxBuffers) /\ Tag(b, n) \in Slots(TxBuffers)
    BY <1>1, <2>1, Tags DEF Shape, Slots
  <2>4. /\ Elements(guestToHostQ') = Append(Elements(guestToHostQ), Tag(b, n))
        /\ guestToHostQ'.take_index = guestToHostQ.take_index
    BY <2>1, <2>2, <2>3, RingPut DEF Shape
  <2>5. /\ guestToHost' = Append(guestToHost, Tag(b, n))
        /\ UNCHANGED <<guestToHostReturn, supply, hostToGuest, tHand, rHand>>
    BY <1>1, <2>2, <2>4, ContentsStay
    DEF guestToHost, reset, transmit, receive, tHand, rHand
  <2>6. Circulate(Append(guestToHost, Tag(b, n)), tHand, guestToHostReturn, txFree \ {b}, n, TxBuffers)
    BY <1>1, GuestPuts DEF Both
  <2>7. Both'
    BY <1>1, <2>1, <2>2, <2>5, <2>6 DEF Both
  <2>8. NoneOld(guestToHost, n) => NoneOld(Append(guestToHost, Tag(b, n)), n)
    BY <1>1, <2>1, ShapeOf, OldGuest DEF Shape
  <2>9. Renewed'
    BY <1>1, <2>2, <2>5, <2>8 DEF Renewed, reset
  <2>10. Placed' /\ Overlap' = Overlap
    BY <1>1, <2>2 DEF Placed, Overlap, transmit, receive, reset
  <2>11. Ringed'
    <3>1. guestToHost # <<>> => guestToHost' # <<>> /\ Head(guestToHost') = Head(guestToHost)
      BY <2>3, <2>5, ShapeOf, HeadStays
    <3> QED BY <1>1, <2>2, <2>4, <2>5, <3>1 DEF Ringed, Taking, Ready, transmit, receive, reset
  <2> QED BY <2>7, <2>9, <2>10, <2>11 DEF Followed
<1>3. CASE GuestTakeReturned
  <2>1. /\ EmbQueueFilled(guestToHostReturnQ) > 0
        /\ guestToHostReturnQ' = Take(guestToHostReturnQ)
        /\ txFree' = txFree \cup Kept(First(guestToHostReturnQ))
        /\ UNCHANGED <<guestToHostQ, hostToGuestSupplyQ, hostToGuestQ, incarnation, rxFree,
                       transmit, receive, reset>>
    BY <1>3 DEF GuestTakeReturned
  <2>2. /\ Elements(guestToHostReturnQ') = Tail(Elements(guestToHostReturnQ))
        /\ First(guestToHostReturnQ) = Head(Elements(guestToHostReturnQ))
        /\ Elements(guestToHostReturnQ) # <<>>
        /\ guestToHostReturnQ'.put_index = guestToHostReturnQ.put_index
        /\ guestToHostReturnQ'.element = guestToHostReturnQ.element
    BY <2>1, RingTake DEF Shape
  <2>3. /\ guestToHostReturn # <<>> /\ guestToHostReturn' = Tail(guestToHostReturn)
        /\ txFree' = txFree \cup (IF Head(guestToHostReturn).inc = n
                                  THEN {Head(guestToHostReturn).buf} ELSE {})
        /\ UNCHANGED <<guestToHost, supply, hostToGuest, tHand, rHand>>
    BY <1>1, <2>1, <2>2, ContentsStay
    DEF guestToHostReturn, reset, transmit, receive, tHand, rHand, Kept
  <2>4. Circulate(guestToHost, tHand, Tail(guestToHostReturn),
                  txFree \cup (IF Head(guestToHostReturn).inc = n
                               THEN {Head(guestToHostReturn).buf} ELSE {}), n, TxBuffers)
    BY <1>1, <2>3, GuestTakes DEF Both
  <2>5. Both'
    BY <1>1, <2>1, <2>3, <2>4 DEF Both
  <2>6. OneOld(tHand, guestToHostReturn, n) => OneOld(tHand, Tail(guestToHostReturn), n)
    BY <1>1, <2>3, ShapeOf, OldReturned
  <2>7. Renewed'
    BY <1>1, <2>1, <2>3, <2>6 DEF Renewed, reset
  <2>8. Placed' /\ Overlap' = Overlap
    BY <1>1, <2>1 DEF Placed, Overlap, transmit, receive, reset
  <2>9. Ringed'
    <3>1. Len(guestToHostReturn) < TransmitSpace => Len(guestToHostReturn') < TransmitSpace
      BY <2>3, ShapeOf, TailOf
    <3> QED BY <1>1, <2>1, <2>2, <2>3, <3>1 DEF Ringed, Taking, Ready, transmit, receive, reset
  <2> QED BY <2>5, <2>7, <2>8, <2>9 DEF Followed
<1>4. CASE GuestSupply
  <2>1. PICK b \in rxFree : /\ hostToGuestSupplyQ' = Put(hostToGuestSupplyQ, Tag(b, n))
                            /\ rxFree' = rxFree \ {b}
    BY <1>4 DEF GuestSupply, Tagged, Tag
  <2>2. /\ EmbQueueSpace(hostToGuestSupplyQ) > 0
        /\ UNCHANGED <<guestToHostQ, guestToHostReturnQ, hostToGuestQ, incarnation, txFree,
                       transmit, receive, reset>>
    BY <1>4 DEF GuestSupply
  <2>3. Tag(b, n) \in Buffer(RxBuffers) /\ Tag(b, n) \in Slots(RxBuffers)
    BY <1>1, <2>1, Tags DEF Shape, Slots
  <2>4. /\ Elements(hostToGuestSupplyQ') = Append(Elements(hostToGuestSupplyQ), Tag(b, n))
        /\ hostToGuestSupplyQ'.take_index = hostToGuestSupplyQ.take_index
    BY <2>1, <2>2, <2>3, RingPut DEF Shape
  <2>5. /\ supply' = Append(supply, Tag(b, n))
        /\ UNCHANGED <<guestToHost, guestToHostReturn, hostToGuest, tHand, rHand>>
    BY <1>1, <2>2, <2>4, ContentsStay DEF supply, reset, transmit, receive, tHand, rHand
  <2>6. Circulate(Append(supply, Tag(b, n)), rHand, hostToGuest, rxFree \ {b}, n, RxBuffers)
    BY <1>1, GuestPuts DEF Both
  <2>7. Both'
    BY <1>1, <2>1, <2>2, <2>5, <2>6 DEF Both
  <2>8. NoneOld(supply, n) => NoneOld(Append(supply, Tag(b, n)), n)
    BY <1>1, <2>1, ShapeOf, OldGuest DEF Shape
  <2>9. Renewed'
    BY <1>1, <2>2, <2>5, <2>8 DEF Renewed, reset
  <2>10. Placed' /\ Overlap' = Overlap
    BY <1>1, <2>2 DEF Placed, Overlap, transmit, receive, reset
  <2>11. Ringed'
    <3>1. supply # <<>> => supply' # <<>> /\ Head(supply') = Head(supply)
      BY <2>3, <2>5, ShapeOf, HeadStays
    <3> QED BY <1>1, <2>2, <2>4, <2>5, <3>1 DEF Ringed, Taking, Ready, transmit, receive, reset
  <2> QED BY <2>7, <2>9, <2>10, <2>11 DEF Followed
<1>5. CASE GuestTakePacket
  <2>1. /\ EmbQueueFilled(hostToGuestQ) > 0
        /\ hostToGuestQ' = Take(hostToGuestQ)
        /\ rxFree' = rxFree \cup Kept(First(hostToGuestQ))
        /\ UNCHANGED <<guestToHostQ, guestToHostReturnQ, hostToGuestSupplyQ, incarnation, txFree,
                       transmit, receive, reset>>
    BY <1>5 DEF GuestTakePacket
  <2>2. /\ Elements(hostToGuestQ') = Tail(Elements(hostToGuestQ))
        /\ First(hostToGuestQ) = Head(Elements(hostToGuestQ))
        /\ Elements(hostToGuestQ) # <<>>
        /\ hostToGuestQ'.put_index = hostToGuestQ.put_index
        /\ hostToGuestQ'.element = hostToGuestQ.element
    BY <2>1, RingTake DEF Shape
  <2>3. /\ hostToGuest # <<>> /\ hostToGuest' = Tail(hostToGuest)
        /\ rxFree' = rxFree \cup (IF Head(hostToGuest).inc = n
                                  THEN {Head(hostToGuest).buf} ELSE {})
        /\ UNCHANGED <<guestToHost, guestToHostReturn, supply, tHand, rHand>>
    BY <1>1, <2>1, <2>2, ContentsStay DEF hostToGuest, reset, transmit, receive, tHand, rHand, Kept
  <2>4. Circulate(supply, rHand, Tail(hostToGuest),
                  rxFree \cup (IF Head(hostToGuest).inc = n
                               THEN {Head(hostToGuest).buf} ELSE {}), n, RxBuffers)
    BY <1>1, <2>3, GuestTakes DEF Both
  <2>5. Both'
    BY <1>1, <2>1, <2>3, <2>4 DEF Both
  <2>6. OneOld(rHand, hostToGuest, n) => OneOld(rHand, Tail(hostToGuest), n)
    BY <1>1, <2>3, ShapeOf, OldReturned
  <2>7. Renewed'
    BY <1>1, <2>1, <2>3, <2>6 DEF Renewed, reset
  <2>8. Placed' /\ Overlap' = Overlap
    BY <1>1, <2>1 DEF Placed, Overlap, transmit, receive, reset
  <2>9. Ringed'
    <3>1. Len(hostToGuest) < ReceiveSpace => Len(hostToGuest') < ReceiveSpace
      BY <2>3, ShapeOf, TailOf
    <3> QED BY <1>1, <2>1, <2>2, <2>3, <3>1 DEF Ringed, Taking, Ready, transmit, receive, reset
  <2> QED BY <2>5, <2>7, <2>8, <2>9 DEF Followed
<1>6. CASE RequestReset
  <2>1. /\ n < MaxResets /\ incarnation' = n + 1
        /\ txFree' = TxBuffers /\ rxFree' = RxBuffers /\ reset_request' = TRUE
        /\ UNCHANGED <<queues, transmit, receive, resetPC>>
    BY <1>6 DEF RequestReset
  <2>2. UNCHANGED <<guestToHost, guestToHostReturn, supply, hostToGuest, tHand, rHand>>
    BY <2>1, ContentsStay DEF queues, transmit, receive, tHand, rHand
  <2>3. /\ Circulate(guestToHost, tHand, guestToHostReturn, TxBuffers, n + 1, TxBuffers)
        /\ Circulate(supply, rHand, hostToGuest, RxBuffers, n + 1, RxBuffers)
    BY <1>1, LispRestarts DEF Both
  <2>4. Both'
    BY <2>1, <2>2, <2>3 DEF Both
  <2>5. Placed' /\ Overlap' = Overlap
    BY <1>1, <2>1 DEF Placed, Overlap, transmit, receive
  <2>6. Renewed'
    BY <1>1, <2>1 DEF Renewed
  <2>7. Ringed'
    BY <1>1, <2>1, <2>2 DEF Ringed, Taking, Ready, queues, transmit, receive
  <2> QED BY <2>4, <2>5, <2>6, <2>7 DEF Followed
<1> QED BY <1>2, <1>3, <1>4, <1>5, <1>6


(* The transmitter's steps, as long as no reset gets in between. *)
LEMMA TransmitterFollowed ==
  ASSUME Shape, Followed, ~Overlap',
         TransmitTest \/ TransmitCopy \/ TransmitTake \/ TransmitFill \/ TransmitPut
  PROVE  Followed'
<1> USE Spaces
<1> DEFINE n == incarnation
<1>1. /\ Both /\ Placed /\ Renewed /\ Ringed /\ ~Overlap /\ n \in 0 .. MaxResets
  BY DEF Followed, Shape
<1>2. CASE TransmitTest \/ TransmitCopy
  <2>1. UNCHANGED <<queues, guest, receive, reset>> /\ tPC \in {"loop", "take"}
    BY <1>2 DEF TransmitTest, TransmitCopy
  <2>2. UNCHANGED <<guestToHost, guestToHostReturn, supply, hostToGuest>>
    BY <2>1, ContentsStay DEF queues, reset
  <2>3. tPC' \in {"loop", "take", "taken"}
    BY <1>2 DEF TransmitTest, TransmitCopy
  <2>4. UNCHANGED <<tHand, rHand>>
    BY <2>1, <2>3 DEF tHand, rHand, receive
  <2>5. Both' /\ Renewed'
    BY <1>1, <2>1, <2>2, <2>4 DEF Both, Renewed, guest, reset
  <2>6. Placed'
    BY <1>1, <2>1, <2>3 DEF Placed, guest, receive, reset
  <2>7. tPC' # "loop" => Len(guestToHostReturn') < TransmitSpace
    <3>1. CASE TransmitTest
      <4>1. CASE resetPC = "return"
        <5>1. guestToHostReturn = <<>>
          BY <4>1 DEF guestToHostReturn
        <5> QED BY <2>2, <5>1
      <4>2. CASE resetPC # "return"
        <5>1. EmbQueueSpace(guestToHostReturnQ) # 0 /\ guestToHostReturn = Elements(guestToHostReturnQ)
          BY <3>1, <4>2 DEF TransmitTest, guestToHostReturn
        <5>2. EmbQueueFilled(guestToHostReturnQ) \in 0 .. TransmitSpace /\ EmbQueueFilled(guestToHostReturnQ) # TransmitSpace
          BY <5>1, RingCounts DEF Shape
        <5>3. Len(Elements(guestToHostReturnQ)) = EmbQueueFilled(guestToHostReturnQ)
          BY RingElements DEF Shape
        <5> QED BY <2>2, <5>1, <5>2, <5>3
      <4> QED BY <4>1, <4>2
    <3>2. CASE TransmitCopy
      BY <1>1, <2>2, <3>2 DEF TransmitCopy, Ringed
    <3> QED BY <1>2, <3>1, <3>2
  <2>8. tPC' = "taken" => Taking(guestToHostQ', guestToHost', tBuffer', tIndex')
    <3> SUFFICES ASSUME tPC' = "taken" PROVE Taking(guestToHostQ', guestToHost', tBuffer', tIndex')
      OBVIOUS
    <3>1. /\ EmbQueueFilled(guestToHostQ) # 0
          /\ tIndex' = guestToHostQ.take_index /\ tBuffer' = First(guestToHostQ)
      BY <1>2 DEF TransmitTest, TransmitCopy
    <3>2. guestToHost = Elements(guestToHostQ)
      BY <2>1 DEF Overlap, guestToHost, reset
    <3> QED BY <2>1, <2>2, <3>1, <3>2, RingStoreTake DEF Taking, queues, Shape
  <2>9. Ringed'
    BY <1>1, <2>1, <2>2, <2>3, <2>7, <2>8 DEF Ringed, Taking, Ready, queues, receive, reset
  <2> QED BY <2>5, <2>6, <2>9 DEF Followed
<1>3. CASE TransmitTake
  <2>1. /\ tPC = "taken"
        /\ guestToHostQ' = StoreTakeIndex(guestToHostQ, After(guestToHostQ, tIndex))
        /\ tPC' = IF tBuffer = None THEN "loop" ELSE "send"
        /\ UNCHANGED <<guestToHostReturnQ, hostToGuestSupplyQ, hostToGuestQ, guest,
                       tBuffer, receive, reset>>
    BY <1>3 DEF TransmitTake
  <2>2. Taking(guestToHostQ, guestToHost, tBuffer, tIndex) /\ resetPC # "transmit"
    BY <1>1, <2>1 DEF Ringed, Overlap
  <2>3. guestToHost = Elements(guestToHostQ) /\ guestToHost' = Elements(guestToHostQ')
    BY <2>1, <2>2 DEF guestToHost, reset
  <2>4. EmbQueueFilled(guestToHostQ) # 0
    BY <2>2, <2>3, RingElements DEF Taking, Shape
  <2>5. guestToHost' = Tail(guestToHost) /\ guestToHost # <<>> /\ tBuffer = Head(guestToHost)
    BY <2>1, <2>2, <2>3, <2>4, RingStoreTake DEF Taking, Shape
  <2>6. tHand = None
    BY <2>1 DEF tHand
  <2>7. /\ Circulate(Tail(guestToHost), Head(guestToHost), guestToHostReturn, txFree, n, TxBuffers)
        /\ Head(guestToHost) # None
    BY <1>1, <2>5, <2>6, ThreadTakes DEF Both
  <2>8. /\ tPC' = "send" /\ tHand' = Head(guestToHost)
        /\ UNCHANGED <<guestToHostReturn, supply, hostToGuest, rHand>>
    BY <2>1, <2>5, <2>7, ContentsStay DEF tHand, rHand, receive, reset
  <2>9. Both'
    BY <1>1, <2>1, <2>5, <2>7, <2>8 DEF Both, guest
  <2>10. Placed'
    BY <1>1, <2>1, <2>5, <2>7, <2>8 DEF Placed, guest, receive, reset
  <2>11. /\ NoneOld(guestToHost, n) => NoneOld(Tail(guestToHost), n)
         /\ NoneOld(guestToHost, n) /\ OneOld(None, guestToHostReturn, n)
               => OneOld(Head(guestToHost), guestToHostReturn, n)
    BY <1>1, <2>5, ShapeOf, OldThreadTakes
  <2>12. Renewed'
    BY <1>1, <2>1, <2>5, <2>6, <2>8, <2>11 DEF Renewed, guest, reset
  <2>13. Ringed'
    BY <1>1, <2>1, <2>2, <2>8 DEF Ringed, Taking, Ready, receive, reset
  <2> QED BY <2>9, <2>10, <2>12, <2>13 DEF Followed
<1>4. CASE TransmitFill
  <2>1. /\ tPC = "send" /\ tPC' = "full"
        /\ guestToHostReturnQ' = Filling(guestToHostReturnQ, tBuffer)
        /\ tIndex' = guestToHostReturnQ.put_index
        /\ UNCHANGED <<guestToHostQ, hostToGuestSupplyQ, hostToGuestQ, guest,
                       tBuffer, receive, reset>>
    BY <1>4 DEF TransmitFill
  <2>2. /\ Elements(guestToHostReturnQ') = Elements(guestToHostReturnQ)
        /\ Ready(guestToHostReturnQ', tBuffer', tIndex')
        /\ guestToHostReturnQ'.put_index = guestToHostReturnQ.put_index
    BY <2>1, RingFilling DEF Shape, Ready
  <2>3. UNCHANGED <<guestToHost, guestToHostReturn, supply, hostToGuest, tHand, rHand>>
    BY <2>1, <2>2, ContentsStay DEF guestToHostReturn, tHand, rHand, receive, reset
  <2>4. Both' /\ Renewed'
    BY <1>1, <2>1, <2>3 DEF Both, Renewed, guest, reset
  <2>5. Placed'
    BY <1>1, <2>1 DEF Placed, guest, receive, reset
  <2>6. Ringed'
    BY <1>1, <2>1, <2>2, <2>3 DEF Ringed, Taking, Ready, receive, reset
  <2> QED BY <2>4, <2>5, <2>6 DEF Followed
<1>5. CASE TransmitPut
  <2>1. /\ tPC = "full" /\ tPC' = "loop"
        /\ guestToHostReturnQ' =
              StorePutIndex(guestToHostReturnQ, After(guestToHostReturnQ, tIndex))
        /\ UNCHANGED <<guestToHostQ, hostToGuestSupplyQ, hostToGuestQ, guest, receive, reset>>
    BY <1>5 DEF TransmitPut
  <2>2. /\ Ready(guestToHostReturnQ, tBuffer, tIndex) /\ resetPC # "return"
        /\ Len(guestToHostReturn) < TransmitSpace
    BY <1>1, <2>1 DEF Ringed, Overlap
  <2>3. /\ guestToHostReturn = Elements(guestToHostReturnQ)
        /\ guestToHostReturn' = Elements(guestToHostReturnQ')
    BY <2>1, <2>2 DEF guestToHostReturn, reset
  <2>4. EmbQueueFilled(guestToHostReturnQ) # TransmitSpace
    BY <2>2, <2>3, RingElements DEF Shape
  <2>5. guestToHostReturn' = Append(guestToHostReturn, tBuffer)
    BY <2>1, <2>2, <2>3, <2>4, RingStorePut DEF Ready, Shape
  <2>6. tHand = tBuffer /\ tHand' = None
    BY <2>1 DEF tHand
  <2>7. tHand # None /\ tHand \in Buffer(TxBuffers)
    BY <1>1, <2>1, <2>6, ShapeOf DEF Placed
  <2>8. UNCHANGED <<guestToHost, supply, hostToGuest, rHand>>
    BY <2>1, ContentsStay DEF rHand, receive, reset
  <2>9. Circulate(guestToHost, None, Append(guestToHostReturn, tHand), txFree, n, TxBuffers)
    BY <1>1, <2>7, ThreadPuts DEF Both
  <2>10. Both'
    BY <1>1, <2>1, <2>5, <2>6, <2>8, <2>9 DEF Both, guest
  <2>11. Placed'
    BY <1>1, <2>1 DEF Placed, guest, receive, reset
  <2>12. OneOld(tHand, guestToHostReturn, n) => OneOld(None, Append(guestToHostReturn, tHand), n)
    BY <1>1, <2>7, ShapeOf, OldThreadPuts
  <2>13. Renewed'
    BY <1>1, <2>1, <2>5, <2>6, <2>8, <2>12 DEF Renewed, guest, reset
  <2>14. Ringed'
    BY <1>1, <2>1, <2>2, <2>8 DEF Ringed, Taking, Ready, receive, reset
  <2> QED BY <2>10, <2>11, <2>13, <2>14 DEF Followed
<1> QED BY <1>2, <1>3, <1>4, <1>5

(* The receiver's. *)
LEMMA ReceiverFollowed ==
  ASSUME Shape, Followed, ~Overlap', NetworkChannelReceiver
  PROVE  Followed'
<1> USE Spaces
<1> DEFINE n == incarnation
<1>1. /\ Both /\ Placed /\ Renewed /\ Ringed /\ ~Overlap /\ n \in 0 .. MaxResets
  BY DEF Followed, Shape
<1>2. CASE ReceivePacket \/ ReceiveCopy
  <2>1. UNCHANGED <<queues, guest, transmit, reset>> /\ rPC \in {"poll", "take"}
    BY <1>2 DEF ReceivePacket, ReceiveCopy
  <2>2. UNCHANGED <<guestToHost, guestToHostReturn, supply, hostToGuest>>
    BY <2>1, ContentsStay DEF queues, reset
  <2>3. rPC' \in {"take", "taken"}
    BY <1>2 DEF ReceivePacket, ReceiveCopy
  <2>4. UNCHANGED <<tHand, rHand>>
    BY <2>1, <2>3 DEF tHand, rHand, transmit
  <2>5. Both' /\ Renewed'
    BY <1>1, <2>1, <2>2, <2>4 DEF Both, Renewed, guest, reset
  <2>6. Placed'
    BY <1>1, <2>1, <2>3 DEF Placed, guest, transmit, reset
  <2>7. Len(hostToGuest') < ReceiveSpace
    <3>1. CASE ReceivePacket
      <4>1. CASE resetPC = "receive"
        <5>1. hostToGuest = <<>>
          BY <4>1 DEF hostToGuest
        <5> QED BY <2>2, <5>1
      <4>2. CASE resetPC # "receive"
        <5>1. EmbQueueSpace(hostToGuestQ) # 0 /\ hostToGuest = Elements(hostToGuestQ)
          BY <3>1, <4>2 DEF ReceivePacket, hostToGuest
        <5>2. EmbQueueFilled(hostToGuestQ) \in 0 .. ReceiveSpace /\ EmbQueueFilled(hostToGuestQ) # ReceiveSpace
          BY <5>1, RingCounts DEF Shape
        <5>3. Len(Elements(hostToGuestQ)) = EmbQueueFilled(hostToGuestQ)
          BY RingElements DEF Shape
        <5> QED BY <2>2, <5>1, <5>2, <5>3
      <4> QED BY <4>1, <4>2
    <3>2. CASE ReceiveCopy
      BY <1>1, <2>2, <3>2 DEF ReceiveCopy, Ringed
    <3> QED BY <1>2, <3>1, <3>2
  <2>8. rPC' = "taken" => Taking(hostToGuestSupplyQ', supply', rBuffer', rIndex')
    <3> SUFFICES ASSUME rPC' = "taken" PROVE Taking(hostToGuestSupplyQ', supply', rBuffer', rIndex')
      OBVIOUS
    <3>1. /\ EmbQueueFilled(hostToGuestSupplyQ) # 0
          /\ rIndex' = hostToGuestSupplyQ.take_index /\ rBuffer' = First(hostToGuestSupplyQ)
      BY <1>2 DEF ReceivePacket, ReceiveCopy
    <3>2. supply = Elements(hostToGuestSupplyQ)
      BY <2>1 DEF Overlap, supply, reset
    <3> QED BY <2>1, <2>2, <3>1, <3>2, RingStoreTake DEF Taking, queues, Shape
  <2>9. Ringed'
    BY <1>1, <2>1, <2>2, <2>3, <2>7, <2>8 DEF Ringed, Taking, Ready, queues, transmit, reset
  <2> QED BY <2>5, <2>6, <2>9 DEF Followed
<1>3. CASE ReceiveTake
  <2>1. /\ rPC = "taken"
        /\ hostToGuestSupplyQ' =
              StoreTakeIndex(hostToGuestSupplyQ, After(hostToGuestSupplyQ, rIndex))
        /\ rPC' = IF rBuffer = None THEN "take" ELSE "put"
        /\ UNCHANGED <<guestToHostQ, guestToHostReturnQ, hostToGuestQ, guest,
                       transmit, rBuffer, reset>>
    BY <1>3 DEF ReceiveTake
  <2>2. Taking(hostToGuestSupplyQ, supply, rBuffer, rIndex) /\ resetPC # "supply"
    BY <1>1, <2>1 DEF Ringed, Overlap
  <2>3. supply = Elements(hostToGuestSupplyQ) /\ supply' = Elements(hostToGuestSupplyQ')
    BY <2>1, <2>2 DEF supply, reset
  <2>4. EmbQueueFilled(hostToGuestSupplyQ) # 0
    BY <2>2, <2>3, RingElements DEF Taking, Shape
  <2>5. supply' = Tail(supply) /\ supply # <<>> /\ rBuffer = Head(supply)
    BY <2>1, <2>2, <2>3, <2>4, RingStoreTake DEF Taking, Shape
  <2>6. rHand = None
    BY <2>1 DEF rHand
  <2>7. /\ Circulate(Tail(supply), Head(supply), hostToGuest, rxFree, n, RxBuffers)
        /\ Head(supply) # None
    BY <1>1, <2>5, <2>6, ThreadTakes DEF Both
  <2>8. /\ rPC' = "put" /\ rHand' = Head(supply)
        /\ UNCHANGED <<guestToHost, guestToHostReturn, hostToGuest, tHand>>
    BY <2>1, <2>5, <2>7, ContentsStay DEF tHand, rHand, transmit, reset
  <2>9. Both'
    BY <1>1, <2>1, <2>5, <2>7, <2>8 DEF Both, guest
  <2>10. Placed'
    BY <1>1, <2>1, <2>5, <2>7, <2>8 DEF Placed, guest, transmit, reset
  <2>11. /\ NoneOld(supply, n) => NoneOld(Tail(supply), n)
         /\ NoneOld(supply, n) /\ OneOld(None, hostToGuest, n) => OneOld(Head(supply), hostToGuest, n)
    BY <1>1, <2>5, ShapeOf, OldThreadTakes
  <2>12. Renewed'
    <3>1. resetPC = "receive" => resetPC \in {"supply", "supplied", "receive"}
      OBVIOUS
    <3> QED BY <1>1, <2>1, <2>5, <2>6, <2>8, <2>11, <3>1 DEF Renewed, guest, reset
  <2>13. Ringed'
    BY <1>1, <2>1, <2>2, <2>8 DEF Ringed, Taking, Ready, transmit, reset
  <2> QED BY <2>9, <2>10, <2>12, <2>13 DEF Followed
<1>4. CASE ReceiveFill
  <2>1. /\ rPC = "put" /\ rPC' = "full"
        /\ hostToGuestQ' = Filling(hostToGuestQ, rBuffer)
        /\ rIndex' = hostToGuestQ.put_index
        /\ UNCHANGED <<guestToHostQ, guestToHostReturnQ, hostToGuestSupplyQ, guest,
                       transmit, rBuffer, reset>>
    BY <1>4 DEF ReceiveFill
  <2>2. /\ Elements(hostToGuestQ') = Elements(hostToGuestQ)
        /\ Ready(hostToGuestQ', rBuffer', rIndex')
        /\ hostToGuestQ'.put_index = hostToGuestQ.put_index
    BY <2>1, RingFilling DEF Shape, Ready
  <2>3. UNCHANGED <<guestToHost, guestToHostReturn, supply, hostToGuest, tHand, rHand>>
    BY <2>1, <2>2, ContentsStay DEF hostToGuest, tHand, rHand, transmit, reset
  <2>4. Both' /\ Renewed'
    BY <1>1, <2>1, <2>3 DEF Both, Renewed, guest, reset
  <2>5. Placed'
    BY <1>1, <2>1 DEF Placed, guest, transmit, reset
  <2>6. Ringed'
    BY <1>1, <2>1, <2>2, <2>3 DEF Ringed, Taking, Ready, transmit, reset
  <2> QED BY <2>4, <2>5, <2>6 DEF Followed
<1>5. CASE ReceivePut
  <2>1. /\ rPC = "full" /\ rPC' = "poll"
        /\ hostToGuestQ' = StorePutIndex(hostToGuestQ, After(hostToGuestQ, rIndex))
        /\ UNCHANGED <<guestToHostQ, guestToHostReturnQ, hostToGuestSupplyQ, guest, transmit, reset>>
    BY <1>5 DEF ReceivePut
  <2>2. /\ Ready(hostToGuestQ, rBuffer, rIndex) /\ resetPC # "receive"
        /\ Len(hostToGuest) < ReceiveSpace
    BY <1>1, <2>1 DEF Ringed, Overlap
  <2>3. hostToGuest = Elements(hostToGuestQ) /\ hostToGuest' = Elements(hostToGuestQ')
    BY <2>1, <2>2 DEF hostToGuest, reset
  <2>4. EmbQueueFilled(hostToGuestQ) # ReceiveSpace
    BY <2>2, <2>3, RingElements DEF Shape
  <2>5. hostToGuest' = Append(hostToGuest, rBuffer)
    BY <2>1, <2>2, <2>3, <2>4, RingStorePut DEF Ready, Shape
  <2>6. rHand = rBuffer /\ rHand' = None
    BY <2>1 DEF rHand
  <2>7. rHand # None /\ rHand \in Buffer(RxBuffers)
    BY <1>1, <2>1, <2>6, ShapeOf DEF Placed
  <2>8. UNCHANGED <<guestToHost, guestToHostReturn, supply, tHand>>
    BY <2>1, ContentsStay DEF tHand, transmit, reset
  <2>9. Circulate(supply, None, Append(hostToGuest, rHand), rxFree, n, RxBuffers)
    BY <1>1, <2>7, ThreadPuts DEF Both
  <2>10. Both'
    BY <1>1, <2>1, <2>5, <2>6, <2>8, <2>9 DEF Both, guest
  <2>11. Placed'
    BY <1>1, <2>1 DEF Placed, guest, transmit, reset
  <2>12. OneOld(rHand, hostToGuest, n) => OneOld(None, Append(hostToGuest, rHand), n)
    BY <1>1, <2>7, ShapeOf, OldThreadPuts
  <2>13. Renewed'
    BY <1>1, <2>1, <2>5, <2>6, <2>8, <2>12 DEF Renewed, guest, reset
  <2>14. Ringed'
    BY <1>1, <2>1, <2>2, <2>8 DEF Ringed, Taking, Ready, transmit, reset
  <2> QED BY <2>10, <2>11, <2>13, <2>14 DEF Followed
<1> QED BY <1>2, <1>3, <1>4, <1>5 DEF NetworkChannelReceiver



(* The reset's: each queue is empty from its first store on. *)
LEMMA ResetFollowed ==
  ASSUME Shape, Followed, ~Overlap', ResetStep
  PROVE  Followed'
<1> USE Spaces
<1> DEFINE n == incarnation
           empty == <<>>
<1>1. /\ Both /\ Placed /\ Renewed /\ Ringed /\ ~Overlap /\ n \in 0 .. MaxResets
  BY DEF Followed, Shape
<1>2. reset_request /\ txFree = TxBuffers /\ rxFree = RxBuffers
  <2>1. resetPC # "none" \/ reset_request
    BY DEF ResetStep, ResetTransmitPut, ResetTransmitTake, ResetReturnPut, ResetReturnTake,
           ResetSupplyPut, ResetSupplyTake, ResetReceivePut, ResetReceiveTake
  <2> QED BY <1>1, <2>1 DEF Placed
<1>3. /\ Circulate(empty, tHand, guestToHostReturn, txFree, n, TxBuffers)
      /\ Circulate(guestToHost, tHand, empty, txFree, n, TxBuffers)
      /\ Circulate(empty, rHand, hostToGuest, rxFree, n, RxBuffers)
      /\ Circulate(supply, rHand, empty, rxFree, n, RxBuffers)
  BY <1>1, <1>2, QueueReset DEF Both
<1>4. \A h : NoneOld(empty, n) /\ OneOld(h, empty, n)
  BY NothingOld
<1>5. Len(empty) < TransmitSpace /\ Len(empty) < ReceiveSpace
  OBVIOUS
<1>6. /\ UNCHANGED <<guest, transmit, receive>>
  BY DEF ResetStep, ResetTransmitPut, ResetTransmitTake, ResetReturnPut, ResetReturnTake,
         ResetSupplyPut, ResetSupplyTake, ResetReceivePut, ResetReceiveTake
<1>7. UNCHANGED <<tHand, rHand>>
  BY <1>6 DEF tHand, rHand, transmit, receive
<1>8. CASE ResetTransmitPut
  <2>1. /\ resetPC = "none" /\ resetPC' = "transmit" /\ UNCHANGED reset_request
        /\ guestToHostQ' = StorePutIndex(guestToHostQ, 0)
        /\ UNCHANGED <<guestToHostReturnQ, hostToGuestSupplyQ, hostToGuestQ>>
    BY <1>8 DEF ResetTransmitPut
  <2>2. guestToHostQ'.put_index = 0
    BY <2>1, RingReset DEF Shape
  <2>3. guestToHost' = empty /\ UNCHANGED <<guestToHostReturn, supply, hostToGuest>>
    BY <2>1 DEF guestToHost, guestToHostReturn, supply, hostToGuest
  <2>4. Both'
    BY <1>1, <1>3, <1>6, <1>7, <2>3 DEF Both, guest
  <2>5. Placed'
    BY <1>1, <1>2, <1>6, <2>1 DEF Placed, guest, transmit, receive
  <2>6. Renewed'
    BY <1>1, <1>2, <1>4, <1>6, <1>7, <2>1, <2>3 DEF Renewed, guest
  <2>7. Ringed'
    BY <1>1, <1>5, <1>6, <2>1, <2>2, <2>3 DEF Ringed, Overlap, Taking, Ready, transmit, receive
  <2> QED BY <2>4, <2>5, <2>6, <2>7 DEF Followed
<1>9. CASE ResetTransmitTake
  <2>1. /\ resetPC = "transmit" /\ resetPC' = "transmitted" /\ UNCHANGED reset_request
        /\ guestToHostQ' = StoreTakeIndex(guestToHostQ, 0)
        /\ UNCHANGED <<guestToHostReturnQ, hostToGuestSupplyQ, hostToGuestQ>>
    BY <1>9 DEF ResetTransmitTake
  <2>2. guestToHostQ.put_index = 0
    BY <1>1, <2>1 DEF Ringed
  <2>3. Elements(guestToHostQ') = empty
    BY <2>1, <2>2, RingReset DEF Shape
  <2>4. UNCHANGED <<guestToHost, guestToHostReturn, supply, hostToGuest>>
    BY <2>1, <2>3 DEF guestToHost, guestToHostReturn, supply, hostToGuest
  <2>5. guestToHost = empty
    BY <2>1 DEF guestToHost
  <2>6. Both'
    BY <1>1, <1>6, <1>7, <2>4 DEF Both, guest
  <2>7. Placed'
    BY <1>1, <1>2, <1>6, <2>1 DEF Placed, guest, transmit, receive
  <2>8. Renewed'
    BY <1>1, <1>2, <1>4, <1>6, <1>7, <2>1, <2>4, <2>5 DEF Renewed, guest
  <2>9. Ringed'
    BY <1>1, <1>6, <2>1, <2>4, <2>5 DEF Ringed, Overlap, Taking, Ready, transmit, receive
  <2> QED BY <2>6, <2>7, <2>8, <2>9 DEF Followed
<1>10. CASE ResetReturnPut
  <2>1. /\ resetPC = "transmitted" /\ resetPC' = "return" /\ UNCHANGED reset_request
        /\ guestToHostReturnQ' = StorePutIndex(guestToHostReturnQ, 0)
        /\ UNCHANGED <<guestToHostQ, hostToGuestSupplyQ, hostToGuestQ>>
    BY <1>10 DEF ResetReturnPut
  <2>2. guestToHostReturnQ'.put_index = 0
    BY <2>1, RingReset DEF Shape
  <2>3. guestToHostReturn' = empty /\ UNCHANGED <<guestToHost, supply, hostToGuest>>
    BY <2>1 DEF guestToHost, guestToHostReturn, supply, hostToGuest
  <2>4. Both'
    BY <1>1, <1>3, <1>6, <1>7, <2>3 DEF Both, guest
  <2>5. Placed'
    BY <1>1, <1>2, <1>6, <2>1 DEF Placed, guest, transmit, receive
  <2>6. Renewed'
    BY <1>1, <1>2, <1>4, <1>6, <1>7, <2>1, <2>3 DEF Renewed, guest
  <2>7. Ringed'
    BY <1>1, <1>5, <1>6, <2>1, <2>2, <2>3 DEF Ringed, Overlap, Taking, Ready, transmit, receive
  <2> QED BY <2>4, <2>5, <2>6, <2>7 DEF Followed
<1>11. CASE ResetReturnTake
  <2>1. /\ resetPC = "return" /\ resetPC' = "returned" /\ UNCHANGED reset_request
        /\ guestToHostReturnQ' = StoreTakeIndex(guestToHostReturnQ, 0)
        /\ UNCHANGED <<guestToHostQ, hostToGuestSupplyQ, hostToGuestQ>>
    BY <1>11 DEF ResetReturnTake
  <2>2. guestToHostReturnQ.put_index = 0
    BY <1>1, <2>1 DEF Ringed
  <2>3. Elements(guestToHostReturnQ') = empty
    BY <2>1, <2>2, RingReset DEF Shape
  <2>4. UNCHANGED <<guestToHost, guestToHostReturn, supply, hostToGuest>>
    BY <2>1, <2>3 DEF guestToHost, guestToHostReturn, supply, hostToGuest
  <2>5. guestToHostReturn = empty
    BY <2>1 DEF guestToHostReturn
  <2>6. Both'
    BY <1>1, <1>6, <1>7, <2>4 DEF Both, guest
  <2>7. Placed'
    BY <1>1, <1>2, <1>6, <2>1 DEF Placed, guest, transmit, receive
  <2>8. Renewed'
    BY <1>1, <1>2, <1>4, <1>6, <1>7, <2>1, <2>4, <2>5 DEF Renewed, guest
  <2>9. Ringed'
    BY <1>1, <1>6, <2>1, <2>4, <2>5 DEF Ringed, Overlap, Taking, Ready, transmit, receive
  <2> QED BY <2>6, <2>7, <2>8, <2>9 DEF Followed
<1>12. CASE ResetSupplyPut
  <2>1. /\ resetPC = "returned" /\ resetPC' = "supply" /\ UNCHANGED reset_request
        /\ hostToGuestSupplyQ' = StorePutIndex(hostToGuestSupplyQ, 0)
        /\ UNCHANGED <<guestToHostQ, guestToHostReturnQ, hostToGuestQ>>
    BY <1>12 DEF ResetSupplyPut
  <2>2. hostToGuestSupplyQ'.put_index = 0
    BY <2>1, RingReset DEF Shape
  <2>3. supply' = empty /\ UNCHANGED <<guestToHost, guestToHostReturn, hostToGuest>>
    BY <2>1 DEF guestToHost, guestToHostReturn, supply, hostToGuest
  <2>4. Both'
    BY <1>1, <1>3, <1>6, <1>7, <2>3 DEF Both, guest
  <2>5. Placed'
    BY <1>1, <1>2, <1>6, <2>1 DEF Placed, guest, transmit, receive
  <2>6. Renewed'
    BY <1>1, <1>2, <1>4, <1>6, <1>7, <2>1, <2>3 DEF Renewed, guest
  <2>7. Ringed'
    BY <1>1, <1>5, <1>6, <2>1, <2>2, <2>3 DEF Ringed, Overlap, Taking, Ready, transmit, receive
  <2> QED BY <2>4, <2>5, <2>6, <2>7 DEF Followed
<1>13. CASE ResetSupplyTake
  <2>1. /\ resetPC = "supply" /\ resetPC' = "supplied" /\ UNCHANGED reset_request
        /\ hostToGuestSupplyQ' = StoreTakeIndex(hostToGuestSupplyQ, 0)
        /\ UNCHANGED <<guestToHostQ, guestToHostReturnQ, hostToGuestQ>>
    BY <1>13 DEF ResetSupplyTake
  <2>2. hostToGuestSupplyQ.put_index = 0
    BY <1>1, <2>1 DEF Ringed
  <2>3. Elements(hostToGuestSupplyQ') = empty
    BY <2>1, <2>2, RingReset DEF Shape
  <2>4. UNCHANGED <<guestToHost, guestToHostReturn, supply, hostToGuest>>
    BY <2>1, <2>3 DEF guestToHost, guestToHostReturn, supply, hostToGuest
  <2>5. supply = empty
    BY <2>1 DEF supply
  <2>6. Both'
    BY <1>1, <1>6, <1>7, <2>4 DEF Both, guest
  <2>7. Placed'
    BY <1>1, <1>2, <1>6, <2>1 DEF Placed, guest, transmit, receive
  <2>8. Renewed'
    BY <1>1, <1>2, <1>4, <1>6, <1>7, <2>1, <2>4, <2>5 DEF Renewed, guest
  <2>9. Ringed'
    BY <1>1, <1>6, <2>1, <2>4, <2>5 DEF Ringed, Overlap, Taking, Ready, transmit, receive
  <2> QED BY <2>6, <2>7, <2>8, <2>9 DEF Followed
<1>14. CASE ResetReceivePut
  <2>1. /\ resetPC = "supplied" /\ resetPC' = "receive" /\ UNCHANGED reset_request
        /\ hostToGuestQ' = StorePutIndex(hostToGuestQ, 0)
        /\ UNCHANGED <<guestToHostQ, guestToHostReturnQ, hostToGuestSupplyQ>>
    BY <1>14 DEF ResetReceivePut
  <2>2. hostToGuestQ'.put_index = 0
    BY <2>1, RingReset DEF Shape
  <2>3. hostToGuest' = empty /\ UNCHANGED <<guestToHost, guestToHostReturn, supply>>
    BY <2>1 DEF guestToHost, guestToHostReturn, supply, hostToGuest
  <2>4. Both'
    BY <1>1, <1>3, <1>6, <1>7, <2>3 DEF Both, guest
  <2>5. Placed'
    BY <1>1, <1>2, <1>6, <2>1 DEF Placed, guest, transmit, receive
  <2>6. Renewed'
    BY <1>1, <1>2, <1>4, <1>6, <1>7, <2>1, <2>3 DEF Renewed, guest
  <2>7. Ringed'
    BY <1>1, <1>5, <1>6, <2>1, <2>2, <2>3 DEF Ringed, Overlap, Taking, Ready, transmit, receive
  <2> QED BY <2>4, <2>5, <2>6, <2>7 DEF Followed
<1>15. CASE ResetReceiveTake
  <2>1. /\ resetPC = "receive" /\ resetPC' = "none" /\ reset_request' = FALSE
        /\ hostToGuestQ' = StoreTakeIndex(hostToGuestQ, 0)
        /\ UNCHANGED <<guestToHostQ, guestToHostReturnQ, hostToGuestSupplyQ>>
    BY <1>15 DEF ResetReceiveTake
  <2>2. hostToGuestQ.put_index = 0
    BY <1>1, <2>1 DEF Ringed
  <2>3. Elements(hostToGuestQ') = empty
    BY <2>1, <2>2, RingReset DEF Shape
  <2>4. UNCHANGED <<guestToHost, guestToHostReturn, supply, hostToGuest>>
    BY <2>1, <2>3 DEF guestToHost, guestToHostReturn, supply, hostToGuest
  <2>5. hostToGuest = empty
    BY <2>1 DEF hostToGuest
  <2>6. Both'
    BY <1>1, <1>6, <1>7, <2>4 DEF Both, guest
  <2>7. Placed'
    BY <1>1, <1>2, <1>6, <2>1 DEF Placed, guest, transmit, receive
  <2>8. Renewed'
    BY <1>1, <1>2, <1>4, <1>6, <1>7, <2>1, <2>4, <2>5 DEF Renewed, guest
  <2>9. Ringed'
    BY <1>1, <1>6, <2>1, <2>4, <2>5 DEF Ringed, Overlap, Taking, Ready, transmit, receive
  <2> QED BY <2>6, <2>7, <2>8, <2>9 DEF Followed
<1> QED BY <1>8, <1>9, <1>10, <1>11, <1>12, <1>13, <1>14, <1>15 DEF ResetStep

(* Every step keeps the types, and the way of the buffers as long as no    *)
(* reset overlaps a take or a put.                                         *)
NetInv == Shape /\ (torn \/ Followed)

LEMMA NextNetInv == NetInv /\ [NetNext]_netVars => NetInv'
<1> SUFFICES ASSUME NetInv, [NetNext]_netVars PROVE NetInv'
  OBVIOUS
<1>1. Shape /\ Shape'
  BY NextShape DEF NetInv
<1>2. CASE UNCHANGED netVars \/ Torn
  <2>1. UNCHANGED netVars
    BY <1>2 DEF Torn
  <2>2. torn' = torn /\ (Followed => Followed')
    BY <2>1, FollowedStays DEF netVars
  <2> QED BY <1>1, <2>2 DEF NetInv
<1>3. CASE Watched(NetStep)
  <2>1. NetStep /\ Followed /\ torn' = Overlap'
    BY <1>3 DEF Watched, NetInv
  <2>2. CASE Overlap'
    BY <1>1, <2>1, <2>2 DEF NetInv
  <2>3. CASE ~Overlap'
    <3>1. CASE Aside
      BY <2>1, <3>1, AsideStays, FollowedStays, <1>1 DEF NetInv
    <3> QED BY <1>1, <2>1, <2>3, <3>1, NetSteps, GuestFollowed, TransmitterFollowed,
               ReceiverFollowed, ResetFollowed DEF NetInv
  <2> QED BY <2>2, <2>3
<1> QED BY <1>2, <1>3 DEF NetNext

-----------------------------------------------------------------------------
(* The signals under the channel *)

LEMMA InitNetSignals == NetInit => TypeOK
<1>1. 0 \in Signal
  BY SignalsAssumption DEF SignalsAssumption, Signal
<1>2. Net \in Channel
  BY NetworkAssumption DEF NetworkAssumption
<1> QED BY <1>1, <1>2 DEF NetInit, TypeOK, Handler

LEMMA NextNetSignals == TypeOK /\ [NetNext]_netVars => TypeOK'
<1> SUFFICES ASSUME TypeOK, [NetNext]_netVars PROVE TypeOK'
  OBVIOUS
<1>1. ASSUME UNCHANGED signals PROVE TypeOK'
  BY <1>1 DEF TypeOK, signals, masks, table, emulator, polling, handlers, history
<1>2. Handler \in Signal /\ Net \in Channel
  BY SignalsAssumption, NetworkAssumption DEF SignalsAssumption, NetworkAssumption, Signal, Handler
<1>3. ASSUME signalLock' \in {Polling, NULL},
             UNCHANGED <<masks, table, emulator, polling, handlers, history>>
      PROVE  TypeOK'
  BY <1>3 DEF TypeOK, masks, table, emulator, polling, handlers, history
<1>4. CASE UNCHANGED netVars \/ Torn
  BY <1>1, <1>4 DEF netVars, Torn
<1>5. CASE GuestTransmit
  <2>1. GuestRaise(Net) \/ UNCHANGED signals
    BY <1>5 DEF GuestTransmit
  <2> QED BY <1>1, <1>2, <2>1, ChannelTypeOK
<1>6. CASE EmulatorSignals
  BY <1>6, EmulatorTypeOK DEF EmulatorSignals, EmulatorStep
<1>7. CASE HandlerSignals \/ TransmitReturn \/ TransmitDefer
  <2>1. HandlerStep(Handler)
    BY <1>7 DEF HandlerSignals, TransmitReturn, TransmitDefer, HandlerStep
  <2> QED BY <1>2, <2>1, HandlerTypeOK
<1>8. CASE PollSignals
  BY <1>8, PollTypeOK DEF PollSignals, PollStep
<1>9. CASE ResetTransmitPut \/ ResetReceiveTake
  BY <1>3, <1>9 DEF ResetTransmitPut, ResetReceiveTake
<1>10. CASE \/ GuestTakeReturned \/ GuestSupply \/ GuestTakePacket \/ RequestReset
            \/ TransmitTest \/ TransmitCopy \/ TransmitTake \/ TransmitFill \/ TransmitPut
            \/ NetworkChannelReceiver
  BY <1>1, <1>10
     DEF GuestTakeReturned, GuestSupply, GuestTakePacket, RequestReset, TransmitTest,
         TransmitCopy, TransmitTake, TransmitFill, TransmitPut, NetworkChannelReceiver,
         ReceivePacket, ReceiveCopy, ReceiveTake, ReceiveFill, ReceivePut
<1>11. CASE \/ ResetTransmitTake \/ ResetReturnPut \/ ResetReturnTake
            \/ ResetSupplyPut \/ ResetSupplyTake \/ ResetReceivePut
  BY <1>1, <1>11
     DEF ResetTransmitTake, ResetReturnPut, ResetReturnTake, ResetSupplyPut, ResetSupplyTake,
         ResetReceivePut
<1>12. CASE Watched(NetStep)
  BY <1>5, <1>6, <1>7, <1>8, <1>9, <1>10, <1>11, <1>12, NetSteps DEF Watched, Aside, ResetStep
<1> QED BY <1>4, <1>12 DEF NetNext

-----------------------------------------------------------------------------
(* The theorems *)

(* The types and the buffers' way are kept by every step, of the guest,    *)
(* the two threads and the reset between them.                             *)
THEOREM NetworkInvariance == NetSpec => [](TypeOK /\ NetInv)
<1>1. NetInit => TypeOK /\ NetInv
  BY InitNetSignals, InitShape, InitFollowed DEF NetInv
<1>2. TypeOK /\ NetInv /\ [NetNext]_netVars => (TypeOK /\ NetInv)'
  BY NextNetSignals, NextNetInv
<1> QED BY <1>1, <1>2, PTL DEF NetSpec

(* Every variable of the channel has its type, whatever a reset overlaps:  *)
(* no queue ever holds anything but a packet buffer of its own direction.  *)
THEOREM NetworkTypeCorrect == NetSpec => []NetTypeOK
<1>1. TypeOK /\ NetInv => NetTypeOK
  BY DEF NetInv, Shape, NetTypeOK, Slots
<1> QED BY <1>1, NetworkInvariance, PTL

(* What the threads hold, as BuffersAccounted and OneStaleBuffer see it.   *)
LEMMA Hands ==
  ASSUME Followed
  PROVE  TransmitHand = Hold(tHand) /\ ReceiveHand = Hold(rHand)
BY DEF Followed, Placed, TransmitHand, ReceiveHand, Hold, tHand, rHand

(* No packet buffer of the running Lisp is lost or in two places, whatever *)
(* the host's threads held when it started again, until a reset overlaps   *)
(* a take or a put.                                                        *)
THEOREM NetworkBuffersAccounted == NetSpec => []BuffersAccounted
<1>1. NetInv => BuffersAccounted
  BY OnePlace, Hands DEF NetInv, Followed, Shape, Both, BuffersAccounted
<1> QED BY <1>1, NetworkInvariance, PTL

(* Once a reset is over that overlapped no take and no put, no more than   *)
(* the buffer a thread held comes back from the Lisp before.               *)
THEOREM NetworkOneStale == NetSpec => []OneStaleBuffer
<1>1. NetInv => OneStaleBuffer
  <2> SUFFICES ASSUME NetInv, ~reset_request, ~torn PROVE OneStaleBuffer
    BY DEF OneStaleBuffer
  <2>1. /\ Followed
        /\ NoneOld(guestToHost, incarnation) /\ NoneOld(supply, incarnation)
        /\ OneOld(tHand, guestToHostReturn, incarnation)
        /\ OneOld(rHand, hostToGuest, incarnation)
        /\ incarnation \in 0 .. MaxResets
    BY DEF NetInv, Followed, Renewed, Shape
  <2>2. Stale(guestToHost) = {} /\ Stale(supply) = {}
    BY <2>1, ShapeOf, NoStale
  <2>3. /\ Cardinality(Stale(Hold(tHand) \o guestToHostReturn)) <= incarnation
        /\ Cardinality(Stale(Hold(rHand) \o hostToGuest)) <= incarnation
    BY <2>1, ShapeOf, OneStale
  <2> QED BY <2>1, <2>2, <2>3, Hands DEF OneStaleBuffer
<1> QED BY <1>1, NetworkInvariance, PTL

(* Neither thread waits in the loop of a put that no reset overlaps: the   *)
(* room it saw before it took the buffer is still there.                   *)
THEOREM NetworkPutNeverWaits == NetSpec => []PutNeverWaits
<1>1. NetInv => PutNeverWaits
  <2> SUFFICES ASSUME NetInv, ~torn PROVE PutNeverWaits
    BY DEF PutNeverWaits
  <2>1. Shape /\ Ringed /\ ~Overlap
    BY DEF NetInv, Followed
  <2>2. ASSUME tPC = "full"
        PROVE  After(guestToHostReturnQ, tIndex) # guestToHostReturnQ.take_index
    <3>1. /\ tIndex = guestToHostReturnQ.put_index /\ Len(guestToHostReturn) < TransmitSpace
          /\ guestToHostReturn = Elements(guestToHostReturnQ)
      BY <2>1, <2>2 DEF Ringed, Ready, Overlap, guestToHostReturn
    <3>2. Len(Elements(guestToHostReturnQ)) = EmbQueueFilled(guestToHostReturnQ)
      BY <2>1, Spaces, RingElements DEF Shape
    <3>3. EmbQueueFilled(guestToHostReturnQ) # TransmitSpace
      BY <3>1, <3>2, Spaces
    <3> QED BY <2>1, <3>1, <3>3, Spaces, RingCounts DEF Shape
  <2>3. ASSUME rPC = "full"
        PROVE  After(hostToGuestQ, rIndex) # hostToGuestQ.take_index
    <3>1. /\ rIndex = hostToGuestQ.put_index /\ Len(hostToGuest) < ReceiveSpace
          /\ hostToGuest = Elements(hostToGuestQ)
      BY <2>1, <2>3 DEF Ringed, Ready, Overlap, hostToGuest
    <3>2. Len(Elements(hostToGuestQ)) = EmbQueueFilled(hostToGuestQ)
      BY <2>1, Spaces, RingElements DEF Shape
    <3>3. EmbQueueFilled(hostToGuestQ) # ReceiveSpace
      BY <3>1, <3>2, Spaces
    <3> QED BY <2>1, <3>1, <3>3, Spaces, RingCounts DEF Shape
  <2> QED BY <2>2, <2>3 DEF PutNeverWaits
<1> QED BY <1>1, NetworkInvariance, PTL

===============================================================================
