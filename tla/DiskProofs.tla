------------------------------ MODULE DiskProofs ------------------------------
(***************************************************************************)
(* Proofs about the disk channel of DiskChannel.tla, for every set of      *)
(* commands, every room in its queues and every number of commands,        *)
(* attachments and resets, whether the channel is read-only or not and     *)
(* whether Lisp created it or not.                                         *)
(***************************************************************************)
EXTENDS DiskChannel, SignalsProofs, SequenceTheorems

-----------------------------------------------------------------------------
(* Sequences of numbered elements *)

(* Numbered in order, above lo and up to hi. *)
Rising(s, lo, hi) ==
    /\ \A i \in 1 .. Len(s) : s[i].id \in lo + 1 .. hi
    /\ \A i, j \in 1 .. Len(s) : i < j => s[i].id < s[j].id
Below(s, t) == \A i \in 1 .. Len(s), j \in 1 .. Len(t) : s[i].id < t[j].id
(* Numbered without a gap, after n. *)
From(s, n) == \A i \in 1 .. Len(s) : s[i].id = n + i

(* What a queue is after a put and after a take. *)
LEMMA AppendTo ==
  ASSUME NEW T, NEW s \in Seq(T), NEW e \in T
  PROVE  /\ Append(s, e) \in Seq(T)
         /\ Len(s) \in Nat
         /\ Len(Append(s, e)) = Len(s) + 1
         /\ Append(s, e)[Len(s) + 1] = e
         /\ \A k \in 1 .. Len(s) : Append(s, e)[k] = s[k]
         /\ \A k \in 1 .. Len(Append(s, e)) : k \in 1 .. Len(s) \/ k = Len(s) + 1
OBVIOUS

LEMMA TailOf ==
  ASSUME NEW T, NEW s \in Seq(T), s # <<>>
  PROVE  /\ Tail(s) \in Seq(T) /\ Head(s) \in T
         /\ Len(s) \in Nat /\ 1 \in 1 .. Len(s) /\ Head(s) = s[1]
         /\ Len(Tail(s)) = Len(s) - 1
         /\ \A k \in 1 .. Len(Tail(s)) : k + 1 \in 1 .. Len(s) /\ Tail(s)[k] = s[k + 1]
OBVIOUS

LEMMA EmptyIs ==
  ASSUME NEW T
  PROVE  /\ <<>> \in Seq(T) /\ Len(<<>>) = 0
         /\ \A lo, hi, n : Rising(<<>>, lo, hi) /\ From(<<>>, n)
         /\ \A s : Below(<<>>, s) /\ Below(s, <<>>)
<1> DEFINE empty == <<>>
<1>1. empty \in Seq(T) /\ Len(empty) = 0 /\ 1 .. Len(empty) = {}
  OBVIOUS
<1> HIDE DEF empty
<1>2. /\ \A lo, hi, n : Rising(empty, lo, hi) /\ From(empty, n)
      /\ \A s : Below(empty, s) /\ Below(s, empty)
  BY <1>1 DEF Rising, From, Below
<1> QED BY <1>1, <1>2 DEF empty

LEMMA SingletonIs ==
  ASSUME NEW T, NEW e \in T
  PROVE  /\ <<e>> \in Seq(T) /\ Len(<<e>>) = 1 /\ <<e>>[1] = e
OBVIOUS

(* The element put has the highest number yet. *)
LEMMA RisingAppend ==
  ASSUME NEW T, NEW s \in Seq(T), NEW e \in T, NEW lo \in Int, NEW hi \in Int, NEW up \in Int,
         Rising(s, lo, hi), hi <= up, e.id \in lo + 1 .. up,
         \A i \in 1 .. Len(s) : s[i].id < e.id
  PROVE  Rising(Append(s, e), lo, up)
<1> DEFINE c == Append(s, e)
<1>1. /\ Len(s) \in Nat /\ Len(c) = Len(s) + 1 /\ c[Len(s) + 1] = e
      /\ \A k \in 1 .. Len(s) : c[k] = s[k]
      /\ \A k \in 1 .. Len(c) : k \in 1 .. Len(s) \/ k = Len(s) + 1
  BY AppendTo
<1> HIDE DEF c
<1>2. ASSUME NEW i \in 1 .. Len(c) PROVE c[i].id \in lo + 1 .. up
  BY <1>1, <1>2 DEF Rising
<1>3. ASSUME NEW i \in 1 .. Len(c), NEW j \in 1 .. Len(c), i < j PROVE c[i].id < c[j].id
  <2>1. i \in 1 .. Len(s)
    BY <1>1, <1>3
  <2> QED BY <1>1, <1>3, <2>1 DEF Rising
<1>4. Rising(c, lo, up)
  BY <1>2, <1>3 DEF Rising
<1> QED BY <1>4 DEF c

(* What is left after the first was taken is above it.                     *)
LEMMA RisingTail ==
  ASSUME NEW T, NEW s \in Seq(T), s # <<>>, NEW lo \in Int, NEW hi \in Int, Rising(s, lo, hi)
  PROVE  /\ Rising(Tail(s), Head(s).id, hi) /\ Rising(Tail(s), lo, hi)
         /\ Head(s).id \in lo + 1 .. hi
         /\ \A i \in 1 .. Len(Tail(s)) : Head(s).id < Tail(s)[i].id
<1> DEFINE c == Tail(s)
           h == Head(s)
<1>1. /\ Len(s) \in Nat /\ 1 \in 1 .. Len(s) /\ h = s[1] /\ Len(c) = Len(s) - 1
      /\ \A k \in 1 .. Len(c) : k + 1 \in 1 .. Len(s) /\ c[k] = s[k + 1]
  BY TailOf
<1> HIDE DEF c, h
<1>2. ASSUME NEW i \in 1 .. Len(c)
      PROVE  c[i].id \in lo + 1 .. hi /\ h.id < c[i].id /\ c[i].id \in h.id + 1 .. hi
  <2>1. i + 1 \in 1 .. Len(s) /\ c[i] = s[i + 1] /\ 1 < i + 1
    BY <1>1, <1>2
  <2> QED BY <1>1, <2>1 DEF Rising
<1>3. ASSUME NEW i \in 1 .. Len(c), NEW j \in 1 .. Len(c), i < j PROVE c[i].id < c[j].id
  <2>1. /\ i + 1 \in 1 .. Len(s) /\ c[i] = s[i + 1] /\ j + 1 \in 1 .. Len(s) /\ c[j] = s[j + 1]
        /\ i + 1 < j + 1
    BY <1>1, <1>3
  <2> QED BY <2>1 DEF Rising
<1>4. Rising(c, h.id, hi) /\ Rising(c, lo, hi)
  BY <1>2, <1>3 DEF Rising
<1>5. h.id \in lo + 1 .. hi
  BY <1>1 DEF Rising
<1> QED BY <1>2, <1>4, <1>5 DEF c, h

LEMMA FromTail ==
  ASSUME NEW T, NEW s \in Seq(T), s # <<>>, NEW n \in Int, From(s, n)
  PROVE  Head(s).id = n + 1 /\ From(Tail(s), n + 1)
<1> DEFINE c == Tail(s)
           h == Head(s)
<1>1. /\ Len(s) \in Nat /\ 1 \in 1 .. Len(s) /\ h = s[1] /\ Len(c) = Len(s) - 1
      /\ \A k \in 1 .. Len(c) : k + 1 \in 1 .. Len(s) /\ c[k] = s[k + 1]
  BY TailOf
<1> HIDE DEF c, h
<1>2. ASSUME NEW i \in 1 .. Len(c) PROVE c[i].id = n + 1 + i
  <2>1. i + 1 \in 1 .. Len(s) /\ c[i] = s[i + 1]
    BY <1>1, <1>2
  <2>2. s[i + 1].id = n + (i + 1)
    BY <2>1 DEF From
  <2>3. n + (i + 1) = n + 1 + i
    BY <1>1, <2>1
  <2> QED BY <2>1, <2>2, <2>3
<1>3. From(c, n + 1)
  BY <1>2 DEF From
<1> QED BY <1>1, <1>3 DEF From, c, h

LEMMA FromAppend ==
  ASSUME NEW T, NEW s \in Seq(T), NEW e \in T, NEW n \in Int, From(s, n), e.id = n + Len(s) + 1
  PROVE  From(Append(s, e), n)
<1> DEFINE c == Append(s, e)
<1>1. /\ Len(s) \in Nat /\ Len(c) = Len(s) + 1 /\ c[Len(s) + 1] = e
      /\ \A k \in 1 .. Len(s) : c[k] = s[k]
      /\ \A k \in 1 .. Len(c) : k \in 1 .. Len(s) \/ k = Len(s) + 1
  BY AppendTo
<1> HIDE DEF c
<1>2. ASSUME NEW i \in 1 .. Len(c) PROVE c[i].id = n + i
  <2>1. CASE i \in 1 .. Len(s)
    BY <1>1, <2>1 DEF From
  <2>2. CASE i = Len(s) + 1
    <3>1. n + Len(s) + 1 = n + (Len(s) + 1)
      BY <1>1
    <3> QED BY <1>1, <2>2, <3>1
  <2> QED BY <1>1, <2>1, <2>2
<1> QED BY <1>2 DEF From, c

(* Two numbered sequences in a row. *)
LEMMA TwoParts ==
  ASSUME NEW T, NEW s \in Seq(T), NEW t \in Seq(T)
  PROVE  /\ s \o t \in Seq(T)
         /\ Len(s \o t) = Len(s) + Len(t)
         /\ \A i \in 1 .. Len(s) : (s \o t)[i] = s[i]
         /\ \A i \in 1 .. Len(t) : (s \o t)[Len(s) + i] = t[i]
         /\ Len(s) \in Nat /\ Len(t) \in Nat
BY ConcatProperties

LEMMA Joined ==
  ASSUME NEW T, NEW s \in Seq(T), NEW t \in Seq(T)
  PROVE  /\ \A lo, hi : Rising(s, lo, hi) /\ Rising(t, lo, hi) /\ Below(s, t) => Rising(s \o t, lo, hi)
         /\ \A n \in Int : From(s, n) /\ From(t, n + Len(s)) => From(s \o t, n)
         /\ \A u : Below(s, u) /\ Below(t, u) => Below(s \o t, u)
         /\ s \o t \in Seq(T) /\ Len(s \o t) = Len(s) + Len(t)
<1> DEFINE c == s \o t
<1>1. /\ c \in Seq(T) /\ Len(c) = Len(s) + Len(t)
      /\ \A i \in 1 .. Len(s) : c[i] = s[i]
      /\ \A i \in 1 .. Len(t) : c[Len(s) + i] = t[i]
      /\ Len(s) \in Nat /\ Len(t) \in Nat
  BY TwoParts
<1> HIDE DEF c
<1>2. ASSUME NEW i \in 1 .. Len(c)
      PROVE  \/ i \in 1 .. Len(s) /\ c[i] = s[i]
             \/ i > Len(s) /\ i - Len(s) \in 1 .. Len(t) /\ c[i] = t[i - Len(s)]
  <2>1. CASE i <= Len(s)
    BY <1>1, <2>1
  <2>2. CASE i > Len(s)
    <3>1. i - Len(s) \in 1 .. Len(t) /\ Len(s) + (i - Len(s)) = i
      BY <1>1, <2>2
    <3> QED BY <1>1, <2>2, <3>1
  <2> QED BY <1>1, <2>1, <2>2
<1>3. ASSUME NEW lo, NEW hi, Rising(s, lo, hi), Rising(t, lo, hi), Below(s, t)
      PROVE  Rising(c, lo, hi)
  <2>1. ASSUME NEW i \in 1 .. Len(c) PROVE c[i].id \in lo + 1 .. hi
    BY <1>2, <1>3 DEF Rising
  <2>2. ASSUME NEW i \in 1 .. Len(c), NEW j \in 1 .. Len(c), i < j PROVE c[i].id < c[j].id
    <3>1. CASE j \in 1 .. Len(s) /\ c[j] = s[j]
      <4>1. i \in 1 .. Len(s) /\ c[i] = s[i]
        BY <1>1, <2>2, <3>1
      <4> QED BY <1>3, <2>2, <3>1, <4>1 DEF Rising
    <3>2. CASE j > Len(s) /\ j - Len(s) \in 1 .. Len(t) /\ c[j] = t[j - Len(s)]
      <4>1. CASE i \in 1 .. Len(s) /\ c[i] = s[i]
        BY <1>3, <3>2, <4>1 DEF Below
      <4>2. CASE i > Len(s) /\ i - Len(s) \in 1 .. Len(t) /\ c[i] = t[i - Len(s)]
        <5>1. i - Len(s) < j - Len(s)
          BY <1>1, <2>2
        <5> QED BY <1>3, <3>2, <4>2, <5>1 DEF Rising
      <4> QED BY <1>2, <2>2, <4>1, <4>2
    <3> QED BY <1>2, <2>2, <3>1, <3>2
  <2> QED BY <2>1, <2>2 DEF Rising
<1>4. ASSUME NEW n \in Int, From(s, n), From(t, n + Len(s)) PROVE From(c, n)
  <2>1. ASSUME NEW i \in 1 .. Len(c) PROVE c[i].id = n + i
    <3>1. CASE i \in 1 .. Len(s) /\ c[i] = s[i]
      BY <1>4, <3>1 DEF From
    <3>2. CASE i > Len(s) /\ i - Len(s) \in 1 .. Len(t) /\ c[i] = t[i - Len(s)]
      <4>1. t[i - Len(s)].id = n + Len(s) + (i - Len(s))
        BY <1>4, <3>2 DEF From
      <4>2. n + Len(s) + (i - Len(s)) = n + i
        BY <1>1, <2>1
      <4> QED BY <3>2, <4>1, <4>2
    <3> QED BY <1>2, <2>1, <3>1, <3>2
  <2> QED BY <2>1 DEF From
<1>5. ASSUME NEW u, Below(s, u), Below(t, u) PROVE Below(c, u)
  BY <1>2, <1>5 DEF Below
<1> QED BY <1>1, <1>3, <1>4, <1>5 DEF c

(* The order of a queue is kept when the numbers go on ...                 *)
LEMMA RisingWiden ==
  ASSUME NEW s, NEW lo \in Int, NEW hi \in Int, NEW up \in Int, Rising(s, lo, hi), hi <= up
  PROVE  Rising(s, lo, up)
<1>1. ASSUME NEW i \in 1 .. Len(s) PROVE s[i].id \in lo + 1 .. up
  <2>1. s[i].id \in lo + 1 .. hi
    BY DEF Rising
  <2> QED BY <2>1
<1> QED BY <1>1 DEF Rising

(* ... and when a lower number was received. *)
LEMMA RisingRaise ==
  ASSUME NEW s, NEW lo \in Int, NEW hi \in Int, NEW m \in Int, Rising(s, lo, hi),
         \A i \in 1 .. Len(s) : m < s[i].id
  PROVE  Rising(s, m, hi)
<1>1. ASSUME NEW i \in 1 .. Len(s) PROVE s[i].id \in m + 1 .. hi
  <2>1. s[i].id \in lo + 1 .. hi /\ m < s[i].id
    BY DEF Rising
  <2> QED BY <2>1
<1> QED BY <1>1 DEF Rising

LEMMA BelowAppend ==
  ASSUME NEW T, NEW U, NEW s \in Seq(T), NEW t \in Seq(U), NEW e \in U, Below(s, t),
         \A i \in 1 .. Len(s) : s[i].id < e.id
  PROVE  Below(s, Append(t, e))
<1> DEFINE c == Append(t, e)
<1>1. /\ c[Len(t) + 1] = e
      /\ \A k \in 1 .. Len(t) : c[k] = t[k]
      /\ \A k \in 1 .. Len(c) : k \in 1 .. Len(t) \/ k = Len(t) + 1
  BY AppendTo
<1> HIDE DEF c
<1>2. Below(s, c)
  BY <1>1 DEF Below
<1> QED BY <1>2 DEF c

LEMMA AppendBelow ==
  ASSUME NEW T, NEW U, NEW s \in Seq(T), NEW t \in Seq(U), NEW e \in T, Below(s, t),
         \A i \in 1 .. Len(t) : e.id < t[i].id
  PROVE  Below(Append(s, e), t)
<1> DEFINE c == Append(s, e)
<1>1. /\ c[Len(s) + 1] = e
      /\ \A k \in 1 .. Len(s) : c[k] = s[k]
      /\ \A k \in 1 .. Len(c) : k \in 1 .. Len(s) \/ k = Len(s) + 1
  BY AppendTo
<1> HIDE DEF c
<1>2. Below(c, t)
  BY <1>1 DEF Below
<1> QED BY <1>2 DEF c

LEMMA TailBelow ==
  ASSUME NEW T, NEW s \in Seq(T), s # <<>>
  PROVE  /\ \A t : Below(s, t) => Below(Tail(s), t) /\ \A i \in 1 .. Len(t) : Head(s).id < t[i].id
         /\ \A t : Below(t, s) => Below(t, Tail(s)) /\ \A i \in 1 .. Len(t) : t[i].id < Head(s).id
<1> DEFINE c == Tail(s)
           h == Head(s)
<1>1. /\ 1 \in 1 .. Len(s) /\ h = s[1]
      /\ \A k \in 1 .. Len(c) : k + 1 \in 1 .. Len(s) /\ c[k] = s[k + 1]
  BY TailOf
<1> HIDE DEF c, h
<1>2. /\ \A t : Below(s, t) => Below(c, t) /\ \A i \in 1 .. Len(t) : h.id < t[i].id
      /\ \A t : Below(t, s) => Below(t, c) /\ \A i \in 1 .. Len(t) : t[i].id < h.id
  BY <1>1 DEF Below
<1> QED BY <1>2 DEF c, h

-----------------------------------------------------------------------------
(* The log *)

(* Every failed transfer of attachment g was followed by a reset.          *)
Flushed(l, g) ==
    \A i \in 1 .. Len(l) : l[i].status = "eio" /\ l[i].state = g
        => \E k \in i .. Len(l) : l[k].cmd \in {"reset", "init"}

(* FlushUntilReset of the log l. *)
FlushOK(l) ==
    \A i, j \in 1 .. Len(l) :
        /\ i < j /\ l[i].state = l[j].state
        /\ l[i].status = "eio"
        /\ l[j].status = "won" /\ l[j].cmd \in {"read", "write"}
        => \E k \in i .. j : l[k].cmd \in {"reset", "init"}

LEMMA FlushedAppend ==
  ASSUME NEW T, NEW l \in Seq(T), NEW e \in T, NEW g,
         \/ e.cmd \in {"reset", "init"}
         \/ Flushed(l, g) /\ ~(e.status = "eio" /\ e.state = g)
  PROVE  Flushed(Append(l, e), g)
<1> DEFINE c == Append(l, e)
<1>1. /\ Len(l) \in Nat /\ Len(c) = Len(l) + 1 /\ c[Len(l) + 1] = e
      /\ \A k \in 1 .. Len(l) : c[k] = l[k]
      /\ \A k \in 1 .. Len(c) : k \in 1 .. Len(l) \/ k = Len(l) + 1
  BY AppendTo
<1> HIDE DEF c
<1>2. ASSUME NEW i \in 1 .. Len(c), c[i].status = "eio", c[i].state = g
      PROVE  \E k \in i .. Len(c) : c[k].cmd \in {"reset", "init"}
  <2>1. CASE e.cmd \in {"reset", "init"}
    <3>1. Len(l) + 1 \in i .. Len(c)
      BY <1>1
    <3> QED BY <1>1, <2>1, <3>1
  <2>2. CASE Flushed(l, g) /\ ~(e.status = "eio" /\ e.state = g)
    <3>1. i \in 1 .. Len(l) /\ l[i].status = "eio" /\ l[i].state = g
      BY <1>1, <1>2, <2>2
    <3>2. PICK k \in i .. Len(l) : l[k].cmd \in {"reset", "init"}
      BY <2>2, <3>1 DEF Flushed
    <3>3. k \in i .. Len(c) /\ c[k] = l[k]
      BY <1>1, <3>1, <3>2
    <3> QED BY <3>2, <3>3
  <2> QED BY <2>1, <2>2
<1>3. Flushed(c, g)
  BY <1>2 DEF Flushed
<1> QED BY <1>3 DEF c

LEMMA FlushOKAppend ==
  ASSUME NEW T, NEW l \in Seq(T), NEW e \in T, FlushOK(l),
         e.status = "won" /\ e.cmd \in {"read", "write"} => Flushed(l, e.state)
  PROVE  FlushOK(Append(l, e))
<1> DEFINE c == Append(l, e)
<1>1. /\ Len(l) \in Nat /\ Len(c) = Len(l) + 1 /\ c[Len(l) + 1] = e
      /\ \A k \in 1 .. Len(l) : c[k] = l[k]
      /\ \A k \in 1 .. Len(c) : k \in 1 .. Len(l) \/ k = Len(l) + 1
  BY AppendTo
<1> HIDE DEF c
<1>2. ASSUME NEW i \in 1 .. Len(c), NEW j \in 1 .. Len(c),
             i < j, c[i].state = c[j].state, c[i].status = "eio",
             c[j].status = "won", c[j].cmd \in {"read", "write"}
      PROVE  \E k \in i .. j : c[k].cmd \in {"reset", "init"}
  <2>1. i \in 1 .. Len(l) /\ c[i] = l[i]
    BY <1>1, <1>2
  <2>2. CASE j \in 1 .. Len(l)
    <3>1. PICK k \in i .. j : l[k].cmd \in {"reset", "init"}
      BY <1>1, <1>2, <2>1, <2>2 DEF FlushOK
    <3>2. k \in 1 .. Len(l)
      BY <1>1, <2>1, <2>2
    <3> QED BY <1>1, <3>1, <3>2
  <2>3. CASE j = Len(l) + 1
    <3>1. Flushed(l, l[i].state) /\ l[i].status = "eio"
      BY <1>1, <1>2, <2>1, <2>3
    <3>2. PICK k \in i .. Len(l) : l[k].cmd \in {"reset", "init"}
      BY <2>1, <3>1 DEF Flushed
    <3>3. k \in i .. j /\ c[k] = l[k]
      BY <1>1, <2>1, <2>3, <3>2
    <3> QED BY <3>2, <3>3
  <2> QED BY <1>1, <2>2, <2>3
<1>3. FlushOK(c)
  BY <1>2 DEF FlushOK
<1> QED BY <1>3 DEF c

-----------------------------------------------------------------------------
(* The inductive invariant *)

Entry == [cmd : Cmds \cup {"reset"}, status : Status, state : 0 .. MaxAttaches]

(* The commands put so far, and their answers. *)
Issue == [id : 1 .. issued, cmd : Cmds]
Reply == [id : 1 .. issued, status : Status]

(* The types of the channel's own variables.                               *)
OwnTypes ==
    /\ command_queue \in RingOf(CommandSpace, Issue \cup {None})
    /\ status_queue \in RingOf(StatusSpace, Reply \cup {NoStatus})
    /\ received \in 0 .. issued /\ issued \in 0 .. MaxCommands
    /\ state \in 0 .. MaxAttaches /\ linked \in BOOLEAN
    /\ open \in [States -> BOOLEAN] /\ error_pending \in [States -> BOOLEAN]
    /\ aPC \in {"idle", "opening"}
    /\ dPC \in {"start", "loop", "space", "take", "compare", "copy", "taken", "switch",
                "io", "put", "full", "store"}
    /\ dState \in 0 .. state
    /\ dIndex \in Nat
    /\ dPC \in {"compare", "copy", "taken"} => dIndex \in 0 .. CommandSpace
    /\ dPC \in {"full", "store"} => dIndex \in 0 .. StatusSpace
    /\ reset_request \in BOOLEAN /\ rPC \in {"none", "command", "remove", "status", "error"}
    /\ resets \in 0 .. MaxResets /\ torn \in BOOLEAN
    /\ log \in Seq(Entry)

(* The handler is not installed before there is a DiskChannelState, so     *)
(* that DiskLife always finds one.                                         *)
Attached ==
    /\ aPC = "opening" => state # 0
    /\ state = 0 => handlerFunction[Handler] # "real" /\ hFunction[Handler] # "real"
    /\ dPC # "start" => dState # 0

(* DiskLife holds a command from its take to its put.                      *)
Handed ==
    /\ IF Holding THEN dCommand \in Issue
       ELSE IF dPC = "taken" THEN dCommand \in Issue \cup {None} ELSE dCommand = None
    /\ IF dPC \in {"put", "full", "store"} THEN dStatus \in Status ELSE dStatus = "none"

Resetting ==
    /\ rPC # "none" => reset_request
    /\ reset_request => resets # 0

(* What is on its way is in the order of the commands, ... *)
Ordered ==
    /\ Rising(statuses, received, issued) /\ Rising(commands, received, issued)
    /\ Holding => dCommand.id \in received + 1 .. issued
    /\ Below(statuses, commands)
    /\ Holding => /\ \A i \in 1 .. Len(statuses) : statuses[i].id < dCommand.id
                  /\ \A i \in 1 .. Len(commands) : dCommand.id < commands[i].id

Held == IF Holding THEN 1 ELSE 0

(* ... and without a gap while nothing was reset. *)
Complete ==
    resets = 0 =>
        /\ From(statuses, received)
        /\ Holding => dCommand.id = received + Len(statuses) + 1
        /\ From(commands, received + Len(statuses) + Held)
        /\ issued = received + Len(statuses) + Held + Len(commands)

(* What DiskLife has loaded of its queues is still so, and the room it     *)
(* found for its status is still there.                                    *)
Ringed ==
    /\ rPC = "command" => command_queue.put_index = 0
    /\ rPC = "status" => status_queue.put_index = 0
    /\ dPC = "compare" /\ dIndex # command_queue.take_index => commands # <<>>
    /\ dPC \in {"copy", "taken"} => dIndex = command_queue.take_index /\ commands # <<>>
    /\ dPC = "taken" => dCommand = Head(commands)
    /\ dPC \notin {"start", "loop", "space"} => Len(statuses) < StatusSpace
    /\ dPC \in {"full", "store"} =>
          /\ dIndex = status_queue.put_index
          /\ status_queue.element[dIndex] = [id |-> dCommand.id, status |-> dStatus]

(* All of this until a reset overlaps a take or a put of DiskLife's.       *)
Followed == Ordered /\ Complete /\ Ringed /\ ~Overlap

(* An attachment without a pending error was flushed.                      *)
Flushing ==
    /\ \A g \in States : ~error_pending[g] => Flushed(log, g)
    /\ dPC = "io" => ~error_pending[dState]
    /\ FlushOK(log)

DiskInv ==
    OwnTypes /\ Attached /\ Handed /\ Resetting /\ Flushing /\ (torn \/ Followed)

(* The variables that belong to no thread of Signals. *)
own == <<queues, states, life, reset, log>>

(* The names of unchanged variables. *)
USE DEF signals, queues, states, life, reset, masks, table, emulator, polling, handlers, history

LEMMA Bounds ==
  /\ CommandSpace \in Nat \ {0} /\ StatusSpace \in Nat \ {0}
  /\ MaxCommands \in Nat \ {0} /\ MaxAttaches \in Nat \ {0} /\ MaxResets \in Nat
BY DiskAssumption DEF DiskAssumption

(* A step, or none. *)
LEMMA NextIs ==
  ASSUME [DiskNext]_diskVars
  PROVE  (DiskStep /\ torn' = (torn \/ Overlap')) \/ UNCHANGED diskVars
BY DEF DiskNext, Watched

(* The contents of the queues follow their rings. *)
LEMMA ContentsStay ==
  ASSUME UNCHANGED rPC
  PROVE  /\ UNCHANGED command_queue => UNCHANGED commands
         /\ UNCHANGED status_queue => UNCHANGED statuses
BY DEF commands, statuses

LEMMA ContentsAre ==
  ASSUME OwnTypes
  PROVE  /\ commands \in Seq(Issue \cup {None}) /\ statuses \in Seq(Reply \cup {NoStatus})
         /\ Len(commands) \in Nat /\ Len(statuses) \in Nat
<1>1. Elements(command_queue) \in Seq(Issue \cup {None})
  BY Bounds, RingElements DEF OwnTypes
<1>2. Elements(status_queue) \in Seq(Reply \cup {NoStatus})
  BY Bounds, RingElements DEF OwnTypes
<1>3. commands \in Seq(Issue \cup {None}) /\ statuses \in Seq(Reply \cup {NoStatus})
  BY <1>1, <1>2 DEF commands, statuses
<1> QED BY <1>3

(* A queue that holds some of a set's elements holds some of a larger one's. *)
LEMMA RingOfMore ==
  ASSUME NEW E, NEW F, E \subseteq F, NEW space, NEW q \in RingOf(space, E)
  PROVE  q \in RingOf(space, F)
BY DEF RingOf

(* The invariant holds before the channel is attached. *)
LEMMA InitDiskInv == DiskInit => DiskInv
<1> SUFFICES ASSUME DiskInit PROVE DiskInv
  OBVIOUS
<1> USE Bounds DEF DiskInit, Holding
<1>1. OwnTypes
  <2>1. <<>> \in Seq(Entry)
    BY EmptyIs
  <2>2. /\ command_queue \in RingOf(CommandSpace, Issue \cup {None})
        /\ status_queue \in RingOf(StatusSpace, Reply \cup {NoStatus})
    BY RingNew
  <2>3. open \in [States -> BOOLEAN] /\ error_pending \in [States -> BOOLEAN]
    OBVIOUS
  <2>4. /\ received \in 0 .. issued /\ issued \in 0 .. MaxCommands
        /\ state \in 0 .. MaxAttaches /\ dState \in 0 .. state /\ resets \in 0 .. MaxResets
        /\ dIndex \in Nat
    OBVIOUS
  <2>5. /\ linked \in BOOLEAN /\ aPC \in {"idle", "opening"} /\ dPC = "start"
        /\ reset_request \in BOOLEAN /\ rPC = "none" /\ torn \in BOOLEAN /\ log = <<>>
    OBVIOUS
  <2> HIDE DEF DiskInit
  <2> QED BY <2>1, <2>2, <2>3, <2>4, <2>5 DEF OwnTypes
<1>2. Attached
  <2>1. Handler \in Signal
    BY SignalsAssumption DEF SignalsAssumption, Signal, Handler
  <2> QED BY <2>1 DEF Attached, Init
<1>3. Handed /\ Resetting
  BY DEF Handed, Resetting
<1>4. /\ Rising(<<>>, received, issued) /\ Below(<<>>, <<>>) /\ Len(<<>>) = 0
      /\ From(<<>>, 0)
  BY EmptyIs
<1>5. commands = <<>> /\ statuses = <<>>
  BY RingNew DEF commands, statuses
<1>6. Ordered
  BY <1>4, <1>5 DEF Ordered
<1>7. Complete
  BY <1>4, <1>5 DEF Complete, Held
<1>8. Flushing
  BY <1>4 DEF Flushing, Flushed, FlushOK
<1>9. Ringed /\ ~Overlap
  BY DEF Ringed, Overlap
<1> QED BY <1>1, <1>2, <1>3, <1>6, <1>7, <1>8, <1>9 DEF DiskInv, Followed

-----------------------------------------------------------------------------
(* The signals *)

(* The steps of the channel that leave the signals alone. *)
Inner ==
    \/ TakeStatus \/ RequestReset \/ AttachState \/ AttachFails
    \/ DiskLifeStart \/ DiskLifeFilled \/ DiskLifeSpace
    \/ TakeLoadPut \/ TakeCompare \/ TakeCopy \/ TakeStore
    \/ DiskLifeSwitch \/ TransferWins \/ TransferFails
    \/ PutFill \/ PutWait \/ PutStore
    \/ ResetCommandTake \/ ResetStatusPut \/ ResetStatusTake

LEMMA InnerSignals == Inner => UNCHANGED signals
BY DEF Inner, TakeStatus, RequestReset, AttachState, AttachFails,
       DiskLifeStart, DiskLifeFilled, DiskLifeSpace, TakeLoadPut, TakeCompare, TakeCopy,
       TakeStore, DiskLifeSwitch, TransferWins, TransferFails, Transfer,
       PutFill, PutWait, PutStore, ResetCommandTake, ResetStatusPut, ResetStatusTake

LEMMA InitDiskSignals == DiskInit => TypeOK
  BY InitTypeOK DEF DiskInit

(* Every step of the channel is a step of Signals, or changes no more than *)
(* the holder of signalLock.                                               *)
LEMMA NextDiskSignals == TypeOK /\ [DiskNext]_diskVars => TypeOK'
<1> SUFFICES ASSUME TypeOK, [DiskNext]_diskVars PROVE TypeOK'
  OBVIOUS
<1>1. ASSUME UNCHANGED signals PROVE TypeOK'
  BY <1>1 DEF TypeOK
<1>2. Handler \in Signal /\ Disk \in Channel
  BY SignalsAssumption, DiskAssumption DEF SignalsAssumption, DiskAssumption, Signal, Handler
<1>3. ASSUME signalLock' \in {Polling, NULL},
             UNCHANGED <<masks, table, emulator, polling, handlers, history>>
      PROVE  TypeOK'
  BY <1>3 DEF TypeOK
<1>4. CASE UNCHANGED diskVars
  BY <1>1, <1>4 DEF diskVars
<1>5. CASE (\E cmd \in Cmds : PutCommand(cmd)) \/ AttachOpen \/ DetachRemove
  <2>1. GuestRaise(Disk) \/ InstallFunction(Disk) \/ RemoveFunction(Disk) \/ UNCHANGED signals
    BY <1>5 DEF PutCommand, AttachOpen, DetachRemove
  <2> QED BY <1>1, <1>2, <2>1, ChannelTypeOK
<1>6. CASE EmulatorSignals \/ AttachDetachEnd
  BY <1>6, EmulatorTypeOK DEF EmulatorSignals, AttachDetachEnd, EmulatorStep
<1>7. CASE HandlerSignals \/ NullSignalHandler \/ DiskLifeReturn \/ DiskLifeDefer
  <2>1. HandlerStep(Handler)
    BY <1>7 DEF HandlerSignals, NullSignalHandler, DiskLifeReturn, DiskLifeDefer, HandlerStep
  <2> QED BY <1>2, <2>1, HandlerTypeOK
<1>8. CASE PollSignals
  BY <1>8, PollTypeOK DEF PollSignals, PollStep
<1>9. CASE ResetCommandPut \/ ResetError
  <2>1. UNCHANGED signalLock \/ signalLock' \in {Polling, NULL}
    BY <1>9 DEF ResetCommandPut, ResetError
  <2>2. UNCHANGED <<masks, table, emulator, polling, handlers, history>>
    BY <1>9 DEF ResetCommandPut, ResetError
  <2> QED BY <1>1, <1>3, <2>1, <2>2
<1>10. CASE Inner
  BY <1>1, <1>10, InnerSignals
<1> QED
  BY <1>4, <1>5, <1>6, <1>7, <1>8, <1>9, <1>10, NextIs DEF DiskStep, DiskLife, PollDisk, Inner

-----------------------------------------------------------------------------
(* The steps *)

(* The steps that leave the channel's own variables alone. *)
OnlySignals ==
    NullSignalHandler \/ DetachRemove \/ EmulatorSignals \/ HandlerSignals \/ PollSignals

LEMMA OnlySignalsOwn == OnlySignals \/ UNCHANGED diskVars => UNCHANGED own
BY DEF OnlySignals, NullSignalHandler, DetachRemove, EmulatorSignals, HandlerSignals, PollSignals,
       own, diskVars

(* What the switch answers. *)
LEMMA VerdictIs ==
  ASSUME dCommand \in Issue
  PROVE  /\ Verdict \in (Status \ {"eio"}) \cup {"io"}
         /\ Verdict = "io" => ~error_pending[dState]
         /\ Verdict = "won" => dCommand.cmd \notin {"read", "write"}
<1>1. dCommand.cmd \in {"read", "write", "reset", "init", "other"}
  BY DiskAssumption DEF DiskAssumption, Issue
<1>2. CASE dCommand.cmd \in {"reset", "init"}
  BY <1>2 DEF Verdict, Status
<1>3. CASE dCommand.cmd = "other"
  BY <1>3 DEF Verdict, Status
<1>4. CASE dCommand.cmd \in {"read", "write"}
  <2>1. Verdict = IF dCommand.cmd = "write" /\ ReadOnly THEN "erofs"
                  ELSE IF error_pending[dState] THEN "abort"
                  ELSE IF open[dState] THEN "io" ELSE "enxio"
    BY <1>4 DEF Verdict
  <2> HIDE DEF Verdict
  <2> QED BY <2>1 DEF Status
<1> QED BY <1>1, <1>2, <1>3, <1>4

(* The types are kept: what is received was issued.                        *)
LEMMA NextOwnTypes == DiskInv /\ [DiskNext]_diskVars => OwnTypes'
<1> SUFFICES ASSUME DiskInv, [DiskNext]_diskVars PROVE OwnTypes'
  OBVIOUS
<1> USE Bounds DEF OwnTypes
<1>1. OwnTypes /\ Attached /\ Handed
  BY DEF DiskInv
<1> HIDE DEF OwnTypes
<1>2. torn' \in BOOLEAN
  BY <1>1, NextIs DEF OwnTypes, diskVars, Overlap
<1> DEFINE CQ == command_queue' \in RingOf(CommandSpace, (Issue \cup {None})')
           SQ == status_queue' \in RingOf(StatusSpace, (Reply \cup {NoStatus})')
<1>3. /\ command_queue \in RingOf(CommandSpace, Issue \cup {None})
      /\ status_queue \in RingOf(StatusSpace, Reply \cup {NoStatus})
  BY <1>1 DEF OwnTypes
<1>4. /\ UNCHANGED <<issued, command_queue>> => CQ
      /\ UNCHANGED <<issued, status_queue>> => SQ
      /\ UNCHANGED issued => UNCHANGED <<Issue, Reply>>
  BY <1>3 DEF Issue, Reply
<1> HIDE DEF CQ, SQ
<1>5. ASSUME CQ, SQ, UNCHANGED <<issued, received, states, life, reset_request, rPC, resets, log>>
      PROVE  OwnTypes'
  BY <1>1, <1>2, <1>5 DEF OwnTypes, CQ, SQ
<1>6. CASE OnlySignals \/ UNCHANGED diskVars
  BY <1>4, <1>5, <1>6, OnlySignalsOwn DEF own
<1>7. ASSUME NEW cmd \in Cmds, PutCommand(cmd) PROVE OwnTypes'
  <2> DEFINE e == [id |-> issued + 1, cmd |-> cmd]
  <2>1. /\ command_queue' = Put(command_queue, e) /\ EmbQueueSpace(command_queue) > 0
        /\ issued' = issued + 1 /\ issued < MaxCommands
        /\ UNCHANGED <<status_queue, received, states, life, reset, log>>
    BY <1>7 DEF PutCommand
  <2>2. /\ issued \in Nat /\ Issue \subseteq Issue' /\ Reply \subseteq Reply' /\ e \in Issue'
        /\ issued' \in 0 .. MaxCommands /\ received \in 0 .. issued'
    BY <1>1, <1>7, <2>1 DEF OwnTypes, Issue, Reply
  <2> HIDE DEF e
  <2>3. CQ
    <3>1. command_queue \in RingOf(CommandSpace, Issue' \cup {None})
      BY <1>3, <2>2, RingOfMore
    <3> QED BY <2>1, <2>2, <3>1, RingPut DEF CQ
  <2>4. SQ
    BY <1>3, <2>1, <2>2, RingOfMore DEF SQ
  <2> QED BY <1>1, <1>2, <2>1, <2>2, <2>3, <2>4 DEF OwnTypes, CQ, SQ
<1>8. CASE TakeStatus
  <2>1. /\ EmbQueueFilled(status_queue) > 0 /\ status_queue' = Take(status_queue)
        /\ received' = IF First(status_queue) = NoStatus THEN received
                       ELSE First(status_queue).id
        /\ UNCHANGED <<command_queue, issued, states, life, reset, log>>
    BY <1>8 DEF TakeStatus
  <2>2. SQ
    BY <1>3, <1>4, <2>1, RingTake DEF SQ
  <2>3. First(status_queue) \in Reply \cup {NoStatus}
    <3>1. 0 \in 0 .. StatusSpace
      OBVIOUS
    <3> QED BY <1>3, <3>1, RingStores
  <2>4. received' \in 0 .. issued /\ CQ
    BY <1>1, <1>4, <2>1, <2>3 DEF OwnTypes, Reply
  <2> QED BY <1>1, <1>2, <2>1, <2>2, <2>4 DEF OwnTypes, CQ, SQ
<1>9. CASE RequestReset \/ AttachState \/ AttachFails \/ AttachOpen \/ AttachDetachEnd
  <2>1. UNCHANGED <<queues, life, rPC, log>> /\ CQ /\ SQ
    BY <1>4, <1>9 DEF RequestReset, AttachState, AttachFails, AttachOpen, AttachDetachEnd
  <2>2. CASE RequestReset
    BY <1>1, <1>2, <2>1, <2>2 DEF RequestReset, OwnTypes, CQ, SQ
  <2>3. CASE AttachState \/ AttachFails
    BY <1>1, <1>2, <2>1, <2>3, SMTT(30) DEF AttachState, AttachFails, OwnTypes, CQ, SQ
  <2>4. CASE AttachOpen \/ AttachDetachEnd
    <3>1. /\ open' \in [States -> BOOLEAN] /\ linked' \in BOOLEAN /\ aPC' \in {"idle", aPC}
          /\ UNCHANGED <<state, error_pending, reset>>
      <4>1. CASE AttachOpen
        BY <1>1, <4>1 DEF AttachOpen, OwnTypes
      <4>2. CASE AttachDetachEnd
        BY <1>1, <4>2 DEF AttachDetachEnd, OwnTypes
      <4> QED BY <2>4, <4>1, <4>2
    <3> QED BY <1>1, <1>2, <2>1, <3>1 DEF OwnTypes, CQ, SQ
  <2> QED BY <1>9, <2>2, <2>3, <2>4
<1>10. CASE DiskLifeStart \/ DiskLifeReturn \/ DiskLifeFilled \/ DiskLifeDefer \/ DiskLifeSpace
  <2>1. /\ UNCHANGED <<queues, states, dIndex, reset, log>> /\ CQ /\ SQ
        /\ dPC' \in {"start", "loop", "space", "take"} /\ dState' \in {0, state, dState}
    BY <1>4, <1>10
    DEF DiskLifeStart, DiskLifeReturn, DiskLifeFilled, DiskLifeDefer, DiskLifeSpace
  <2> QED BY <1>1, <1>2, <2>1 DEF OwnTypes, CQ, SQ
<1>11. CASE TakeLoadPut \/ TakeCompare \/ TakeCopy
  <2>1. /\ UNCHANGED <<queues, states, dState, reset, log>> /\ CQ /\ SQ
        /\ dPC' \in {"compare", "copy", "taken", "loop"}
        /\ dIndex' \in {0, dIndex, command_queue.put_index, command_queue.take_index}
        /\ dIndex' = dIndex => dIndex \in 0 .. CommandSpace \/ dIndex' = command_queue.put_index
    BY <1>1, <1>4, <1>11 DEF TakeLoadPut, TakeCompare, TakeCopy, OwnTypes
  <2>2. dIndex' \in 0 .. CommandSpace
    <3>1. 0 \in 0 .. CommandSpace
      OBVIOUS
    <3>2. command_queue.put_index \in 0 .. CommandSpace /\ command_queue.take_index \in 0 .. CommandSpace
      BY <1>3, <3>1, RingStores
    <3> QED BY <2>1, <3>1, <3>2
  <2> QED BY <1>1, <1>2, <2>1, <2>2 DEF OwnTypes, CQ, SQ
<1>12. CASE TakeStore
  <2>1. /\ command_queue' = StoreTakeIndex(command_queue, After(command_queue, dIndex))
        /\ dIndex \in 0 .. CommandSpace /\ dIndex' = 0 /\ dPC' \in {"loop", "switch"}
        /\ UNCHANGED <<status_queue, issued, received, states, dState, reset, log>>
    BY <1>1, <1>12 DEF TakeStore, OwnTypes
  <2>2. CQ /\ SQ
    BY <1>3, <1>4, <2>1, RingStores DEF CQ
  <2> QED BY <1>1, <1>2, <2>1, <2>2 DEF OwnTypes, CQ, SQ
<1>13. Holding => dCommand \in Issue /\ dState \in States
  BY <1>1 DEF Handed, Holding, Attached, OwnTypes, States
<1>14. ASSUME NEW status \in Status, dCommand \in Issue, dState \in States
       PROVE  Append(log, Outcome(status)) \in Seq(Entry)
  <2>1. Outcome(status) \in Entry
    BY <1>14 DEF Outcome, Entry, Issue, States
  <2> QED BY <1>1, <2>1, AppendTo DEF OwnTypes
<1>15. CASE DiskLifeSwitch
  <2>1. UNCHANGED <<queues, state, open, linked, aPC, dState, dIndex, reset>> /\ CQ /\ SQ
    BY <1>4, <1>15 DEF DiskLifeSwitch
  <2>2. CASE Verdict = "io"
    BY <1>1, <1>2, <1>15, <2>1, <2>2 DEF DiskLifeSwitch, OwnTypes, CQ, SQ
  <2>3. CASE Verdict # "io"
    <3>1. dCommand \in Issue /\ dState \in States
      BY <1>13, <1>15 DEF DiskLifeSwitch, Holding
    <3>2. Verdict \in Status
      BY <2>3, <3>1, VerdictIs
    <3>3. /\ dPC' = "put" /\ log' = Append(log, Outcome(Verdict))
          /\ error_pending' = [error_pending EXCEPT ![dState] =
                                 @ /\ dCommand.cmd \notin {"reset", "init"}]
      BY <1>15, <2>3 DEF DiskLifeSwitch
    <3>4. log' \in Seq(Entry)
      BY <1>14, <3>1, <3>2, <3>3
    <3>5. error_pending' \in [States -> BOOLEAN]
      BY <1>1, <3>1, <3>3 DEF OwnTypes
    <3> QED BY <1>1, <1>2, <2>1, <3>3, <3>4, <3>5 DEF OwnTypes, CQ, SQ
  <2> QED BY <2>2, <2>3
<1>16. CASE TransferWins \/ TransferFails
  <2>1. dCommand \in Issue /\ dState \in States
    BY <1>13, <1>16 DEF TransferWins, TransferFails, Transfer, Holding
  <2>2. PICK status \in {"won", "eio"}, pending \in BOOLEAN : Transfer(status, pending)
    BY <1>1, <1>16, <2>1 DEF TransferWins, TransferFails, OwnTypes
  <2>3. log' \in Seq(Entry)
    BY <1>14, <2>1, <2>2 DEF Transfer, Status
  <2>4. error_pending' \in [States -> BOOLEAN]
    BY <1>1, <2>2 DEF Transfer, OwnTypes
  <2>5. CQ /\ SQ
    BY <1>4, <2>2 DEF Transfer
  <2> QED BY <1>1, <1>2, <2>2, <2>3, <2>4, <2>5 DEF Transfer, OwnTypes, CQ, SQ
<1>17. CASE PutFill
  <2> DEFINE e == [id |-> dCommand.id, status |-> dStatus]
  <2>1. e \in Reply
    BY <1>1, <1>13, <1>17 DEF PutFill, Handed, Holding, Issue, Reply
  <2>2. /\ status_queue' = Filling(status_queue, e) /\ dIndex' = status_queue.put_index
        /\ dPC' = "full"
        /\ UNCHANGED <<command_queue, issued, received, states, dState, reset, log>>
    BY <1>17 DEF PutFill
  <2> HIDE DEF e
  <2>3. CQ /\ SQ
    BY <1>3, <1>4, <2>1, <2>2, RingFilling DEF SQ
  <2>4. dIndex' \in 0 .. StatusSpace
    BY <1>3, <2>2 DEF RingOf
  <2> QED BY <1>1, <1>2, <2>2, <2>3, <2>4 DEF OwnTypes, CQ, SQ
<1>18. CASE PutWait
  <2>1. /\ UNCHANGED <<queues, states, dState, dIndex, reset, log>> /\ CQ /\ SQ
        /\ dPC = "full" /\ dPC' = "store"
    BY <1>4, <1>18 DEF PutWait
  <2> QED BY <1>1, <1>2, <2>1 DEF OwnTypes, CQ, SQ
<1>19. CASE PutStore
  <2>1. /\ status_queue' = StorePutIndex(status_queue, After(status_queue, dIndex))
        /\ dIndex \in 0 .. StatusSpace /\ dIndex' = 0 /\ dPC' = "loop"
        /\ UNCHANGED <<command_queue, issued, received, states, dState, reset, log>>
    BY <1>1, <1>19 DEF PutStore, OwnTypes
  <2>2. CQ /\ SQ
    BY <1>3, <1>4, <2>1, RingStores DEF SQ
  <2> QED BY <1>1, <1>2, <2>1, <2>2 DEF OwnTypes, CQ, SQ
<1>20. CASE ResetCommandPut \/ ResetCommandTake \/ ResetStatusPut \/ ResetStatusTake
  <2>1. /\ command_queue' \in {command_queue, StorePutIndex(command_queue, 0),
                               StoreTakeIndex(command_queue, 0)}
        /\ status_queue' \in {status_queue, StorePutIndex(status_queue, 0),
                              StoreTakeIndex(status_queue, 0)}
        /\ UNCHANGED <<issued, received, states, life, resets, log>>
        /\ reset_request' \in {FALSE, reset_request}
        /\ rPC' \in {rPC, "command", "remove", "status", "error"}
    BY <1>20 DEF ResetCommandPut, ResetCommandTake, ResetStatusPut, ResetStatusTake
  <2>2. CQ /\ SQ
    BY <1>3, <1>4, <2>1, RingReset DEF CQ, SQ
  <2>3. reset_request' \in BOOLEAN /\ rPC' \in {"none", "command", "remove", "status", "error"}
    BY <1>1, <2>1 DEF OwnTypes
  <2>4. UNCHANGED <<issued, received, states, life, resets, log>>
    BY <2>1
  <2> QED BY <1>1, <1>2, <2>2, <2>3, <2>4 DEF OwnTypes, CQ, SQ
<1>21. CASE ResetError
  <2> DEFINE e == [cmd |-> "reset", status |-> "won", state |-> state]
  <2>1. e \in Entry
    BY <1>1 DEF Entry, Status, OwnTypes
  <2>2. log' = Append(log, e) /\ UNCHANGED <<queues, state, linked, aPC, life, resets>> /\ CQ /\ SQ
        /\ reset_request' = FALSE /\ rPC' = "none"
    BY <1>4, <1>21 DEF ResetError
  <2> HIDE DEF e
  <2>3. log' \in Seq(Entry)
    BY <1>1, <2>1, <2>2, AppendTo DEF OwnTypes
  <2>4. error_pending' \in [States -> BOOLEAN] /\ open' \in [States -> BOOLEAN]
    BY <1>1, <1>21 DEF ResetError, OwnTypes
  <2> QED BY <1>1, <1>2, <2>2, <2>3, <2>4 DEF OwnTypes, CQ, SQ
<1> QED
  BY <1>6, <1>7, <1>8, <1>9, <1>10, <1>11, <1>12, <1>15, <1>16, <1>17, <1>18, <1>19, <1>20,
     <1>21, NextIs DEF DiskStep, DiskLife, PollDisk, OnlySignals

(* A real handler is installed by AttachDiskChannel and loaded from the    *)
(* table, never otherwise.                                                 *)
LEMMA FunctionsFrom ==
  ASSUME TypeOK, [DiskNext]_diskVars
  PROVE  /\ handlerFunction'[Handler] = "real" => handlerFunction[Handler] = "real" \/ aPC = "opening"
         /\ hFunction'[Handler] = "real"
              => hFunction[Handler] = "real" \/ handlerFunction[Handler] = "real"
<1> DEFINE G == /\ handlerFunction'[Handler] = "real"
                     => handlerFunction[Handler] = "real" \/ aPC = "opening"
                /\ hFunction'[Handler] = "real"
                     => hFunction[Handler] = "real" \/ handlerFunction[Handler] = "real"
<1>1. Handler \in Signal
  BY SignalsAssumption DEF SignalsAssumption, Signal, Handler
<1>2. /\ handlerFunction \in [Signal -> {"none", "real", "null"}]
      /\ hFunction \in [Signal -> {"none", "real", "null"}]
  BY DEF TypeOK
<1>3. ASSUME UNCHANGED <<handlerFunction, hFunction>> PROVE G
  BY <1>3
<1>4. CASE \E cmd \in Cmds : PutCommand(cmd)
  BY <1>3, <1>4 DEF PutCommand, GuestRaise
<1>5. CASE AttachOpen
  BY <1>5 DEF AttachOpen, InstallFunction
<1>6. CASE DetachRemove
  BY <1>1, <1>2, <1>6 DEF DetachRemove, RemoveFunction, RemoveStoring
<1>7. CASE EmulatorSignals \/ AttachDetachEnd
  BY <1>3, <1>7
     DEF EmulatorSignals, GuestStore, SendInterruptToLifeSupport, InstallArgument,
         RemoveArgument, AttachDetachEnd, StoreQueueSignal
<1>8. CASE HandlerSignals
  <2>1. CASE HandlerLoadFunction(Handler)
    BY <1>1, <1>2, <2>1 DEF HandlerLoadFunction
  <2>2. CASE SignalLater(Handler)
    BY <1>1, <1>2, <2>2 DEF SignalLater
  <2> QED
    BY <1>3, <1>8, <2>1, <2>2
       DEF HandlerSignals, HandlerCheck, HandlerBlock, HandlerClear, HandlerLoadArgument
<1>9. CASE NullSignalHandler \/ DiskLifeReturn
  BY <1>1, <1>2, <1>9 DEF NullSignalHandler, DiskLifeReturn, HandlerReturn
<1>10. CASE DiskLifeDefer
  BY <1>3, <1>10 DEF DiskLifeDefer, HandlerDefer
<1>11. CASE PollSignals
  BY <1>3, <1>11 DEF PollSignals, PollTick, TickRaising, PollStore
<1>12. CASE Inner \/ ResetCommandPut \/ ResetError
  BY <1>3, <1>12, InnerSignals DEF ResetCommandPut, ResetError
<1>13. CASE UNCHANGED diskVars
  BY <1>3, <1>13 DEF diskVars
<1> QED
  BY <1>4, <1>5, <1>6, <1>7, <1>8, <1>9, <1>10, <1>11, <1>12, <1>13, NextIs
     DEF DiskStep, DiskLife, PollDisk, Inner

(* DiskLife has a DiskChannelState, and holds a command from its take to   *)
(* its put.                                                                *)
LEMMA NextAttached == TypeOK /\ DiskInv /\ [DiskNext]_diskVars => Attached' /\ Handed' /\ Resetting'
<1> SUFFICES ASSUME TypeOK, DiskInv, [DiskNext]_diskVars PROVE Attached' /\ Handed' /\ Resetting'
  OBVIOUS
<1> USE DEF Holding
<1>1. OwnTypes /\ Attached /\ Handed /\ Resetting
  BY DEF DiskInv
<1>2. ASSUME UNCHANGED <<state, aPC, dState>>, dPC' # "start" => dPC # "start" PROVE Attached'
  BY <1>1, <1>2, FunctionsFrom DEF Attached
<1>3. ASSUME UNCHANGED <<dPC, dCommand, dStatus, issued>> PROVE Handed'
  BY <1>1, <1>3 DEF Handed, Issue
<1>4. ASSUME UNCHANGED reset PROVE Resetting'
  BY <1>1, <1>4 DEF Resetting
<1>5. CASE OnlySignals \/ UNCHANGED diskVars
  BY <1>2, <1>3, <1>4, <1>5, OnlySignalsOwn DEF own
<1>6. CASE TakeStatus \/ AttachDetachEnd
  BY <1>2, <1>3, <1>4, <1>6 DEF TakeStatus, AttachDetachEnd
<1>7. CASE \E cmd \in Cmds : PutCommand(cmd)
  <2>1. issued' = issued + 1 /\ UNCHANGED <<states, life, reset>>
    BY <1>7 DEF PutCommand
  <2>2. Issue \subseteq Issue'
    BY <1>1, <2>1, Bounds DEF OwnTypes, Issue
  <2>3. Handed'
    BY <1>1, <2>1, <2>2 DEF Handed
  <2> QED BY <1>2, <1>4, <2>1, <2>3
<1>8. CASE RequestReset
  BY <1>1, <1>2, <1>3, <1>8, Bounds DEF RequestReset, Resetting, OwnTypes
<1>9. CASE AttachState
  <2>1. state' # 0 /\ aPC' = "opening" /\ UNCHANGED <<issued, life, reset>>
    BY <1>1, <1>9 DEF AttachState, OwnTypes
  <2> QED BY <1>1, <1>3, <1>4, <2>1 DEF Attached
<1>10. CASE AttachFails \/ AttachOpen
  <2>1. aPC' = "idle" /\ state # 0 /\ UNCHANGED <<issued, state, life, reset>>
    BY <1>1, <1>10 DEF AttachFails, AttachOpen, Attached
  <2> QED BY <1>1, <1>3, <1>4, <2>1 DEF Attached
<1>11. CASE DiskLifeStart
  <2>1. /\ dState' = state /\ dPC' = "loop" /\ hFunction[Handler] = "real" /\ dPC = "start"
        /\ UNCHANGED <<signals, issued, state, aPC, dCommand, dStatus, reset>>
    BY <1>11 DEF DiskLifeStart, InDiskLife
  <2>2. state # 0
    BY <1>1, <2>1 DEF Attached
  <2>3. Attached'
    BY <1>1, <2>1, <2>2 DEF Attached
  <2> QED BY <1>1, <1>4, <2>1, <2>3 DEF Handed
<1>12. CASE DiskLifeReturn \/ DiskLifeDefer
  <2>1. /\ dPC' = "start" /\ dPC \in {"loop", "space"}
        /\ UNCHANGED <<issued, state, aPC, dCommand, dStatus, reset>>
    BY <1>12 DEF DiskLifeReturn, DiskLifeDefer
  <2>2. Attached'
    BY <1>1, <2>1, FunctionsFrom DEF Attached
  <2> QED BY <1>1, <1>4, <2>1, <2>2 DEF Handed
<1>13. CASE DiskLifeFilled \/ DiskLifeSpace \/ TakeLoadPut \/ TakeCompare
  <2>1. /\ dPC \in {"loop", "space", "take", "compare"}
        /\ dPC' \in {"loop", "space", "take", "compare", "copy"}
        /\ UNCHANGED <<issued, state, aPC, dState, dCommand, dStatus, reset>>
    BY <1>13 DEF DiskLifeFilled, DiskLifeSpace, TakeLoadPut, TakeCompare
  <2>2. Handed'
    BY <1>1, <2>1 DEF Handed
  <2> QED BY <1>2, <1>4, <2>1, <2>2
<1>14. CASE TakeCopy
  <2>1. /\ dPC = "copy" /\ dPC' = "taken" /\ dCommand' = command_queue.element[dIndex]
        /\ UNCHANGED <<issued, state, aPC, dState, dStatus, reset>>
    BY <1>14 DEF TakeCopy
  <2>2. dCommand' \in Issue \cup {None} /\ Issue' = Issue
    <3>1. dIndex \in 0 .. CommandSpace /\ command_queue \in RingOf(CommandSpace, Issue \cup {None})
      BY <1>1, <2>1 DEF OwnTypes
    <3>2. command_queue.element[dIndex] \in Issue \cup {None}
      BY <3>1, Bounds, RingStores
    <3> QED BY <2>1, <3>2 DEF Issue
  <2>3. Handed'
    BY <1>1, <2>1, <2>2 DEF Handed
  <2> QED BY <1>2, <1>4, <2>1, <2>3
<1>15. CASE TakeStore
  <2>1. /\ dPC = "taken" /\ dPC' = (IF dCommand = None THEN "loop" ELSE "switch")
        /\ UNCHANGED <<issued, state, aPC, dState, dCommand, dStatus, reset>>
    BY <1>15 DEF TakeStore
  <2>2. Handed'
    BY <1>1, <2>1 DEF Handed, Issue
  <2> QED BY <1>2, <1>4, <2>1, <2>2
<1>16. CASE DiskLifeSwitch
  <2>1. /\ dPC = "switch" /\ UNCHANGED <<issued, state, aPC, dState, dCommand, reset>>
        /\ \/ dPC' = "io" /\ UNCHANGED dStatus
           \/ Verdict # "io" /\ dPC' = "put" /\ dStatus' = Verdict
    BY <1>16 DEF DiskLifeSwitch
  <2>2. dCommand \in Issue
    BY <1>1, <2>1 DEF Handed
  <2>3. Verdict # "io" => Verdict \in Status
    BY <2>2, VerdictIs
  <2>4. Handed'
    BY <1>1, <2>1, <2>2, <2>3 DEF Handed, Issue
  <2>5. dPC' # "start"
    BY <2>1
  <2> QED BY <1>2, <1>4, <2>1, <2>4
<1>17. CASE TransferWins \/ TransferFails
  <2>1. /\ dPC = "io" /\ dPC' = "put" /\ dStatus' \in Status
        /\ UNCHANGED <<issued, state, aPC, dState, dCommand, reset>>
    BY <1>17 DEF TransferWins, TransferFails, Transfer, Status
  <2>2. Handed'
    BY <1>1, <2>1 DEF Handed, Issue
  <2> QED BY <1>2, <1>4, <2>1, <2>2
<1>18. CASE PutFill \/ PutWait
  <2>1. /\ dPC \in {"put", "full"} /\ dPC' \in {"full", "store"}
        /\ UNCHANGED <<issued, state, aPC, dState, dCommand, dStatus, reset>>
    BY <1>18 DEF PutFill, PutWait
  <2>2. Handed'
    BY <1>1, <2>1 DEF Handed, Issue
  <2> QED BY <1>2, <1>4, <2>1, <2>2
<1>19. CASE PutStore
  <2>1. /\ dPC = "store" /\ dPC' = "loop" /\ dCommand' = None /\ dStatus' = "none"
        /\ UNCHANGED <<state, aPC, dState, reset>>
    BY <1>19 DEF PutStore
  <2>2. Handed'
    BY <2>1 DEF Handed
  <2> QED BY <1>2, <1>4, <2>1, <2>2
<1>20. CASE ResetCommandPut \/ ResetCommandTake \/ ResetStatusPut \/ ResetStatusTake \/ ResetError
  <2>1. UNCHANGED <<issued, state, aPC, life>>
    BY <1>20
    DEF ResetCommandPut, ResetCommandTake, ResetStatusPut, ResetStatusTake, ResetError
  <2>2. Resetting'
    BY <1>1, <1>20
    DEF ResetCommandPut, ResetCommandTake, ResetStatusPut, ResetStatusTake, ResetError, Resetting
  <2> QED BY <1>2, <1>3, <2>1, <2>2
<1> QED
  BY <1>5, <1>6, <1>7, <1>8, <1>9, <1>10, <1>11, <1>12, <1>13, <1>14, <1>15, <1>16, <1>17,
     <1>18, <1>19, <1>20, NextIs DEF DiskStep, DiskLife, PollDisk, OnlySignals

-----------------------------------------------------------------------------
(* What is on its way *)

(* The steps that only move DiskLife on. *)
Moves ==
    \/ DiskLifeStart \/ DiskLifeReturn \/ DiskLifeFilled \/ DiskLifeDefer \/ DiskLifeSpace
    \/ TakeLoadPut \/ TakeCompare \/ TakeCopy
    \/ DiskLifeSwitch \/ TransferWins \/ TransferFails
    \/ PutWait

LEMMA LineStays ==
  ASSUME Ordered, Complete, UNCHANGED <<commands, statuses, issued, received>>,
         Holding' <=> Holding, Holding => UNCHANGED dCommand, resets' = 0 => resets = 0
  PROVE  Ordered' /\ Complete'
<1>1. Held' = Held
  BY DEF Held
<1>2. CASE Holding
  BY <1>1, <1>2 DEF Ordered, Complete
<1>3. CASE ~Holding
  BY <1>1, <1>3 DEF Ordered, Complete
<1> QED BY <1>2, <1>3

LEMMA FollowedStays ==
  ASSUME Followed, UNCHANGED <<queues, life, rPC>>, resets' = 0 => resets = 0
  PROVE  Followed'
<1>1. UNCHANGED <<commands, statuses>>
  BY ContentsStay
<1>2. Ordered' /\ Complete'
  BY <1>1, LineStays DEF Followed, Holding
<1>3. Ringed' /\ Overlap' = Overlap
  BY <1>1 DEF Followed, Ringed, Overlap
<1> QED BY <1>2, <1>3 DEF Followed

(* The guest puts a command or takes a status, with no reset under way.    *)
LEMMA PutFollowed ==
  ASSUME OwnTypes, Handed, Resetting, Followed, NEW cmd \in Cmds, PutCommand(cmd)
  PROVE  Followed'
<1> DEFINE e == [id |-> issued + 1, cmd |-> cmd]
           T == Issue' \cup {None}
<1>1. /\ Ordered /\ Complete /\ Ringed /\ rPC = "none"
      /\ received \in Int /\ issued \in Nat /\ received <= issued
  BY Bounds DEF Followed, Resetting, OwnTypes, PutCommand, AtGuest
<1>2. /\ command_queue' = Put(command_queue, e) /\ EmbQueueSpace(command_queue) > 0
      /\ issued' = issued + 1
      /\ UNCHANGED <<status_queue, received, life, reset>>
  BY DEF PutCommand
<1>3. e.id = issued + 1 /\ e \in T /\ Issue \subseteq Issue'
  BY <1>1, <1>2 DEF Issue
<1> HIDE DEF e
<1>4. command_queue \in RingOf(CommandSpace, T)
  BY <1>3, RingOfMore DEF OwnTypes
<1>5. /\ Elements(command_queue') = Append(Elements(command_queue), e)
      /\ command_queue'.take_index = command_queue.take_index
  BY <1>2, <1>3, <1>4, Bounds, RingPut
<1>6. /\ commands' = Append(commands, e) /\ statuses' = statuses
      /\ commands \in Seq(T) /\ statuses \in Seq(Reply \cup {NoStatus})
      /\ Len(commands) \in Nat /\ Len(statuses) \in Nat
  <2>1. Elements(command_queue) \in Seq(T)
    BY <1>4, Bounds, RingElements
  <2> QED BY <1>1, <1>2, <1>5, <2>1, ContentsStay, ContentsAre DEF commands
<1> HIDE DEF T
<1>7. /\ \A i \in 1 .. Len(statuses) : statuses[i].id < e.id
      /\ \A i \in 1 .. Len(commands) : commands[i].id < e.id
      /\ Holding => dCommand.id < e.id /\ dCommand.id \in received + 1 .. issued'
  BY <1>1, <1>2, <1>3 DEF Ordered, Rising
<1>8. Rising(statuses, received, issued + 1) /\ Rising(commands', received, issued + 1)
  <2>1. e.id \in received + 1 .. issued + 1
    BY <1>1, <1>3
  <2>2. Rising(statuses, received, issued) /\ Rising(commands, received, issued)
    BY <1>1 DEF Ordered
  <2>3. issued + 1 \in Int /\ issued <= issued + 1 /\ issued \in Int
    BY <1>1
  <2> QED BY <1>1, <1>3, <1>6, <1>7, <2>1, <2>2, <2>3, RisingWiden, RisingAppend
<1>9. Below(statuses, commands')
  BY <1>1, <1>3, <1>6, <1>7, BelowAppend DEF Ordered
<1>10. Holding' <=> Holding
  BY <1>2 DEF Holding
<1>11. Holding => \A i \in 1 .. Len(commands') : dCommand.id < commands'[i].id
  BY <1>1, <1>3, <1>6, <1>7, AppendTo DEF Ordered
<1>12. Ordered'
  BY <1>1, <1>2, <1>6, <1>7, <1>8, <1>9, <1>10, <1>11 DEF Ordered
<1>13. ASSUME resets = 0 PROVE Complete'
  <2> DEFINE n == received + Len(statuses) + Held
  <2>1. /\ From(statuses, received) /\ (Holding => dCommand.id = received + Len(statuses) + 1)
        /\ From(commands, n) /\ issued = n + Len(commands)
    BY <1>1, <1>13 DEF Complete
  <2>2. n \in Int /\ e.id = n + Len(commands) + 1 /\ issued + 1 = n + (Len(commands) + 1)
    BY <1>1, <1>3, <1>6, <2>1 DEF Held
  <2> HIDE DEF n
  <2>3. From(commands', n) /\ Len(commands') = Len(commands) + 1
    BY <1>3, <1>6, <2>1, <2>2, FromAppend, AppendTo
  <2>4. Held' = Held
    BY <1>10 DEF Held
  <2> QED BY <1>2, <1>6, <1>10, <2>1, <2>2, <2>3, <2>4 DEF Complete, n
<1>14. Complete'
  BY <1>2, <1>13 DEF Complete
<1>15. Ringed' /\ Overlap' = Overlap
  <2>1. commands # <<>> => commands' # <<>> /\ Head(commands') = Head(commands)
    BY <1>3, <1>6
  <2>2. commands' # <<>>
    BY <1>3, <1>6
  <2> QED BY <1>1, <1>2, <1>5, <1>6, <2>1, <2>2 DEF Ringed, Overlap
<1> QED BY <1>12, <1>14, <1>15 DEF Followed

LEMMA TakeFollowed ==
  ASSUME OwnTypes, Resetting, Followed, TakeStatus
  PROVE  Followed' /\ First(status_queue) # NoStatus
<1> DEFINE h == Head(statuses)
           T == Reply \cup {NoStatus}
<1>1. /\ Ordered /\ Complete /\ Ringed /\ rPC = "none"
      /\ received \in Int /\ issued \in Int /\ received <= issued /\ received >= 0
  BY Bounds DEF Followed, Resetting, OwnTypes, TakeStatus, AtGuest
<1>2. /\ EmbQueueFilled(status_queue) > 0 /\ status_queue' = Take(status_queue)
      /\ received' = IF First(status_queue) = NoStatus THEN received
                     ELSE First(status_queue).id
      /\ UNCHANGED <<command_queue, issued, life, reset>>
  BY DEF TakeStatus
<1>3. /\ Elements(status_queue') = Tail(Elements(status_queue))
      /\ First(status_queue) = Head(Elements(status_queue))
      /\ Elements(status_queue) # <<>>
      /\ status_queue'.put_index = status_queue.put_index
      /\ status_queue'.element = status_queue.element
  BY <1>2, Bounds, RingTake DEF OwnTypes
<1>4. /\ statuses # <<>> /\ statuses' = Tail(statuses) /\ commands' = commands
      /\ First(status_queue) = h
      /\ commands \in Seq(Issue \cup {None}) /\ statuses \in Seq(T)
      /\ Len(commands) \in Nat /\ Len(statuses) \in Nat
  BY <1>1, <1>2, <1>3, ContentsStay, ContentsAre DEF statuses
<1> HIDE DEF h, T
<1>5. Rising(statuses', h.id, issued) /\ h.id \in received + 1 .. issued
  BY <1>1, <1>4, RisingTail DEF Ordered, h
<1>6. h # NoStatus /\ received' = h.id
  <2>1. h.id # 0
    BY <1>1, <1>5
  <2> QED BY <1>2, <1>4, <2>1 DEF NoStatus
<1>7. Below(statuses', commands) /\ \A i \in 1 .. Len(commands) : h.id < commands[i].id
  BY <1>1, <1>4, TailBelow DEF Ordered, h
<1>8. Rising(commands, h.id, issued)
  <2>1. h.id \in Int
    BY <1>1, <1>5
  <2> QED BY <1>1, <1>7, <2>1, RisingRaise DEF Ordered
<1>9. Holding' <=> Holding
  BY <1>2 DEF Holding
<1>10. /\ 1 \in 1 .. Len(statuses) /\ h = statuses[1] /\ Len(statuses') = Len(statuses) - 1
       /\ \A k \in 1 .. Len(statuses') : k + 1 \in 1 .. Len(statuses) /\ statuses'[k] = statuses[k + 1]
  BY <1>4, TailOf DEF h
<1>11. Holding => /\ \A i \in 1 .. Len(statuses') : statuses'[i].id < dCommand.id
                  /\ dCommand.id \in h.id + 1 .. issued
  <2> SUFFICES ASSUME Holding
               PROVE  /\ \A i \in 1 .. Len(statuses') : statuses'[i].id < dCommand.id
                      /\ dCommand.id \in h.id + 1 .. issued
    OBVIOUS
  <2>1. /\ \A i \in 1 .. Len(statuses) : statuses[i].id < dCommand.id
        /\ dCommand.id \in received + 1 .. issued
    BY <1>1 DEF Ordered
  <2>2. \A i \in 1 .. Len(statuses') : statuses'[i].id < dCommand.id
    BY <1>10, <2>1
  <2>3. h.id < dCommand.id
    BY <1>10, <2>1
  <2>4. dCommand.id \in h.id + 1 .. issued
    BY <1>1, <1>5, <2>1, <2>3
  <2> QED BY <2>2, <2>4
<1>12. Ordered'
  BY <1>1, <1>2, <1>4, <1>5, <1>6, <1>7, <1>8, <1>9, <1>11 DEF Ordered
<1>13. ASSUME resets = 0 PROVE Complete'
  <2>1. /\ From(statuses, received) /\ (Holding => dCommand.id = received + Len(statuses) + 1)
        /\ From(commands, received + Len(statuses) + Held)
        /\ issued = received + Len(statuses) + Held + Len(commands)
    BY <1>1, <1>13 DEF Complete
  <2>2. received' = received + 1 /\ From(statuses', received + 1)
    BY <1>1, <1>4, <1>6, <2>1, FromTail DEF h
  <2>3. received + 1 + Len(statuses') = received + Len(statuses)
    BY <1>1, <1>4, <1>10
  <2>4. Held' = Held
    BY <1>9 DEF Held
  <2> QED BY <1>2, <1>4, <1>9, <2>1, <2>2, <2>3, <2>4 DEF Complete
<1>14. Complete'
  BY <1>2, <1>13 DEF Complete
<1>15. Ringed' /\ Overlap' = Overlap
  <2>1. Len(statuses') < Len(statuses)
    BY <1>4, <1>10
  <2>2. Len(statuses) < StatusSpace => Len(statuses') < StatusSpace
    BY <1>4, <1>10, <2>1, Bounds
  <2> QED BY <1>1, <1>2, <1>3, <1>4, <2>2 DEF Ringed, Overlap
<1> QED BY <1>4, <1>6, <1>12, <1>14, <1>15 DEF Followed

(* DiskLife moves on: what it loads is what the queue holds, ...           *)
LEMMA MovesFollowed ==
  ASSUME OwnTypes, Handed, Followed, Moves, ~Overlap'
  PROVE  Followed'
<1>1. Ordered /\ Complete /\ Ringed /\ ~Overlap
  BY DEF Followed
<1>2. /\ UNCHANGED <<queues, commands, statuses, reset>>
      /\ Holding' <=> Holding
      /\ Holding => UNCHANGED dCommand
      /\ dPC = "taken" => dPC' = "taken" /\ UNCHANGED dCommand
  <2>1. UNCHANGED <<queues, reset>>
    BY DEF Moves, DiskLifeStart, DiskLifeReturn, DiskLifeFilled, DiskLifeDefer, DiskLifeSpace,
           TakeLoadPut, TakeCompare, TakeCopy, DiskLifeSwitch, TransferWins, TransferFails,
           Transfer, PutWait
  <2>2. /\ Holding' <=> Holding
        /\ Holding => UNCHANGED dCommand
        /\ dPC # "taken"
    BY DEF Moves, DiskLifeStart, DiskLifeReturn, DiskLifeFilled, DiskLifeDefer, DiskLifeSpace,
           TakeLoadPut, TakeCompare, TakeCopy, DiskLifeSwitch, TransferWins, TransferFails,
           Transfer, PutWait, Holding
  <2> QED BY <2>1, <2>2, ContentsStay
<1>3. Ordered' /\ Complete'
  BY <1>1, <1>2, LineStays
<1>4. /\ Len(statuses) \in Nat
      /\ command_queue \in RingOf(CommandSpace, Issue \cup {None})
      /\ status_queue \in RingOf(StatusSpace, Reply \cup {NoStatus})
  BY ContentsAre DEF OwnTypes
<1>5. Ringed'
  <2>1. CASE DiskLifeStart \/ DiskLifeReturn \/ DiskLifeFilled \/ DiskLifeDefer
    <3>1. dPC' \in {"start", "loop", "space"}
      BY <2>1 DEF DiskLifeStart, DiskLifeReturn, DiskLifeFilled, DiskLifeDefer
    <3> QED BY <1>1, <1>2, <3>1 DEF Ringed
  <2>2. CASE DiskLifeSpace
    <3>1. EmbQueueSpace(status_queue) # 0 /\ dPC' = "take"
      BY <2>2 DEF DiskLifeSpace
    <3>2. /\ Len(Elements(status_queue)) = EmbQueueFilled(status_queue)
          /\ EmbQueueFilled(status_queue) \in 0 .. StatusSpace
          /\ EmbQueueSpace(status_queue) = StatusSpace - EmbQueueFilled(status_queue)
      BY <1>4, Bounds, RingElements, RingCounts
    <3>3. Len(statuses) < StatusSpace
      <4>1. CASE rPC = "status"
        BY <4>1, EmptyIs, Bounds DEF statuses
      <4>2. CASE rPC # "status"
        BY <3>1, <3>2, <4>2, Bounds DEF statuses
      <4> QED BY <4>1, <4>2
    <3> QED BY <1>1, <1>2, <3>1, <3>3 DEF Ringed
  <2>3. CASE TakeLoadPut
    <3>1. dPC = "take" /\ dPC' = "compare" /\ dIndex' = command_queue.put_index
      BY <2>3 DEF TakeLoadPut
    <3>2. commands = Elements(command_queue)
      BY <1>2, <3>1 DEF Overlap, commands
    <3>3. dIndex' # command_queue.take_index => commands # <<>>
      BY <1>4, <3>1, <3>2, Bounds, RingCounts, RingElements
    <3> QED BY <1>1, <1>2, <3>1, <3>3 DEF Ringed
  <2>4. CASE TakeCompare
    <3>1. /\ dPC = "compare"
          /\ IF dIndex = command_queue.take_index
             THEN dPC' = "loop" ELSE dPC' = "copy" /\ dIndex' = command_queue.take_index
      BY <2>4 DEF TakeCompare
    <3> QED BY <1>1, <1>2, <3>1 DEF Ringed
  <2>5. CASE TakeCopy
    <3>1. /\ dPC = "copy" /\ dPC' = "taken" /\ dCommand' = command_queue.element[dIndex]
          /\ dIndex' = dIndex
      BY <2>5 DEF TakeCopy
    <3>2. dIndex = command_queue.take_index /\ commands # <<>> /\ commands = Elements(command_queue)
      BY <1>1, <1>2, <3>1 DEF Ringed, Overlap, commands
    <3>3. First(command_queue) = Head(Elements(command_queue))
      BY <1>4, <3>2, Bounds, RingElements, RingStoreTake
    <3>4. dCommand' = Head(commands)
      BY <3>1, <3>2, <3>3 DEF First
    <3> QED BY <1>1, <1>2, <3>1, <3>2, <3>4 DEF Ringed
  <2>6. CASE DiskLifeSwitch \/ TransferWins \/ TransferFails
    <3>1. dPC \in {"switch", "io"} /\ dPC' \in {"io", "put"}
      BY <2>6 DEF DiskLifeSwitch, TransferWins, TransferFails, Transfer
    <3> QED BY <1>1, <1>2, <3>1 DEF Ringed
  <2>7. CASE PutWait
    <3>1. dPC = "full" /\ dPC' = "store" /\ UNCHANGED <<dIndex, dCommand, dStatus>>
      BY <2>7 DEF PutWait
    <3> QED BY <1>1, <1>2, <3>1 DEF Ringed
  <2> QED BY <2>1, <2>2, <2>3, <2>4, <2>5, <2>6, <2>7 DEF Moves
<1> QED BY <1>3, <1>5 DEF Followed

(* ... the store of the take index hands it the first command, ...         *)
LEMMA TakeStoreFollowed ==
  ASSUME OwnTypes, Handed, Followed, TakeStore
  PROVE  Followed'
<1> DEFINE h == Head(commands)
           T == Issue \cup {None}
<1>1. /\ Ordered /\ Complete /\ Ringed /\ ~Overlap /\ dPC = "taken"
      /\ received \in Int /\ issued \in Int /\ received <= issued /\ received >= 0
  BY Bounds DEF Followed, OwnTypes, TakeStore
<1>2. /\ command_queue' = StoreTakeIndex(command_queue, After(command_queue, dIndex))
      /\ dPC' = IF dCommand = None THEN "loop" ELSE "switch"
      /\ UNCHANGED <<status_queue, issued, received, dCommand, dStatus, reset>>
  BY DEF TakeStore
<1>3. /\ rPC # "command" /\ commands = Elements(command_queue) /\ commands # <<>>
      /\ dIndex = command_queue.take_index /\ dCommand = h
  BY <1>1 DEF Overlap, Ringed, commands
<1>4. Elements(command_queue') = Tail(Elements(command_queue))
  BY <1>2, <1>3, Bounds, RingElements, RingStoreTake DEF OwnTypes
<1>5. /\ commands' = Tail(commands) /\ statuses' = statuses
      /\ commands \in Seq(T) /\ statuses \in Seq(Reply \cup {NoStatus})
      /\ Len(commands) \in Nat /\ Len(statuses) \in Nat
  <2>1. commands' = Elements(command_queue')
    BY <1>2, <1>3 DEF commands
  <2> QED BY <1>2, <1>3, <1>4, <2>1, ContentsStay, ContentsAre
<1> HIDE DEF h, T
<1>6. /\ Rising(commands', received, issued) /\ h.id \in received + 1 .. issued
      /\ \A i \in 1 .. Len(commands') : h.id < commands'[i].id
  BY <1>1, <1>3, <1>5, RisingTail DEF Ordered, h
<1>7. Below(statuses, commands') /\ \A i \in 1 .. Len(statuses) : statuses[i].id < h.id
  BY <1>1, <1>3, <1>5, TailBelow DEF Ordered, h
<1>8. dPC' = "switch" /\ Holding' /\ ~Holding
  <2>1. h.id # 0
    BY <1>1, <1>6
  <2> QED BY <1>1, <1>2, <1>3, <2>1 DEF None, Holding
<1>9. Ordered'
  BY <1>1, <1>2, <1>3, <1>5, <1>6, <1>7, <1>8 DEF Ordered
<1>10. ASSUME resets = 0 PROVE Complete'
  <2> DEFINE n == received + Len(statuses)
  <2>1. n \in Int /\ Held = 0 /\ Held' = 1 /\ n + Held = n /\ Len(commands) \in Nat
    BY <1>1, <1>5, <1>8 DEF Held
  <2>2. /\ From(statuses, received) /\ From(commands, n) /\ issued = n + Held + Len(commands)
    BY <1>1, <1>10, <2>1 DEF Complete
  <2> HIDE DEF n
  <2>3. h.id = n + 1 /\ From(commands', n + 1) /\ Len(commands') = Len(commands) - 1
    BY <1>3, <1>5, <2>1, <2>2, FromTail, TailOf DEF h
  <2>4. issued = n + 1 + Len(commands')
    BY <2>1, <2>2, <2>3
  <2> QED BY <1>2, <1>3, <1>5, <1>8, <2>1, <2>2, <2>3, <2>4 DEF Complete, n
<1>11. Complete'
  BY <1>2, <1>10 DEF Complete
<1>12. Ringed' /\ ~Overlap'
  BY <1>1, <1>2, <1>3, <1>5, <1>8 DEF Ringed, Overlap
<1> QED BY <1>9, <1>11, <1>12 DEF Followed

(* ... filling the slot shows nothing yet, ...                             *)
LEMMA PutFillFollowed ==
  ASSUME OwnTypes, Handed, Followed, PutFill, ~Overlap'
  PROVE  Followed'
<1> DEFINE e == [id |-> dCommand.id, status |-> dStatus]
<1>1. Ordered /\ Complete /\ Ringed /\ dPC = "put"
  BY DEF Followed, PutFill
<1>2. /\ status_queue' = Filling(status_queue, e) /\ dIndex' = status_queue.put_index
      /\ dPC' = "full"
      /\ UNCHANGED <<command_queue, issued, received, dCommand, dStatus, reset>>
  BY DEF PutFill
<1>3. e \in Reply
  BY <1>1 DEF Handed, Holding, Issue, Reply
<1> HIDE DEF e
<1>4. /\ Elements(status_queue') = Elements(status_queue)
      /\ status_queue'.put_index = status_queue.put_index
      /\ status_queue'.element[status_queue.put_index] = e
  BY <1>2, <1>3, Bounds, RingFilling DEF OwnTypes
<1>5. UNCHANGED <<commands, statuses>>
  BY <1>2, <1>4, ContentsStay DEF statuses
<1>6. Ordered' /\ Complete'
  <2>1. Holding /\ Holding'
    BY <1>1, <1>2 DEF Holding
  <2> QED BY <1>1, <1>2, <1>5, <2>1, LineStays
<1>7. Ringed'
  BY <1>1, <1>2, <1>4, <1>5 DEF Ringed, e
<1> QED BY <1>6, <1>7 DEF Followed

(* ... and the store of the put index shows the answer. *)
LEMMA PutStoreFollowed ==
  ASSUME OwnTypes, Handed, Followed, PutStore
  PROVE  Followed'
<1> DEFINE e == [id |-> dCommand.id, status |-> dStatus]
           T == Reply \cup {NoStatus}
<1>1. /\ Ordered /\ Complete /\ Ringed /\ ~Overlap /\ dPC = "store"
      /\ received \in Int /\ issued \in Int
  BY Bounds DEF Followed, OwnTypes, PutStore
<1>2. /\ status_queue' = StorePutIndex(status_queue, After(status_queue, dIndex))
      /\ dPC' = "loop"
      /\ UNCHANGED <<command_queue, issued, received, reset>>
  BY DEF PutStore
<1>3. /\ e.id = dCommand.id /\ e \in Reply /\ Holding /\ ~Holding'
  BY <1>1, <1>2 DEF Handed, Holding, Issue, Reply
<1> HIDE DEF e
<1>4. /\ rPC # "status" /\ statuses = Elements(status_queue) /\ Len(statuses) < StatusSpace
      /\ dIndex = status_queue.put_index /\ status_queue.element[status_queue.put_index] = e
  BY <1>1 DEF Overlap, Ringed, statuses, e
<1>5. Elements(status_queue') = Append(Elements(status_queue), e)
  <2>1. EmbQueueFilled(status_queue) # StatusSpace
    BY <1>4, Bounds, RingElements DEF OwnTypes
  <2> QED BY <1>2, <1>4, <2>1, Bounds, RingStorePut DEF OwnTypes
<1>6. /\ statuses' = Append(statuses, e) /\ commands' = commands
      /\ commands \in Seq(Issue \cup {None}) /\ statuses \in Seq(T) /\ e \in T
      /\ Len(commands) \in Nat /\ Len(statuses) \in Nat
  <2>1. statuses' = Elements(status_queue')
    BY <1>2, <1>4 DEF statuses
  <2> QED BY <1>2, <1>3, <1>4, <1>5, <2>1, ContentsStay, ContentsAre
<1> HIDE DEF T
<1>7. /\ e.id \in received + 1 .. issued
      /\ \A i \in 1 .. Len(statuses) : statuses[i].id < e.id
      /\ \A i \in 1 .. Len(commands) : e.id < commands[i].id
  BY <1>1, <1>3 DEF Ordered
<1>8. Rising(statuses', received, issued)
  BY <1>1, <1>6, <1>7, RisingAppend DEF Ordered
<1>9. Below(statuses', commands)
  BY <1>1, <1>6, <1>7, AppendBelow DEF Ordered
<1>10. Ordered'
  BY <1>1, <1>2, <1>3, <1>6, <1>8, <1>9 DEF Ordered
<1>11. ASSUME resets = 0 PROVE Complete'
  <2>1. Held = 1 /\ Held' = 0
    BY <1>3 DEF Held
  <2>2. /\ From(statuses, received) /\ e.id = received + Len(statuses) + 1
        /\ From(commands, received + Len(statuses) + 1)
        /\ issued = received + Len(statuses) + 1 + Len(commands)
    BY <1>1, <1>3, <1>11, <2>1 DEF Complete
  <2>3. From(statuses', received) /\ Len(statuses') = Len(statuses) + 1
    BY <1>1, <1>6, <2>2, FromAppend, AppendTo
  <2>4. received + Len(statuses') + Held' = received + Len(statuses) + 1
    BY <1>1, <1>6, <2>1, <2>3
  <2> QED BY <1>2, <1>3, <1>6, <2>2, <2>3, <2>4 DEF Complete
<1>12. Complete'
  BY <1>2, <1>11 DEF Complete
<1>13. Ringed' /\ ~Overlap'
  BY <1>1, <1>2, <1>4 DEF Ringed, Overlap
<1> QED BY <1>10, <1>12, <1>13 DEF Followed

(* A reset leaves nothing in a queue. *)
LEMMA ResetFollowed ==
  ASSUME OwnTypes, Resetting, Followed, ~Overlap',
         ResetCommandPut \/ ResetCommandTake \/ ResetStatusPut \/ ResetStatusTake \/ ResetError
  PROVE  Followed'
<1>1. /\ Ordered /\ Complete /\ Ringed /\ ~Overlap
      /\ command_queue \in RingOf(CommandSpace, Issue \cup {None})
      /\ status_queue \in RingOf(StatusSpace, Reply \cup {NoStatus})
      /\ rPC # "none" => resets # 0
  BY DEF Followed, OwnTypes, Resetting
<1>2. /\ UNCHANGED <<issued, received, life, resets>>
      /\ Holding' <=> Holding
  BY DEF ResetCommandPut, ResetCommandTake, ResetStatusPut, ResetStatusTake, ResetError, Holding
<1>3. ASSUME resets # 0, commands' \in {commands, <<>>}, statuses' \in {statuses, <<>>}
      PROVE  Ordered' /\ Complete'
  <2>1. Complete'
    BY <1>2, <1>3 DEF Complete
  <2> DEFINE empty == <<>>
  <2>2. /\ \A s : Below(empty, s) /\ Below(s, empty)
        /\ \A lo, hi : Rising(empty, lo, hi)
        /\ 1 .. Len(empty) = {}
    BY EmptyIs
  <2>3. commands' \in {commands, empty} /\ statuses' \in {statuses, empty}
    BY <1>3
  <2> HIDE DEF empty
  <2>4. Rising(statuses', received, issued) /\ Rising(commands', received, issued)
    BY <1>1, <2>2, <2>3 DEF Ordered
  <2>5. Below(statuses', commands')
    BY <1>1, <2>2, <2>3 DEF Ordered
  <2>6. Holding => /\ \A i \in 1 .. Len(statuses') : statuses'[i].id < dCommand.id
                   /\ \A i \in 1 .. Len(commands') : dCommand.id < commands'[i].id
    BY <1>1, <2>2, <2>3 DEF Ordered
  <2>7. Holding => dCommand.id \in received + 1 .. issued
    BY <1>1 DEF Ordered
  <2>8. Ordered'
    BY <1>2, <2>4, <2>5, <2>6, <2>7 DEF Ordered
  <2> QED BY <2>1, <2>8
<1>4. CASE ResetCommandPut
  <2>1. CASE linked
    <3>1. /\ rPC = "none" /\ rPC' = "command" /\ command_queue' = StorePutIndex(command_queue, 0)
          /\ UNCHANGED status_queue /\ reset_request
      BY <1>4, <2>1 DEF ResetCommandPut
    <3>2. commands' = <<>> /\ statuses' = statuses /\ resets # 0
      BY <3>1 DEF commands, statuses, Resetting
    <3>3. command_queue'.put_index = 0
      BY <1>1, <3>1, Bounds, RingReset
    <3>4. dPC \notin {"compare", "copy", "taken"}
      BY <1>2, <3>1 DEF Overlap
    <3>5. Ringed'
      BY <1>1, <1>2, <3>1, <3>2, <3>3, <3>4 DEF Ringed
    <3> QED BY <1>3, <3>2, <3>5 DEF Followed
  <2>2. CASE ~linked
    <3>1. UNCHANGED <<queues, life, rPC, resets>>
      BY <1>4, <2>2 DEF ResetCommandPut
    <3> QED BY <3>1, FollowedStays
  <2> QED BY <2>1, <2>2
<1>5. CASE ResetCommandTake
  <2>1. /\ rPC = "command" /\ rPC' = "remove" /\ command_queue' = StoreTakeIndex(command_queue, 0)
        /\ UNCHANGED status_queue
    BY <1>5 DEF ResetCommandTake
  <2>2. Elements(command_queue') = <<>> /\ command_queue.put_index = 0
    BY <1>1, <2>1, Bounds, RingReset DEF Ringed
  <2>3. commands' = <<>> /\ statuses' = statuses /\ resets # 0 /\ commands = <<>>
    BY <1>1, <2>1, <2>2 DEF commands, statuses
  <2>4. dPC \notin {"compare", "copy", "taken"}
    BY <1>1, <2>1 DEF Overlap
  <2>5. Ringed'
    BY <1>1, <1>2, <2>1, <2>3, <2>4 DEF Ringed
  <2> QED BY <1>3, <2>3, <2>5 DEF Followed
<1>6. CASE ResetStatusPut
  <2>1. /\ rPC = "remove" /\ rPC' = "status" /\ status_queue' = StorePutIndex(status_queue, 0)
        /\ UNCHANGED command_queue
    BY <1>6 DEF ResetStatusPut
  <2>2. commands' = commands /\ statuses' = <<>> /\ resets # 0
    BY <1>1, <2>1 DEF commands, statuses
  <2>3. status_queue'.put_index = 0
    BY <1>1, <2>1, Bounds, RingReset
  <2>4. dPC \notin {"full", "store"} /\ Len(statuses') < StatusSpace
    BY <1>2, <2>1, <2>2, EmptyIs, Bounds DEF Overlap
  <2>5. Ringed'
    BY <1>1, <1>2, <2>1, <2>2, <2>3, <2>4 DEF Ringed
  <2> QED BY <1>3, <2>2, <2>5 DEF Followed
<1>7. CASE ResetStatusTake
  <2>1. /\ rPC = "status" /\ rPC' = "error" /\ status_queue' = StoreTakeIndex(status_queue, 0)
        /\ UNCHANGED command_queue
    BY <1>7 DEF ResetStatusTake
  <2>2. Elements(status_queue') = <<>>
    BY <1>1, <2>1, Bounds, RingReset DEF Ringed
  <2>3. commands' = commands /\ statuses' = <<>> /\ resets # 0
    BY <1>1, <2>1, <2>2 DEF commands, statuses
  <2>4. dPC \notin {"full", "store"} /\ Len(statuses') < StatusSpace
    BY <1>1, <2>1, <2>3, EmptyIs, Bounds DEF Overlap
  <2>5. Ringed'
    BY <1>1, <1>2, <2>1, <2>3, <2>4 DEF Ringed
  <2> QED BY <1>3, <2>3, <2>5 DEF Followed
<1>8. CASE ResetError
  <2>1. rPC = "error" /\ rPC' = "none" /\ UNCHANGED <<queues, life>>
    BY <1>8 DEF ResetError
  <2>2. UNCHANGED <<commands, statuses>> /\ resets # 0
    BY <1>1, <2>1 DEF commands, statuses
  <2>3. Ringed'
    BY <1>1, <2>1, <2>2 DEF Ringed
  <2> QED BY <1>3, <2>2, <2>3 DEF Followed
<1> QED BY <1>4, <1>5, <1>6, <1>7, <1>8

(* What is on its way stays in order, without a gap while nothing is       *)
(* reset, until a reset overlaps a take or a put.                          *)
LEMMA NextFollowed == DiskInv /\ [DiskNext]_diskVars => (torn \/ Followed)'
<1> SUFFICES ASSUME DiskInv, [DiskNext]_diskVars PROVE torn' \/ Followed'
  OBVIOUS
<1>0. torn => torn'
  <2>1. CASE UNCHANGED diskVars
    BY <2>1 DEF diskVars
  <2> QED BY <2>1, NextIs
<1> SUFFICES ASSUME ~torn, ~torn' PROVE Followed'
  BY <1>0
<1>1. OwnTypes /\ Handed /\ Resetting /\ Followed /\ resets \in Nat
  BY Bounds DEF DiskInv, OwnTypes
<1>2. CASE UNCHANGED diskVars
  BY <1>1, <1>2, FollowedStays DEF diskVars
<1>3. ASSUME DiskStep, torn' = (torn \/ Overlap') PROVE Followed'
  <2>1. ~Overlap'
    BY <1>3
  <2>2. CASE OnlySignals
    BY <1>1, <2>2, OnlySignalsOwn, FollowedStays DEF own
  <2>3. CASE RequestReset
    <3>1. UNCHANGED <<queues, life, rPC>> /\ resets' # 0
      BY <1>1, <2>3 DEF RequestReset
    <3> QED BY <1>1, <3>1, FollowedStays
  <2>4. CASE AttachState \/ AttachFails \/ AttachOpen \/ AttachDetachEnd
    BY <1>1, <2>4, FollowedStays DEF AttachState, AttachFails, AttachOpen, AttachDetachEnd
  <2>5. CASE \E cmd \in Cmds : PutCommand(cmd)
    BY <1>1, <2>5, PutFollowed
  <2>6. CASE TakeStatus
    BY <1>1, <2>6, TakeFollowed
  <2>7. CASE Moves
    BY <1>1, <2>1, <2>7, MovesFollowed
  <2>8. CASE TakeStore
    BY <1>1, <2>8, TakeStoreFollowed
  <2>9. CASE PutFill
    BY <1>1, <2>1, <2>9, PutFillFollowed
  <2>10. CASE PutStore
    BY <1>1, <2>10, PutStoreFollowed
  <2>11. CASE ResetCommandPut \/ ResetCommandTake \/ ResetStatusPut \/ ResetStatusTake \/ ResetError
    BY <1>1, <2>1, <2>11, ResetFollowed
  <2> QED
    BY <1>3, <2>2, <2>3, <2>4, <2>5, <2>6, <2>7, <2>8, <2>9, <2>10, <2>11
       DEF DiskStep, DiskLife, PollDisk, OnlySignals, Moves
<1> QED BY <1>2, <1>3, NextIs

(* An error that is not pending any more was flushed. *)
LEMMA NextFlushing == DiskInv /\ [DiskNext]_diskVars => Flushing'
<1> SUFFICES ASSUME DiskInv, [DiskNext]_diskVars PROVE Flushing'
  OBVIOUS
<1>1. OwnTypes /\ Attached /\ Handed /\ Flushing
  BY DEF DiskInv
<1>2. log \in Seq(Entry) /\ error_pending \in [States -> BOOLEAN]
  BY <1>1 DEF OwnTypes
<1>3. ASSUME UNCHANGED <<error_pending, log>>, dPC' = "io" => dPC = "io" /\ dState' = dState
      PROVE  Flushing'
  BY <1>1, <1>3 DEF Flushing
<1>4. CASE OnlySignals \/ UNCHANGED diskVars
  BY <1>3, <1>4, OnlySignalsOwn DEF own
<1>5. CASE \/ \E cmd \in Cmds : PutCommand(cmd)
           \/ TakeStatus \/ RequestReset \/ AttachState \/ AttachFails \/ AttachOpen
           \/ AttachDetachEnd
           \/ ResetCommandPut \/ ResetCommandTake \/ ResetStatusPut \/ ResetStatusTake
  BY <1>3, <1>5
     DEF PutCommand, TakeStatus, RequestReset, AttachState, AttachFails, AttachOpen,
         AttachDetachEnd, ResetCommandPut, ResetCommandTake, ResetStatusPut, ResetStatusTake
<1>6. CASE \/ DiskLifeStart \/ DiskLifeReturn \/ DiskLifeFilled \/ DiskLifeDefer \/ DiskLifeSpace
           \/ TakeLoadPut \/ TakeCompare \/ TakeCopy \/ TakeStore
           \/ PutFill \/ PutWait \/ PutStore
  <2>1. UNCHANGED <<error_pending, log>> /\ dPC' # "io"
    BY <1>6
    DEF DiskLifeStart, DiskLifeReturn, DiskLifeFilled, DiskLifeDefer, DiskLifeSpace,
        TakeLoadPut, TakeCompare, TakeCopy, TakeStore, PutFill, PutWait, PutStore
  <2> QED BY <1>3, <2>1
<1>7. Holding => dCommand \in Issue /\ dState \in States
  BY <1>1, Bounds DEF Holding, Handed, Attached, OwnTypes, States
<1>8. ASSUME NEW status \in Status, dCommand \in Issue, dState \in States
      PROVE  /\ Outcome(status) \in Entry /\ Outcome(status).cmd = dCommand.cmd
             /\ Outcome(status).status = status /\ Outcome(status).state = dState
  <2>1. dState \in 0 .. MaxAttaches
    BY <1>8, Bounds DEF States
  <2> QED BY <1>8, <2>1 DEF Outcome, Entry, Issue
<1>9. CASE DiskLifeSwitch
  <2>1. dCommand \in Issue /\ dState \in States
    BY <1>7, <1>9 DEF DiskLifeSwitch, Holding
  <2>2. /\ Verdict \in (Status \ {"eio"}) \cup {"io"}
        /\ Verdict = "io" => ~error_pending[dState]
        /\ Verdict = "won" => dCommand.cmd \notin {"read", "write"}
    BY <2>1, VerdictIs
  <2>3. CASE Verdict = "io"
    <3>1. UNCHANGED <<error_pending, log, dState>>
      BY <1>9, <2>3 DEF DiskLifeSwitch
    <3> QED BY <1>1, <2>2, <2>3, <3>1 DEF Flushing
  <2>4. CASE Verdict # "io"
    <3> DEFINE e == Outcome(Verdict)
    <3>1. /\ log' = Append(log, e) /\ dPC' = "put"
          /\ error_pending' = [error_pending EXCEPT ![dState] =
                                 @ /\ dCommand.cmd \notin {"reset", "init"}]
      BY <1>9, <2>4 DEF DiskLifeSwitch
    <3>2. /\ e \in Entry /\ e.cmd = dCommand.cmd /\ e.status = Verdict /\ e.state = dState
          /\ Verdict # "eio"
      BY <1>8, <2>1, <2>2, <2>4
    <3> HIDE DEF e
    <3>3. FlushOK(log')
      BY <1>1, <1>2, <2>2, <3>1, <3>2, FlushOKAppend DEF Flushing
    <3>4. ASSUME NEW g \in States, ~error_pending'[g] PROVE Flushed(log', g)
      <4>1. ~error_pending[g] \/ e.cmd \in {"reset", "init"}
        BY <1>2, <2>1, <3>1, <3>2, <3>4
      <4>2. Flushed(log, g) \/ e.cmd \in {"reset", "init"}
        BY <1>1, <4>1 DEF Flushing
      <4> QED BY <1>2, <3>1, <3>2, <4>2, FlushedAppend
    <3> QED BY <3>1, <3>3, <3>4 DEF Flushing
  <2> QED BY <2>3, <2>4
<1>10. CASE TransferWins
  <2> DEFINE e == Outcome("won")
  <2>1. dCommand \in Issue /\ dState \in States /\ "won" \in Status
    BY <1>7, <1>10 DEF TransferWins, Holding, Status
  <2>2. /\ e \in Entry /\ e.status = "won" /\ e.state = dState
    BY <1>8, <2>1
  <2>3. /\ log' = Append(log, e) /\ dPC' = "put" /\ dPC = "io"
        /\ error_pending' = [error_pending EXCEPT ![dState] = error_pending[dState]]
    BY <1>10 DEF TransferWins, Transfer
  <2> HIDE DEF e
  <2>4. error_pending' = error_pending
    BY <1>2, <2>3
  <2>5. Flushed(log, dState)
    BY <1>1, <2>1, <2>3 DEF Flushing
  <2>6. FlushOK(log')
    BY <1>1, <1>2, <2>2, <2>3, <2>5, FlushOKAppend DEF Flushing
  <2>7. ASSUME NEW g \in States, ~error_pending'[g] PROVE Flushed(log', g)
    <3>1. Flushed(log, g)
      BY <1>1, <2>4, <2>7 DEF Flushing
    <3> QED BY <1>2, <2>2, <2>3, <3>1, FlushedAppend
  <2> QED BY <2>3, <2>6, <2>7 DEF Flushing
<1>11. CASE TransferFails
  <2> DEFINE e == Outcome("eio")
  <2>1. dCommand \in Issue /\ dState \in States /\ "eio" \in Status
    BY <1>7, <1>11 DEF TransferFails, Transfer, Holding, Status
  <2>2. /\ e \in Entry /\ e.status = "eio" /\ e.state = dState
    BY <1>8, <2>1
  <2>3. /\ log' = Append(log, e) /\ dPC' = "put"
        /\ error_pending' = [error_pending EXCEPT ![dState] = TRUE]
    BY <1>11 DEF TransferFails, Transfer
  <2> HIDE DEF e
  <2>4. FlushOK(log')
    BY <1>1, <1>2, <2>2, <2>3, FlushOKAppend DEF Flushing
  <2>5. ASSUME NEW g \in States, ~error_pending'[g] PROVE Flushed(log', g)
    <3>1. g # dState /\ ~error_pending[g]
      BY <1>2, <2>1, <2>3, <2>5
    <3>2. Flushed(log, g)
      BY <1>1, <3>1 DEF Flushing
    <3> QED BY <1>2, <2>2, <2>3, <3>1, <3>2, FlushedAppend
  <2> QED BY <2>3, <2>4, <2>5 DEF Flushing
<1>12. CASE ResetError
  <2> DEFINE e == [cmd |-> "reset", status |-> "won", state |-> state]
  <2>1. e \in Entry
    BY <1>1 DEF OwnTypes, Entry, Status
  <2>2. e.cmd = "reset"
    OBVIOUS
  <2>3. /\ log' = Append(log, e) /\ UNCHANGED <<dPC, dState>>
        /\ error_pending' = [error_pending EXCEPT ![state] = FALSE]
    BY <1>12 DEF ResetError
  <2> HIDE DEF e
  <2>4. FlushOK(log')
    BY <1>1, <1>2, <2>1, <2>2, <2>3, FlushOKAppend DEF Flushing
  <2>5. ASSUME NEW g \in States, ~error_pending'[g] PROVE Flushed(log', g)
    BY <1>2, <2>1, <2>2, <2>3, FlushedAppend
  <2>6. dPC' = "io" => ~error_pending'[dState']
    <3> SUFFICES ASSUME dPC = "io" PROVE ~error_pending'[dState]
      BY <2>3
    <3>1. dState \in States /\ ~error_pending[dState]
      BY <1>1, <1>7 DEF Flushing, Holding
    <3> QED BY <1>2, <2>3, <3>1
  <2> QED BY <2>4, <2>5, <2>6 DEF Flushing
<1> QED
  BY <1>4, <1>5, <1>6, <1>9, <1>10, <1>11, <1>12, NextIs
     DEF DiskStep, DiskLife, PollDisk, OnlySignals

-----------------------------------------------------------------------------
(* The theorems *)

LEMMA DiskInvariance == DiskSpec => [](TypeOK /\ DiskInv)
<1>1. DiskInit => TypeOK /\ DiskInv
  BY InitDiskSignals, InitDiskInv
<1>2. TypeOK /\ DiskInv /\ [DiskNext]_diskVars => (TypeOK /\ DiskInv)'
  <2> SUFFICES ASSUME TypeOK, DiskInv, [DiskNext]_diskVars PROVE TypeOK' /\ DiskInv'
    OBVIOUS
  <2>1. OwnTypes' /\ Attached' /\ Handed' /\ Resetting' /\ Flushing' /\ (torn \/ Followed)'
    BY NextOwnTypes, NextAttached, NextFlushing, NextFollowed
  <2> QED BY <2>1, NextDiskSignals DEF DiskInv
<1> QED BY <1>1, <1>2, PTL DEF DiskSpec

(* Every variable of the channel has its type, whatever a reset does to a  *)
(* take or a put: the indexes stay within the queues, and DiskLife never   *)
(* runs without a DiskChannelState.                                        *)
THEOREM DiskTypeCorrect == DiskSpec => []DiskTypeOK
<1>1. TypeOK /\ DiskInv => DiskTypeOK
  <2> SUFFICES ASSUME TypeOK, DiskInv PROVE DiskTypeOK
    OBVIOUS
  <2>1. OwnTypes /\ Handed
    BY DEF DiskInv
  <2>2. Issue \subseteq Command /\ Reply \subseteq Answer
    BY <2>1, Bounds DEF Issue, Reply, Command, Answer, OwnTypes
  <2>3. /\ command_queue \in RingOf(CommandSpace, Command \cup {None})
        /\ status_queue \in RingOf(StatusSpace, Answer \cup {NoStatus})
    BY <2>1, <2>2, RingOfMore DEF OwnTypes
  <2>4. dCommand \in Command \cup {None} /\ dStatus \in Status \cup {"none"}
    BY <2>1, <2>2 DEF Handed
  <2> QED BY <2>1, <2>3, <2>4 DEF DiskTypeOK, OwnTypes
<1> QED BY <1>1, DiskInvariance, PTL

(* Commands are answered in order, each once, and none is lost unless      *)
(* something was reset: through every defer, detach, attach and reset,     *)
(* until a reset overlaps a take or a put of DiskLife's.                   *)
THEOREM DiskAnsweredInOrder == DiskSpec => []AnsweredInOrder
<1>1. DiskInv => AnsweredInOrder
  <2> SUFFICES ASSUME DiskInv, ~torn PROVE AnsweredInOrder
    BY DEF AnsweredInOrder
  <2> DEFINE T == (Issue \cup {None}) \cup (Reply \cup {NoStatus})
             s == statuses \o InHand
  <2>1. OwnTypes /\ Handed /\ Ordered /\ Complete
    BY DEF DiskInv, Followed
  <2>2. received \in Int /\ issued \in Int /\ MaxCommands \in Nat /\ resets \in Nat
    BY <2>1, Bounds DEF OwnTypes
  <2>3. statuses \in Seq(T) /\ commands \in Seq(T) /\ Len(statuses) \in Nat /\ Len(commands) \in Nat
    BY <2>1, ContentsAre
  <2>4. /\ InHand \in Seq(T) /\ Len(InHand) = Held
        /\ Holding => InHand[1] = dCommand /\ InHand = <<dCommand>>
        /\ ~Holding => InHand = <<>>
    <3>1. CASE Holding
      <4>1. dCommand \in T
        BY <2>1, <3>1 DEF Handed
      <4> QED BY <3>1, <4>1, SingletonIs DEF InHand, Holding, Held
    <3>2. CASE ~Holding
      BY <3>2, EmptyIs DEF InHand, Holding, Held
    <3> QED BY <3>1, <3>2
  <2> HIDE DEF T
  <2>5. /\ Rising(InHand, received, issued) /\ Below(statuses, InHand) /\ Below(InHand, commands)
    BY <2>1, <2>4, EmptyIs DEF Ordered, Rising, Below, Held
  <2>6. Rising(s, received, issued) /\ Below(s, commands) /\ s \in Seq(T)
        /\ Len(s) = Len(statuses) + Len(InHand)
    BY <2>1, <2>3, <2>4, <2>5, Joined DEF Ordered
  <2>7. Rising(s \o commands, received, issued) /\ Len(s \o commands) = Len(s) + Len(commands)
    <3> HIDE DEF s
    <3> QED BY <2>1, <2>3, <2>6, Joined DEF Ordered
  <2>8. CASE resets = 0
    <3>1. /\ From(statuses, received) /\ (Holding => dCommand.id = received + Len(statuses) + 1)
          /\ From(commands, received + Len(statuses) + Held)
          /\ issued = received + Len(statuses) + Held + Len(commands)
      BY <2>1, <2>8 DEF Complete
    <3>2. From(InHand, received + Len(statuses))
      BY <2>4, <3>1 DEF From, Held
    <3>3. From(s, received)
      BY <2>2, <2>3, <2>4, <3>1, <3>2, Joined
    <3>4. From(commands, received + Len(s))
      <4>1. received + Len(s) = received + Len(statuses) + Held
        BY <2>2, <2>3, <2>4, <2>6 DEF Held
      <4> QED BY <3>1, <4>1
    <3>5. From(s \o commands, received)
      <4> HIDE DEF s
      <4> QED BY <2>2, <2>3, <2>6, <3>3, <3>4, Joined
    <3>6. Len(s \o commands) = issued - received
      BY <2>2, <2>3, <2>4, <2>6, <2>7, <3>1 DEF Held
    <3> QED BY <2>8, <3>5, <3>6 DEF AnsweredInOrder, From
  <2>9. CASE resets # 0
    <3> DEFINE c == s \o commands
    <3>1. Rising(c, received, issued) /\ Len(c) \in Nat
      BY <2>3, <2>4, <2>6, <2>7 DEF Held
    <3> HIDE DEF c
    <3>2. \A i \in 1 .. Len(c) : /\ c[i].id \in received + 1 .. issued
                                 /\ i > 1 => c[i - 1].id < c[i].id
      BY <3>1 DEF Rising
    <3> QED BY <2>9, <3>2 DEF AnsweredInOrder, c
  <2> QED BY <2>8, <2>9
<1> QED BY <1>1, DiskInvariance, PTL

(* DiskLife never waits for room for a status, unless a reset has          *)
(* overlapped one of its takes or puts.                                    *)
THEOREM DiskStatusPutNeverWaits == DiskSpec => []StatusPutNeverWaits
<1>1. DiskInv => StatusPutNeverWaits
  <2> SUFFICES ASSUME DiskInv, ~torn, dPC = "full"
               PROVE  After(status_queue, dIndex) # status_queue.take_index
    BY DEF StatusPutNeverWaits
  <2>1. /\ status_queue \in RingOf(StatusSpace, Reply \cup {NoStatus})
        /\ dIndex = status_queue.put_index /\ Len(statuses) < StatusSpace /\ rPC # "status"
    BY DEF DiskInv, OwnTypes, Followed, Ringed, Overlap
  <2>2. EmbQueueFilled(status_queue) # StatusSpace
    BY <2>1, Bounds, RingElements DEF statuses
  <2> QED BY <2>1, <2>2, Bounds, RingCounts
<1> QED BY <1>1, DiskInvariance, PTL

(* No transfer wins after one of its attachment failed, until a reset.     *)
THEOREM DiskFlushUntilReset == DiskSpec => []FlushUntilReset
<1>1. DiskInv => FlushUntilReset
  <2> SUFFICES ASSUME DiskInv PROVE FlushUntilReset
    OBVIOUS
  <2>1. FlushOK(log) /\ log \in Seq(Entry)
    BY DEF DiskInv, Flushing, OwnTypes
  <2>2. DOMAIN log = 1 .. Len(log)
    BY <2>1
  <2> QED BY <2>1, <2>2 DEF FlushUntilReset, FlushOK
<1> QED BY <1>1, DiskInvariance, PTL

=============================================================================
