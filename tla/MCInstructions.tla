---------------------------- MODULE MCInstructions ----------------------------
(***************************************************************************)
(* Instructions on words of four bits: every pair of fixnums, and lists of *)
(* up to four conses in six words of memory, with a word of them forwarded *)
(* or monitored, and with their pointers in oldspace.                      *)
(***************************************************************************)
EXTENDS Instructions

MCW == 4
MCHalf == 8
MCN == 6

Word1(x, c) == [t |-> x.t, v |-> x.v, cdr |-> c]
F(n) == Fixnum1(n)
Unused == Word1(F(0), "nil")
Memory6(words) == [a \in 1 .. 6 |-> IF a <= Len(words) THEN words[a] ELSE Unused]

(* (1 2 . (3)), an association list, a property list, and lists that end   *)
(* in what is no list.                                                     *)
Compact == Memory6(<<Word1(F(1), "next"), Word1(F(2), "normal"), Word1(List(4), "nil"),
                     Word1(F(3), "nil")>>)
Alist   == Memory6(<<Word1(NIL, "next"), Word1(List(3), "nil"), Word1(F(3), "normal"),
                     Word1(List(1), "nil")>>)
Plist   == Memory6(<<Word1(F(1), "next"), Word1(F(3), "next"), Word1(F(3), "next"),
                     Word1(List(1), "nil")>>)
Strange == Memory6(<<Word1(F(1), "normal"), Word1([t |-> "list-instance", v |-> 1], "nil"),
                     Word1([t |-> "null", v |-> 3], "spare"), Word1(List(1), "nil")>>)
Bases == {Compact, Alist, Plist, Strange}

Points(w) == w.t \in Pointers
Forwarded(m, a, t) == [m EXCEPT ![a].t = t, ![a].v = 5, ![5] = m[a]]
InOldspace(m) ==
    [a \in 1 .. 6 |-> IF Points(m[a]) THEN [m[a] EXCEPT !.v = @ + MCN] ELSE m[a]]

(* A word that has moved whole takes its cdr code along; the word after it *)
(* would have to follow.                                                   *)
Moves == {<<a, t>> \in (1 .. 4) \X {"one-q-forward", "monitor-forward", "element-forward"} : TRUE}
WithForwards ==
    Bases \cup {Forwarded(m, p[1], p[2]) :
                  m \in Bases, p \in {q \in Moves : q[2] # "element-forward"}}
          \cup {Forwarded(m, p[1], p[2]) :
                  m \in Bases, p \in {q \in Moves : q[2] = "element-forward" /\ q[1] = 4}}
Memories == WithForwards \cup {InOldspace(m) : m \in WithForwards}

Double  == [t |-> "double", v |-> 2]
Locative(a) == [t |-> "locative", v |-> a]
Stacks == {<<F(3), List(1)>>, <<List(1), F(3)>>, <<List(2), F(7)>>, <<F(7), List(1)>>,
           <<F(3), Locative(4)>>, <<Locative(3), Double>>, <<Double, List(1)>>, <<List(1), NIL>>}

Lists   == [stack : Stacks, memory : Memories]
Numbers == {[stack |-> <<F(x), F(y)>>, memory |-> Compact] : x, y \in Fixnum}
MCStarts == Lists \cup Numbers
===============================================================================
