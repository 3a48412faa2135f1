----------------------------- MODULE MBINService -----------------------------
(***************************************************************************)
(* What the MBIN protocol promises the remote debugger and the guest: a    *)
(* packet is handled by the guest at most once however often it is sent,   *)
(* and is acknowledged only when it has been.  MBINChannel.tla is the code *)
(* of spy.c and message_channels.c that implements it.                     *)
(***************************************************************************)
EXTENDS Naturals

CONSTANT Ids

VARIABLES sent,     \* packets the debugger has sent
          handled,  \* how often the guest has handled each
          acked     \* packets the debugger knows to be handled

vars == <<sent, handled, acked>>

Init == sent = {} /\ handled = [i \in Ids |-> 0] /\ acked = {}

Send(i) == i \notin sent /\ sent' = sent \cup {i} /\ UNCHANGED <<handled, acked>>

Handle(i) ==
    /\ i \in sent /\ handled[i] = 0
    /\ handled' = [handled EXCEPT ![i] = 1]
    /\ UNCHANGED <<sent, acked>>

Acknowledge(i) ==
    /\ handled[i] = 1
    /\ acked' = acked \cup {i}
    /\ UNCHANGED <<sent, handled>>

Next == \E i \in Ids : Send(i) \/ Handle(i) \/ Acknowledge(i)

Spec == Init /\ [][Next]_vars
=============================================================================
