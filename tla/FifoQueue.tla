------------------------------ MODULE FifoQueue ------------------------------
(***************************************************************************)
(* What a queue of the communications area promises its two users: a FIFO  *)
(* of at most QueueSize - 1 elements with one putter and one taker.  No    *)
(* element is lost, duplicated, reordered or garbled.  EmbQueue.tla is the *)
(* ring buffer of life-support/queues.c that implements it.                *)
(***************************************************************************)
EXTENDS Naturals, Sequences

CONSTANTS QueueSize, Elements

VARIABLES fifo,     \* the elements put and not yet taken, oldest first
          offering, \* the putter has an element that has not entered yet
          offered,  \* the element the putter was called with last
          taken     \* the element the taker obtained last

vars == <<fifo, offering, offered, taken>>

Init == fifo = <<>> /\ ~offering /\ offered \in Elements /\ taken \in Elements

(* The putter is called with an element, ... *)
Offer(e) ==
    /\ ~offering
    /\ offering' = TRUE /\ offered' = e
    /\ UNCHANGED <<fifo, taken>>

(* ... which enters once, at the end; a full queue makes it wait.          *)
Enqueue ==
    /\ offering
    /\ Len(fifo) < QueueSize - 1
    /\ fifo' = Append(fifo, offered)
    /\ offering' = FALSE
    /\ UNCHANGED <<offered, taken>>

(* The taker obtains exactly the oldest element. *)
Dequeue ==
    /\ fifo # <<>>
    /\ taken' = Head(fifo)
    /\ fifo' = Tail(fifo)
    /\ UNCHANGED <<offering, offered>>

Next == Enqueue \/ Dequeue \/ \E e \in Elements : Offer(e)

Spec == Init /\ [][Next]_vars
=============================================================================
