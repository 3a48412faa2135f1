--------------------------------- MODULE Ring ---------------------------------
(***************************************************************************)
(* An EmbQueue (life-support/queues.c) as its users see it who share it    *)
(* with a reset: the two indexes and the slots, which keep what was put in *)
(* them.  EmbQueue.tla has the steps of one put and one take on a machine  *)
(* with store buffers; here a put, a take and a reset are loads and stores *)
(* that the modules with the threads put together.                         *)
(***************************************************************************)
EXTENDS Integers, Sequences

(* The queues with room for `space' elements of a set. *)
RingOf(space, elements) ==
    [queue_size : {space + 1}, put_index : 0 .. space, take_index : 0 .. space,
     element : [0 .. space -> elements]]

(* A queue with room for `space' elements and zeroes in its slots. *)
NewQueue(space, zero) ==
    [queue_size |-> space + 1, put_index |-> 0, take_index |-> 0,
     element |-> [i \in 0 .. space |-> zero]]

(* Mutant: the index goes round one slot too late. *)
AfterTooLate(q, i) == IF i + 1 > q.queue_size THEN 0 ELSE i + 1

(* The index after i. *)
After(q, i) == IF i + 1 >= q.queue_size THEN 0 ELSE i + 1

EmbQueueSpace(q) ==
    IF q.take_index > q.put_index
    THEN q.take_index - q.put_index - 1
    ELSE q.take_index - q.put_index - 1 + q.queue_size

EmbQueueFilled(q) ==
    IF q.put_index >= q.take_index
    THEN q.put_index - q.take_index
    ELSE q.put_index - q.take_index + q.queue_size

(* What the queue holds, oldest element first. *)
Elements(q) ==
    [i \in 1 .. EmbQueueFilled(q) |->
        q.element[LET at == q.take_index + i - 1
                  IN  IF at < q.queue_size THEN at ELSE at - q.queue_size]]

(* The stores of a put: the slot, then the index. *)
Filling(q, e) == [q EXCEPT !.element[q.put_index] = e]
StorePutIndex(q, i) == [q EXCEPT !.put_index = i]

(* The store of a take. *)
StoreTakeIndex(q, i) == [q EXCEPT !.take_index = i]

(* The element a take returns. *)
First(q) == q.element[q.take_index]

(* A put and a take that nothing comes between: the guest's. *)
Put(q, e) == [Filling(q, e) EXCEPT !.put_index = After(q, @)]
Take(q) == [q EXCEPT !.take_index = After(q, @)]
=============================================================================
