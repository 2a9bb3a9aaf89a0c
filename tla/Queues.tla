------------------------------- MODULE Queues -------------------------------
(***************************************************************************)
(* Bounded FIFOs as sequences: what the ready queue and the queues of      *)
(* blocked threads promise (src/queue.rs).  ArrayQueue shows that the ring *)
(* buffer of the code keeps the promise.                                   *)
(***************************************************************************)
EXTENDS Naturals, Sequences

CONSTANT MaxTcbs   \* MAX_TCBS: size of the TCB pool and capacity of every queue

\* push_back drops the value when the queue is full.
Full(q) == Len(q) >= MaxTcbs

\* Mutant: the newcomer goes to the front.
PushFront(q, t) == IF Full(q) THEN q ELSE <<t>> \o q

PushBack(q, t) == IF Full(q) THEN q ELSE Append(q, t)

\* remove: takes out the first occurrence, keeps the order of the others.
Remove(q, t) ==
    LET found == {i \in 1 .. Len(q) : q[i] = t}
        first == CHOOSE i \in found : \A j \in found : i <= j
    IN  IF found = {} THEN q
        ELSE [i \in 1 .. Len(q) - 1 |-> IF i < first THEN q[i] ELSE q[i + 1]]
=============================================================================
