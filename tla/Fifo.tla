-------------------------------- MODULE Fifo --------------------------------
(***************************************************************************)
(* A queue as its callers see it: a bounded sequence of values, and the    *)
(* answer to the last call.                                                *)
(***************************************************************************)
EXTENDS Queues

CONSTANTS Value, None

VARIABLES queue, answer

First(q) == IF q = <<>> THEN None ELSE Head(q)

Init == queue = <<>> /\ answer = None

Push(v) == queue' = PushBack(queue, v) /\ answer' = ~Full(queue)

Pop ==
    /\ queue' = IF queue = <<>> THEN queue ELSE Tail(queue)
    /\ answer' = First(queue)

Peek == UNCHANGED queue /\ answer' = First(queue)

Drop(v) ==
    /\ queue' = Remove(queue, v)
    /\ answer' = \E i \in DOMAIN queue : queue[i] = v

Next == Pop \/ Peek \/ \E v \in Value : Push(v) \/ Drop(v)

Spec == Init /\ [][Next]_<<queue, answer>>
=============================================================================
