----------------------------- MODULE Rendezvous ------------------------------
(***************************************************************************)
(* What IPC over endpoints promises its users, with nothing said of        *)
(* scheduling, registers, capabilities or CNodes: a message goes from one  *)
(* thread to one other, in the order the waiting ones came; a caller waits *)
(* until the thread that took its call answers it, once.                   *)
(***************************************************************************)
EXTENDS Sequences

CONSTANTS THREAD, ENDPOINT, None

VARIABLES
    offers,     \* the threads whose message waits at an endpoint, in order
    listeners,  \* the threads that wait for a message there, in order
    calling,    \* the waiting senders that want an answer
    awaiting,   \* the callers whose message has been taken
    owes,       \* whom a thread may answer
    heard       \* whose message a thread holds; its own when it has moved on

rendezvousVars == <<offers, listeners, calling, awaiting, owes, heard>>

In(t, q) == \E i \in DOMAIN q : q[i] = t

Idle(t) ==
    /\ t \notin awaiting
    /\ \A e \in ENDPOINT : ~In(t, offers[e]) /\ ~In(t, listeners[e])

Init ==
    /\ offers = [e \in ENDPOINT |-> <<>>]
    /\ listeners = [e \in ENDPOINT |-> <<>>]
    /\ calling = {}
    /\ awaiting = {}
    /\ owes = [t \in THREAD |-> None]
    /\ heard = [t \in THREAD |-> t]

\* A message no one listens for waits with its sender.
Offer(t, e, wantsAnswer) ==
    /\ listeners[e] = <<>>
    /\ offers' = [offers EXCEPT ![e] = Append(@, t)]
    /\ calling' = IF wantsAnswer THEN calling \cup {t} ELSE calling
    /\ heard' = [heard EXCEPT ![t] = t]
    /\ UNCHANGED <<listeners, awaiting, owes>>

Listen(t, e) ==
    /\ offers[e] = <<>>
    /\ listeners' = [listeners EXCEPT ![e] = Append(@, t)]
    /\ heard' = [heard EXCEPT ![t] = t]
    /\ UNCHANGED <<offers, calling, awaiting, owes>>

\* The first listener gets the message; a caller goes on to await its answer.
Deliver(t, e, wantsAnswer) ==
    /\ listeners[e] # <<>>
    /\ LET l == Head(listeners[e])
       IN  /\ heard' = [heard EXCEPT ![t] = t, ![l] = t]
           /\ owes' = IF wantsAnswer THEN [owes EXCEPT ![l] = t] ELSE owes
    /\ listeners' = [listeners EXCEPT ![e] = Tail(@)]
    /\ awaiting' = IF wantsAnswer THEN awaiting \cup {t} ELSE awaiting
    /\ UNCHANGED <<offers, calling>>

\* The first waiting message is taken; an older debt of the taker is forgotten.
Take(t, e) ==
    /\ offers[e] # <<>>
    /\ LET s == Head(offers[e])
       IN  /\ heard' = [heard EXCEPT ![t] = s]
           /\ awaiting' = IF s \in calling THEN awaiting \cup {s} ELSE awaiting
           /\ owes' = IF s \in calling THEN [owes EXCEPT ![t] = s] ELSE owes
           /\ calling' = calling \ {s}
    /\ offers' = [offers EXCEPT ![e] = Tail(@)]
    /\ UNCHANGED listeners

\* The answer frees the caller and settles the debt.
Answer(t) ==
    /\ owes[t] \in awaiting
    /\ awaiting' = awaiting \ {owes[t]}
    /\ heard' = [heard EXCEPT ![t] = t, ![owes[t]] = t]
    /\ owes' = [owes EXCEPT ![t] = None]
    /\ UNCHANGED <<offers, listeners, calling>>

\* A thread that does anything else has done with the message it held.
MoveOn(t) ==
    /\ heard' = [heard EXCEPT ![t] = t]
    /\ UNCHANGED <<offers, listeners, calling, awaiting, owes>>

Next ==
    \E t \in THREAD :
        /\ Idle(t)
        /\ \/ \E e \in ENDPOINT, wantsAnswer \in BOOLEAN :
                 Offer(t, e, wantsAnswer) \/ Deliver(t, e, wantsAnswer)
           \/ \E e \in ENDPOINT : Listen(t, e) \/ Take(t, e)
           \/ Answer(t) \/ MoveOn(t)

Spec == Init /\ [][Next]_rendezvousVars
=============================================================================
