----------------------------- MODULE KernelSteps -----------------------------
(***************************************************************************)
(* What the building blocks of a syscall (wake, block, hand over, queue on *)
(* an endpoint or a notification, owe a reply) do to the invariants.       *)
(***************************************************************************)
EXTENDS KernelLemmas

Inv == /\ TypeOK
       /\ SchedulerExact
       /\ EndpointQueuesExact
       /\ NotificationsExact
       /\ ReplyLinksExact

\* The threads that move to or from one of the states in kinds: none.
NobodyMoves(kinds) ==
    \A t \in TCB : \/ tstate'[t] = tstate[t]
                   \/ tstate[t].kind \notin kinds /\ tstate'[t].kind \notin kinds

\* The states of a thread that waits for another thread.
Blocked == {s \in ThreadState : s.kind \notin {"Inactive", "Ready", "Running"}}

(***************************************************************************)
(* Thread states                                                           *)
(***************************************************************************)
LEMMA BlockedStates ==
    /\ \A e \in ENDPOINT, b \in Word, isCall \in BOOLEAN, cap \in Capability \cup {None},
          dest \in OptSlot : BlockedSend(e, b, isCall, cap, dest) \in Blocked
    /\ \A e \in ENDPOINT, dest \in OptSlot : BlockedRecv(e, dest) \in Blocked
    /\ \A dest \in OptSlot : BlockedReply(dest) \in Blocked
    /\ \A n \in NTFN : BlockedWait(n) \in Blocked
    /\ {Inactive, Ready, Running} \subseteq ThreadState
<1>1. \A e \in ENDPOINT, b \in Word, isCall \in BOOLEAN, cap \in Capability \cup {None},
          dest \in OptSlot : BlockedSend(e, b, isCall, cap, dest) \in Blocked
  BY DEF Blocked, ThreadState, BlockedSend
<1>2. \A e \in ENDPOINT, dest \in OptSlot : BlockedRecv(e, dest) \in Blocked
  BY DEF Blocked, ThreadState, BlockedRecv
<1>3. \A dest \in OptSlot : BlockedReply(dest) \in Blocked
  BY DEF Blocked, ThreadState, BlockedReply
<1>4. \A n \in NTFN : BlockedWait(n) \in Blocked
  BY DEF Blocked, ThreadState, BlockedWait
<1> QED
  BY <1>1, <1>2, <1>3, <1>4 DEF ThreadState

\* What a blocked state says, for each kind.
LEMMA BlockedFields ==
    ASSUME NEW s \in ThreadState
    PROVE  /\ s.kind = "BlockedSend" =>
                 /\ s.ep \in ENDPOINT /\ s.badge \in Word /\ s.is_call \in BOOLEAN
                 /\ s.extra_cap \in Capability \cup {None} /\ s.reply_dest \in OptSlot
           /\ s.kind = "BlockedRecv" => s.ep \in ENDPOINT /\ s.dest \in OptSlot
           /\ s.kind = "BlockedReply" => s.dest \in OptSlot
           /\ s.kind = "BlockedWait" => s.ntfn \in NTFN
           /\ s.kind = "Ready" <=> s = Ready
           /\ s.kind = "Running" <=> s = Running
           /\ s.kind = "Inactive" <=> s = Inactive
  BY DEF ThreadState, Inactive, Ready, Running

(***************************************************************************)
(* Scheduling                                                              *)
(***************************************************************************)

\* Waking a thread that does not run.
LEMMA WakeExact ==
    ASSUME TypeOK, SchedulerExact, NEW t \in TCB, tstate[t] # Running,
           tstate' = MarkReady(tstate, t), ready' = Enqueue(tstate, ready, t),
           current' = current
    PROVE  /\ SchedulerExact'
           /\ tstate' \in [TCB -> ThreadState] /\ ready' \in Seq(TCB)
           /\ tstate'[t] = Ready /\ \A u \in TCB \ {t} : tstate'[u] = tstate[u]
<1>1. tstate' \in [TCB -> ThreadState] /\ tstate'[t] = Ready
      /\ \A u \in TCB \ {t} : tstate'[u] = tstate[u]
  BY BlockedStates DEF TypeOK, MarkReady
<1>2. ReadyThreads' = ReadyThreads \cup {t}
  BY <1>1 DEF ReadyThreads
<1>3. ready' \in Seq(TCB) /\ Lists(ready', ReadyThreads')
  <2>1. CASE tstate[t] = Ready
    <3>1. ready' = ready /\ ReadyThreads' = ReadyThreads
      BY <2>1, <1>2 DEF Enqueue, ReadyThreads
    <3> QED
      BY <3>1 DEF TypeOK, SchedulerExact
  <2>2. CASE tstate[t] # Ready
    <3>1. ready' = PushBack(ready, t) /\ t \notin ReadyThreads
      BY <2>2 DEF Enqueue, ReadyThreads
    <3>2. ready \in Seq(TCB) /\ Lists(ready, ReadyThreads)
      BY DEF TypeOK, SchedulerExact
    <3> QED
      BY <3>1, <3>2, <1>2, PushLists
  <2> QED
    BY <2>1, <2>2
<1>4. \A u \in TCB : tstate'[u] = Running <=> u = current'
  BY <1>1 DEF SchedulerExact, Ready, Running
<1>5. current' = None => \A u \in TCB : tstate'[u] \in {Inactive, Ready}
  BY <1>1 DEF SchedulerExact
<1> QED
  BY <1>1, <1>3, <1>4, <1>5 DEF SchedulerExact

\* The hart passes to next, the current thread takes the state mine, and nobody
\* else moves.
LEMMA HandoverExact ==
    ASSUME TypeOK, SchedulerExact, current \in TCB, NEW next \in TCB, next # current,
           NEW mine \in ThreadState, mine # Running,
           NEW saved \in [TCB -> Frame], NEW queue,
           Handover(next, [tstate EXCEPT ![current] = mine], saved),
           ready' = queue, queue \in Seq(TCB),
           Lists(queue, {t \in TCB \ {next} :
                            IF t = current THEN mine = Ready ELSE tstate[t] = Ready})
    PROVE  /\ SchedulerExact'
           /\ tstate' \in [TCB -> ThreadState] /\ ctx' \in [TCB -> Frame]
           /\ ready' \in Seq(TCB) /\ current' \in TCB /\ active' \in VSPACE \cup {None}
           /\ tstate'[current] = mine /\ tstate'[next] = Running
           /\ \A t \in TCB \ {current, next} : tstate'[t] = tstate[t]
<1>1. /\ tstate' \in [TCB -> ThreadState]
      /\ tstate'[current] = mine /\ tstate'[next] = Running
      /\ \A t \in TCB \ {current, next} : tstate'[t] = tstate[t]
  BY BlockedStates DEF TypeOK, Handover
<1>2. /\ ctx' \in [TCB -> Frame] /\ current' = next /\ active' \in VSPACE \cup {None}
  BY DEF TypeOK, Handover, Config
<1>3. ReadyThreads' = {t \in TCB \ {next} :
                          IF t = current THEN mine = Ready ELSE tstate[t] = Ready}
  BY <1>1 DEF ReadyThreads, Ready, Running
<1>4. \A t \in TCB : tstate'[t] = Running <=> t = current'
  BY <1>1, <1>2 DEF SchedulerExact
<1>5. current' # None
  BY <1>2, NoneAssumption
<1> QED
  BY <1>1, <1>2, <1>3, <1>4, <1>5 DEF SchedulerExact

\* The current thread blocks, the first ready thread runs.
LEMMA BlockExact ==
    ASSUME TypeOK, SchedulerExact, current \in TCB, ready # <<>>,
           NEW mine \in Blocked, NEW f \in Frame,
           BlockCurrent(ready, [tstate EXCEPT ![current] = mine], f)
    PROVE  /\ SchedulerExact'
           /\ tstate' \in [TCB -> ThreadState] /\ ctx' \in [TCB -> Frame] /\ frame' \in Frame
           /\ ready' \in Seq(TCB) /\ current' \in TCB /\ active' \in VSPACE \cup {None}
           /\ tstate'[current] = mine
           /\ \E next \in TCB \ {current} :
                 /\ tstate[next] = Ready /\ tstate'[next] = Running
                 /\ \A t \in TCB \ {current, next} : tstate'[t] = tstate[t]
<1> DEFINE next == Head(ready)
<1> DEFINE saved == [ctx EXCEPT ![current] = f]
<1>1. /\ next \in TCB /\ next \in ReadyThreads
      /\ Tail(ready) \in Seq(TCB) /\ Lists(Tail(ready), ReadyThreads \ {next})
  BY TailLists DEF TypeOK, SchedulerExact
<1>2. saved \in [TCB -> Frame] /\ frame' = saved[next]
      /\ Handover(next, [tstate EXCEPT ![current] = mine], saved) /\ ready' = Tail(ready)
  BY DEF TypeOK, BlockCurrent, SwitchTo
<1> HIDE DEF next, saved
<1>3. tstate[next] = Ready /\ next # current
  BY <1>1 DEF ReadyThreads, SchedulerExact, Ready, Running
<1>4. mine \in ThreadState /\ mine # Running /\ mine # Ready
  BY DEF Blocked, Ready, Running
<1>5. ReadyThreads \ {next}
          = {t \in TCB \ {next} : IF t = current THEN mine = Ready ELSE tstate[t] = Ready}
  BY <1>4 DEF ReadyThreads, SchedulerExact, Ready, Running
<1>6. /\ SchedulerExact'
      /\ tstate' \in [TCB -> ThreadState] /\ ctx' \in [TCB -> Frame]
      /\ ready' \in Seq(TCB) /\ current' \in TCB /\ active' \in VSPACE \cup {None}
      /\ tstate'[current] = mine /\ tstate'[next] = Running
      /\ \A t \in TCB \ {current, next} : tstate'[t] = tstate[t]
  BY <1>1, <1>2, <1>3, <1>4, <1>5, HandoverExact
<1>7. frame' \in Frame
  BY <1>1, <1>2
<1> QED
  BY <1>1, <1>3, <1>6, <1>7

\* Directed handoff to a blocked thread; the current thread takes the state mine.
LEMMA SwitchExact ==
    ASSUME TypeOK, SchedulerExact, current \in TCB,
           NEW t \in TCB, tstate[t].kind \notin {"Ready", "Running"},
           NEW mine \in ThreadState, mine \in Blocked \/ mine = Ready,
           NEW saved \in [TCB -> Frame], NEW f \in Frame,
           SwitchTo(t, [tstate EXCEPT ![current] = mine], saved, f),
           ready' = IF mine = Ready THEN PushBack(ready, current) ELSE ready
    PROVE  /\ SchedulerExact'
           /\ tstate' \in [TCB -> ThreadState] /\ ctx' \in [TCB -> Frame] /\ frame' \in Frame
           /\ ready' \in Seq(TCB) /\ current' \in TCB /\ active' \in VSPACE \cup {None}
           /\ t # current /\ tstate'[current] = mine /\ tstate'[t] = Running
           /\ \A u \in TCB \ {current, t} : tstate'[u] = tstate[u]
<1> DEFINE contexts == [saved EXCEPT ![current] = f]
<1>1. contexts \in [TCB -> Frame] /\ frame' = contexts[t]
      /\ Handover(t, [tstate EXCEPT ![current] = mine], contexts)
  BY DEF SwitchTo
<1> HIDE DEF contexts
<1>2. t # current /\ t \notin ReadyThreads /\ current \notin ReadyThreads /\ mine # Running
  BY DEF SchedulerExact, Ready, Running, ReadyThreads, Blocked
<1>3. ready \in Seq(TCB) /\ Lists(ready, ReadyThreads)
  BY DEF TypeOK, SchedulerExact
<1> DEFINE S == {u \in TCB \ {t} : IF u = current THEN mine = Ready ELSE tstate[u] = Ready}
<1>4. ready' \in Seq(TCB) /\ Lists(ready', S)
  <2>1. CASE mine = Ready
    <3>1. S = ReadyThreads \cup {current}
      BY <2>1, <1>2 DEF ReadyThreads
    <3> HIDE DEF S
    <3> QED
      BY <2>1, <3>1, <1>2, <1>3, PushLists
  <2>2. CASE mine # Ready
    <3>1. S = ReadyThreads
      BY <2>2, <1>2 DEF ReadyThreads
    <3> QED
      BY <2>2, <3>1, <1>3
  <2> QED
    BY <2>1, <2>2
<1>5. /\ SchedulerExact'
      /\ tstate' \in [TCB -> ThreadState] /\ ctx' \in [TCB -> Frame]
      /\ ready' \in Seq(TCB) /\ current' \in TCB /\ active' \in VSPACE \cup {None}
      /\ tstate'[current] = mine /\ tstate'[t] = Running
      /\ \A u \in TCB \ {current, t} : tstate'[u] = tstate[u]
  BY <1>1, <1>2, <1>4, HandoverExact
<1> QED
  BY <1>1, <1>2, <1>5

(***************************************************************************)
(* Endpoints                                                               *)
(***************************************************************************)
Ends == {"BlockedSend", "BlockedRecv"}

\* A step that moves no sender or receiver and no queue keeps the endpoints exact.
LEMMA EndpointsKept ==
    ASSUME EndpointQueuesExact, endpoint' = endpoint, NobodyMoves(Ends)
    PROVE  EndpointQueuesExact'
<1>1. \A e \in ENDPOINT : Senders(e)' = Senders(e) /\ Receivers(e)' = Receivers(e)
  BY DEF NobodyMoves, Ends, Senders, Receivers
<1> QED
  BY <1>1 DEF EndpointQueuesExact

\* A queue with a side is not empty, and its head is blocked on that side.
LEMMA HeadBlocked ==
    ASSUME TypeOK, EndpointQueuesExact, NEW e \in ENDPOINT, endpoint[e].side # "Empty"
    PROVE  LET t == Head(endpoint[e].q)
           IN  /\ t \in TCB /\ tstate[t].ep = e
               /\ tstate[t].kind =
                     IF endpoint[e].side = "Send" THEN "BlockedSend" ELSE "BlockedRecv"
               /\ Tail(endpoint[e].q) \in Seq(TCB)
               /\ Lists(Tail(endpoint[e].q), (Senders(e) \cup Receivers(e)) \ {t})
<1> DEFINE q == endpoint[e].q
<1>1. /\ q \in Seq(TCB) /\ q # <<>> /\ Lists(q, Senders(e) \cup Receivers(e))
      /\ endpoint[e].side \in {"Empty", "Send", "Recv"}
  BY DEF TypeOK, EndpointQueuesExact
<1>2. /\ Head(q) \in TCB /\ Head(q) \in Senders(e) \cup Receivers(e)
      /\ Tail(q) \in Seq(TCB)
      /\ Lists(Tail(q), (Senders(e) \cup Receivers(e)) \ {Head(q)})
  <2> HIDE DEF q
  <2> QED
    BY <1>1, TailLists
<1>3. IF endpoint[e].side = "Send" THEN Receivers(e) = {} ELSE Senders(e) = {}
  BY <1>1 DEF EndpointQueuesExact
<1> QED
  BY <1>1, <1>2, <1>3 DEF Senders, Receivers

\* A drained queue is Empty, any other keeps its side.
LEMMA WaitingType ==
    ASSUME NEW side \in {"Send", "Recv"}, NEW q \in Seq(TCB)
    PROVE  /\ Waiting(side, q) \in [side : {"Empty", "Send", "Recv"}, q : Seq(TCB)]
           /\ Waiting(side, q).q = q
           /\ Waiting(side, q).side = IF q = <<>> THEN "Empty" ELSE side
  BY DEF Waiting, EmptyQueue

\* The head of an endpoint's queue is taken out and is no longer blocked on it.
LEMMA EndpointPop ==
    ASSUME TypeOK, EndpointQueuesExact, NEW e \in ENDPOINT, NEW side \in {"Send", "Recv"},
           endpoint[e].side = side, NEW t, t = Head(endpoint[e].q),
           endpoint' = [endpoint EXCEPT ![e] = Waiting(side, Tail(@.q))],
           tstate'[t].kind \notin Ends,
           \A u \in TCB \ {t} : \/ tstate'[u] = tstate[u]
                                \/ tstate[u].kind \notin Ends /\ tstate'[u].kind \notin Ends
    PROVE  /\ EndpointQueuesExact'
           /\ endpoint' \in [ENDPOINT -> [side : {"Empty", "Send", "Recv"}, q : Seq(TCB)]]
<1> DEFINE p == Tail(endpoint[e].q)
<1>1. /\ t \in TCB /\ tstate[t].ep = e
      /\ tstate[t].kind = IF side = "Send" THEN "BlockedSend" ELSE "BlockedRecv"
      /\ p \in Seq(TCB) /\ Lists(p, (Senders(e) \cup Receivers(e)) \ {t})
  BY HeadBlocked
<1> HIDE DEF p
<1>2. /\ endpoint' \in [ENDPOINT -> [side : {"Empty", "Send", "Recv"}, q : Seq(TCB)]]
      /\ endpoint'[e].q = p
      /\ endpoint'[e].side = IF p = <<>> THEN "Empty" ELSE side
      /\ \A d \in ENDPOINT \ {e} : endpoint'[d] = endpoint[d]
  <2>1. endpoint' = [endpoint EXCEPT ![e] = Waiting(side, p)]
    BY DEF p
  <2> QED
    BY <2>1, <1>1, WaitingType DEF TypeOK
<1>3. \A d \in ENDPOINT : /\ Senders(d)' = Senders(d) \ {t}
                          /\ Receivers(d)' = Receivers(d) \ {t}
  BY DEF Senders, Receivers, Ends
<1>5. /\ side = "Send" => Receivers(e) = {}
      /\ side = "Recv" => Senders(e) = {}
  BY DEF EndpointQueuesExact
<1>6. /\ Lists(endpoint'[e].q, Senders(e)' \cup Receivers(e)')
      /\ endpoint'[e].side = "Empty" <=> endpoint'[e].q = <<>>
  <2>1. Senders(e)' \cup Receivers(e)' = (Senders(e) \cup Receivers(e)) \ {t}
    BY <1>3
  <2> QED
    BY <2>1, <1>1, <1>2
<1>7. p = <<>> => Senders(e)' = {} /\ Receivers(e)' = {}
  BY <1>2, <1>6 DEF Lists
<1>8. /\ endpoint'[e].side # "Recv" => Receivers(e)' = {}
      /\ endpoint'[e].side # "Send" => Senders(e)' = {}
  <2>1. CASE side = "Send"
    <3>1. Receivers(e)' = {}
      BY <2>1, <1>3, <1>5
    <3>2. endpoint'[e].side # "Send" => p = <<>>
      BY <2>1, <1>2
    <3> QED
      BY <3>1, <3>2, <1>7
  <2>2. CASE side = "Recv"
    <3>1. Senders(e)' = {}
      BY <2>2, <1>3, <1>5
    <3>2. endpoint'[e].side # "Recv" => p = <<>>
      BY <2>2, <1>2
    <3> QED
      BY <3>1, <3>2, <1>7
  <2> QED
    BY <2>1, <2>2
<1>9. ASSUME NEW d \in ENDPOINT \ {e}
      PROVE  /\ endpoint'[d] = endpoint[d]
             /\ Senders(d)' = Senders(d) /\ Receivers(d)' = Receivers(d)
  <2>1. t \notin Senders(d) /\ t \notin Receivers(d)
    BY <1>1 DEF Senders, Receivers
  <2>2. Senders(d)' = Senders(d) \ {t} /\ Receivers(d)' = Receivers(d) \ {t}
    BY <1>3
  <2> QED
    BY <2>1, <2>2, <1>2
<1>10. ASSUME NEW d \in ENDPOINT
       PROVE  /\ Lists(endpoint'[d].q, Senders(d)' \cup Receivers(d)')
              /\ endpoint'[d].side = "Empty" <=> endpoint'[d].q = <<>>
              /\ endpoint'[d].side # "Recv" => Receivers(d)' = {}
              /\ endpoint'[d].side # "Send" => Senders(d)' = {}
  <2>1. CASE d = e
    BY <2>1, <1>6, <1>8
  <2>2. CASE d # e
    BY <2>2, <1>9 DEF EndpointQueuesExact
  <2> QED
    BY <2>1, <2>2
<1> QED
  BY <1>2, <1>10 DEF EndpointQueuesExact

\* A thread that was blocked on no endpoint joins a queue of its side.
LEMMA EndpointPush ==
    ASSUME TypeOK, EndpointQueuesExact, NEW e \in ENDPOINT, NEW side \in {"Send", "Recv"},
           endpoint[e].side \in {"Empty", side}, NEW t \in TCB, tstate[t].kind \notin Ends,
           endpoint' = [endpoint EXCEPT ![e] = Waiting(side, PushBack(@.q, t))],
           tstate'[t].kind = IF side = "Send" THEN "BlockedSend" ELSE "BlockedRecv",
           tstate'[t].ep = e,
           \A u \in TCB \ {t} : \/ tstate'[u] = tstate[u]
                                \/ tstate[u].kind \notin Ends /\ tstate'[u].kind \notin Ends
    PROVE  /\ EndpointQueuesExact'
           /\ endpoint' \in [ENDPOINT -> [side : {"Empty", "Send", "Recv"}, q : Seq(TCB)]]
<1> DEFINE p == PushBack(endpoint[e].q, t)
<1>1. t \notin Senders(e) \cup Receivers(e)
  BY DEF Senders, Receivers, Ends
<1>2. p \in Seq(TCB) /\ p # <<>> /\ Lists(p, (Senders(e) \cup Receivers(e)) \cup {t})
  <2> DEFINE S == Senders(e) \cup Receivers(e)
  <2>1. endpoint[e].q \in Seq(TCB) /\ Lists(endpoint[e].q, S)
    BY DEF TypeOK, EndpointQueuesExact
  <2> HIDE DEF S
  <2>2. t \notin S
    BY <1>1 DEF S
  <2>3. p \in Seq(TCB) /\ p # <<>> /\ Lists(p, S \cup {t})
    BY <2>1, <2>2, PushLists
  <2> QED
    BY <2>3 DEF S
<1> HIDE DEF p
<1>3. /\ endpoint' \in [ENDPOINT -> [side : {"Empty", "Send", "Recv"}, q : Seq(TCB)]]
      /\ endpoint'[e].q = p /\ endpoint'[e].side = side
      /\ \A d \in ENDPOINT \ {e} : endpoint'[d] = endpoint[d]
  BY <1>2, WaitingType DEF TypeOK, p
<1>4. /\ Senders(e)' = IF side = "Send" THEN Senders(e) \cup {t} ELSE Senders(e)
      /\ Receivers(e)' = IF side = "Recv" THEN Receivers(e) \cup {t} ELSE Receivers(e)
  BY DEF Senders, Receivers, Ends
<1>5. \A d \in ENDPOINT \ {e} : Senders(d)' = Senders(d) /\ Receivers(d)' = Receivers(d)
  BY DEF Senders, Receivers, Ends
<1>6. /\ side = "Send" => Receivers(e) = {}
      /\ side = "Recv" => Senders(e) = {}
  BY DEF EndpointQueuesExact
<1>7. Lists(endpoint'[e].q, Senders(e)' \cup Receivers(e)')
  <2>1. Senders(e)' \cup Receivers(e)' = (Senders(e) \cup Receivers(e)) \cup {t}
    BY <1>4
  <2> QED
    BY <2>1, <1>2, <1>3
<1>8. /\ endpoint'[e].side = "Empty" <=> endpoint'[e].q = <<>>
      /\ endpoint'[e].side # "Recv" => Receivers(e)' = {}
      /\ endpoint'[e].side # "Send" => Senders(e)' = {}
  <2>1. CASE side = "Send"
    <3>1. Receivers(e)' = {}
      BY <2>1, <1>4, <1>6
    <3> QED
      BY <3>1, <2>1, <1>2, <1>3
  <2>2. CASE side = "Recv"
    <3>1. Senders(e)' = {}
      BY <2>2, <1>4, <1>6
    <3> QED
      BY <3>1, <2>2, <1>2, <1>3
  <2> QED
    BY <2>1, <2>2
<1>9. ASSUME NEW d \in ENDPOINT
      PROVE  /\ Lists(endpoint'[d].q, Senders(d)' \cup Receivers(d)')
             /\ endpoint'[d].side = "Empty" <=> endpoint'[d].q = <<>>
             /\ endpoint'[d].side # "Recv" => Receivers(d)' = {}
             /\ endpoint'[d].side # "Send" => Senders(d)' = {}
  <2>1. CASE d = e
    BY <2>1, <1>7, <1>8
  <2>2. CASE d # e
    <3>1. /\ endpoint'[d] = endpoint[d]
          /\ Senders(d)' = Senders(d) /\ Receivers(d)' = Receivers(d)
      BY <2>2, <1>3, <1>5
    <3>2. /\ Lists(endpoint[d].q, Senders(d) \cup Receivers(d))
          /\ endpoint[d].side = "Empty" <=> endpoint[d].q = <<>>
          /\ endpoint[d].side # "Recv" => Receivers(d) = {}
          /\ endpoint[d].side # "Send" => Senders(d) = {}
      BY DEF EndpointQueuesExact
    <3> QED
      BY <3>1, <3>2
  <2> QED
    BY <2>1, <2>2
<1> QED
  BY <1>3, <1>9 DEF EndpointQueuesExact

(***************************************************************************)
(* Notifications                                                           *)
(***************************************************************************)
LEMMA NotificationsKept ==
    ASSUME NotificationsExact, signals' = signals, waiters' = waiters,
           NobodyMoves({"BlockedWait"})
    PROVE  NotificationsExact'
<1>1. \A n \in NTFN : Sleepers(n)' = Sleepers(n)
  BY DEF NobodyMoves, Sleepers
<1> QED
  BY <1>1 DEF NotificationsExact

\* The first waiter is taken out and no longer waits; no bit stays behind.
LEMMA WaiterPop ==
    ASSUME TypeOK, NotificationsExact, NEW n \in NTFN, waiters[n] # <<>>,
           NEW t, t = Head(waiters[n]),
           waiters' = [waiters EXCEPT ![n] = Tail(@)], signals' = [signals EXCEPT ![n] = {}],
           tstate'[t].kind # "BlockedWait", \A u \in TCB \ {t} : tstate'[u] = tstate[u]
    PROVE  NotificationsExact' /\ waiters' \in [NTFN -> Seq(TCB)] /\ signals' \in [NTFN -> Word]
<1> DEFINE q == waiters[n]
<1>1. q \in Seq(TCB) /\ q # <<>> /\ Lists(q, Sleepers(n))
  BY DEF TypeOK, NotificationsExact
<1>2. t \in Sleepers(n) /\ Tail(q) \in Seq(TCB) /\ Lists(Tail(q), Sleepers(n) \ {t})
  <2> HIDE DEF q
  <2> QED
    BY <1>1, TailLists DEF q
<1>3. /\ waiters' \in [NTFN -> Seq(TCB)] /\ waiters'[n] = Tail(q)
      /\ \A m \in NTFN \ {n} : waiters'[m] = waiters[m]
  BY <1>2 DEF TypeOK
<1>4. /\ signals' \in [NTFN -> Word] /\ signals'[n] = {}
      /\ \A m \in NTFN \ {n} : signals'[m] = signals[m]
  BY DEF TypeOK, Word
<1>5. Sleepers(n)' = Sleepers(n) \ {t} /\ \A m \in NTFN \ {n} : Sleepers(m)' = Sleepers(m)
  BY <1>2 DEF Sleepers
<1>6. ASSUME NEW m \in NTFN
      PROVE  /\ Lists(waiters'[m], Sleepers(m)')
             /\ waiters'[m] # <<>> => signals'[m] = {}
  <2>1. CASE m = n
    BY <2>1, <1>2, <1>3, <1>4, <1>5
  <2>2. CASE m # n
    <3>1. /\ waiters'[m] = waiters[m] /\ signals'[m] = signals[m]
          /\ Sleepers(m)' = Sleepers(m)
      BY <2>2, <1>3, <1>4, <1>5
    <3> QED
      BY <3>1 DEF NotificationsExact
  <2> QED
    BY <2>1, <2>2
<1> QED
  BY <1>3, <1>4, <1>6 DEF NotificationsExact

\* A thread that waited for no notification joins the queue of one that has no
\* pending bit.
LEMMA WaiterPush ==
    ASSUME TypeOK, NotificationsExact, NEW n \in NTFN, signals[n] = {},
           NEW t \in TCB, tstate[t].kind # "BlockedWait",
           waiters' = [waiters EXCEPT ![n] = PushBack(@, t)], signals' = signals,
           tstate'[t] = BlockedWait(n),
           \A u \in TCB \ {t} : \/ tstate'[u] = tstate[u]
                                \/ /\ tstate[u].kind # "BlockedWait"
                                   /\ tstate'[u].kind # "BlockedWait"
    PROVE  NotificationsExact' /\ waiters' \in [NTFN -> Seq(TCB)]
<1> DEFINE q == waiters[n]
<1>1. q \in Seq(TCB) /\ Lists(q, Sleepers(n)) /\ t \notin Sleepers(n)
  BY DEF TypeOK, NotificationsExact, Sleepers
<1>2. PushBack(q, t) \in Seq(TCB) /\ Lists(PushBack(q, t), Sleepers(n) \cup {t})
  <2> HIDE DEF q
  <2> QED
    BY <1>1, PushLists
<1>3. /\ waiters' \in [NTFN -> Seq(TCB)] /\ waiters'[n] = PushBack(q, t)
      /\ \A m \in NTFN \ {n} : waiters'[m] = waiters[m]
  BY <1>2 DEF TypeOK
<1>4. Sleepers(n)' = Sleepers(n) \cup {t} /\ \A m \in NTFN \ {n} : Sleepers(m)' = Sleepers(m)
  BY DEF Sleepers, BlockedWait
<1> QED
  BY <1>2, <1>3, <1>4 DEF NotificationsExact

(***************************************************************************)
(* Reply links                                                             *)
(***************************************************************************)
LEMMA RepliesKept ==
    ASSUME TypeOK, ReplyLinksExact, replyTo' = replyTo,
           \A t \in TCB : tstate[t].kind = "BlockedReply" => tstate'[t].kind = "BlockedReply"
    PROVE  ReplyLinksExact'
<1>1. \A s \in TCB : replyTo[s] # None => replyTo[s] \in TCB
  BY DEF TypeOK
<1> QED
  BY <1>1 DEF ReplyLinksExact

\* A caller that nobody owed begins to wait, and t owes it the answer.
LEMMA LinkMade ==
    ASSUME TypeOK, ReplyLinksExact, NEW t \in TCB, NEW caller \in TCB,
           tstate[caller].kind # "BlockedReply", tstate'[caller].kind = "BlockedReply",
           replyTo' = [replyTo EXCEPT ![t] = caller],
           \A u \in TCB : tstate[u].kind = "BlockedReply" => tstate'[u].kind = "BlockedReply"
    PROVE  ReplyLinksExact' /\ replyTo' \in [TCB -> TCB \cup {None}]
<1>1. \A s \in TCB : replyTo[s] # None => replyTo[s] \in TCB /\ replyTo[s] # caller
  BY DEF TypeOK, ReplyLinksExact
<1>2. /\ replyTo' \in [TCB -> TCB \cup {None}]
      /\ \A s \in TCB : replyTo'[s] = IF s = t THEN caller ELSE replyTo[s]
  BY DEF TypeOK
<1> QED
  BY <1>1, <1>2 DEF ReplyLinksExact

\* The link to a caller is spent as the caller resumes.
LEMMA LinkSpent ==
    ASSUME TypeOK, ReplyLinksExact, NEW s \in TCB, NEW caller \in TCB, replyTo[s] = caller,
           replyTo' = [replyTo EXCEPT ![s] = None],
           \A u \in TCB \ {caller} :
              tstate[u].kind = "BlockedReply" => tstate'[u].kind = "BlockedReply"
    PROVE  ReplyLinksExact' /\ replyTo' \in [TCB -> TCB \cup {None}]
<1>1. caller # None
  BY NoneAssumption
<1>2. \A u \in TCB : u # s /\ replyTo[u] # None => replyTo[u] \in TCB /\ replyTo[u] # caller
  BY <1>1 DEF TypeOK, ReplyLinksExact
<1>3. /\ replyTo' \in [TCB -> TCB \cup {None}]
      /\ \A u \in TCB : replyTo'[u] = IF u = s THEN None ELSE replyTo[u]
  BY DEF TypeOK
<1> QED
  BY <1>2, <1>3 DEF ReplyLinksExact
=============================================================================
