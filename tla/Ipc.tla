-------------------------------- MODULE Ipc ---------------------------------
(***************************************************************************)
(* The IPC fast path (src/ipc.rs): Send, NBSend, Recv, Call and Reply on   *)
(* endpoints, Signal, Wait and Poll on notifications.  Each operation is   *)
(* one whole handler run by the current thread; c is the CPtr it invokes   *)
(* (mr0), m the word in mr1 where that names a slot, r the registers it    *)
(* traps with.                                                             *)
(***************************************************************************)
EXTENDS KernelState

\* abi::require_fast_path_only (most = 1) and abi::require_call_tag (most = 2)
TagError(r, most) == IF r.xc > most THEN "TruncatedMessage" ELSE Ok

\* extract_extra_cap: the capability attached when the tag counts exactly one.
ExtraCap(m, r) == IF r.xc = 1 THEN CapAt(current, m) ELSE None

\* Mutant: the attached capability need not carry GRANT.
ExtraCapAnyRights(m, r) == IF r.xc # 1 THEN Ok ELSE LookupError(current, m)

ExtraCapError(m, r) ==
    IF r.xc # 1 THEN Ok
    ELSE IF LookupError(current, m) # Ok THEN LookupError(current, m)
    ELSE IF "GRANT" \notin CapAt(current, m).rights THEN "IllegalOperation" ELSE Ok

\* Mutant: the destination slot may be occupied.
PlaceErrorOccupied(t, dest, cap) ==
    IF cap = None THEN Ok
    ELSE IF dest = None THEN "IllegalOperation"
    ELSE IF dest \notin Slot THEN "RangeError" ELSE Ok

\* place_transferred_cap: t's slot dest takes cap, if cap is one and the slot is free.
PlaceError(t, dest, cap) ==
    IF cap = None THEN Ok
    ELSE IF dest = None THEN "IllegalOperation"
    ELSE IF conf[t].cspace = None THEN "FailedLookup"
    ELSE IF dest \notin Slot THEN "RangeError"
    ELSE IF cnode[conf[t].cspace][dest] # Null THEN "IllegalOperation" ELSE Ok

Place(t, dest, cap) ==
    IF cap = None THEN cnode ELSE [cnode EXCEPT ![conf[t].cspace][dest] = cap]

\* The slot a blocked receiver or caller has registered for an incoming capability.
RecvDest(t)  == IF tstate[t].kind = "BlockedRecv" THEN tstate[t].dest ELSE None
ReplyDest(t) == IF tstate[t].kind = "BlockedReply" THEN tstate[t].dest ELSE None

\* Mutant: the queue keeps its side when it is drained.
WaitingUndrained(side, q) == [side |-> side, q |-> q]

\* normalize: a drained queue is Empty whatever side it was.
Waiting(side, q) == IF q = <<>> THEN EmptyQueue ELSE [side |-> side, q |-> q]

\* Mutants: the badge or the tag of the message is lost, the badge is taken for a
\* word of the sender.
DeliveredUnbadged(r, badge) == [r EXCEPT !.mr0 = Badge({}), !.mr1 = IF r.xc = 0 THEN @ ELSE "zero"]
DeliveredUntagged(r, badge) == [r EXCEPT !.mr0 = Badge(badge), !.mr1 = "zero", !.xc = 0]
DeliveredRaw(r, badge)      == [r EXCEPT !.mr0 = Append(Own, badge)]

\* deliver_payload: what the target's registers hold once the message r is in them.
Delivered(r, badge) ==
    [mr0 |-> Badge(badge), mr1 |-> IF r.xc = 0 THEN r.mr1 ELSE "zero",
     from |-> r.from, xc |-> r.xc, err |-> r.err]

\* The checks Send, NBSend and Call share before they look at the endpoint.
SendChecks(c, m, r, most) ==
    <<InvokeError(current, c, "Endpoint", "WRITE"), TagError(r, most), ExtraCapError(m, r)>>

RoomIn(q) == IF Full(q) THEN "NotEnoughMemory" ELSE Ok

\* A Send or Call no receiver waits for: queue on the endpoint and give up the hart.
QueueSender(cap, m, r, isCall) ==
    LET e      == cap.id
        dest   == IF isCall /\ r.xc = 2 THEN m ELSE None
        checks == <<CanBlock, RoomIn(endpoint[e].q)>>
        state  == BlockedSend(e, cap.badge, isCall, ExtraCap(m, r), dest)
    IN  /\ endpoint[e].side # "Recv"
        /\ \/ Refused(checks, r)
           \/ /\ Accepted(checks)
              /\ endpoint' = [endpoint EXCEPT ![e] = Waiting("Send", PushBack(@.q, current))]
              /\ BlockCurrent(ready, [tstate EXCEPT ![current] = state], r)
              /\ UNCHANGED <<conf, replyTo, signals, waiters, cnode>>

(***************************************************************************)
(* Send and NBSend.  A waiting receiver is made ready, the sender keeps    *)
(* the hart; the transfer is validated before the receiver is dequeued.    *)
(***************************************************************************)
SendToReceiver(cap, m, r) ==
    LET e      == cap.id
        t      == Head(endpoint[e].q)
        checks == <<PlaceError(t, RecvDest(t), ExtraCap(m, r))>>
    IN  /\ endpoint[e].side = "Recv"
        /\ \/ Refused(checks, r)
           \/ /\ Accepted(checks)
              /\ cnode' = Place(t, RecvDest(t), ExtraCap(m, r))
              /\ endpoint' = [endpoint EXCEPT ![e] = Waiting("Recv", Tail(@.q))]
              /\ ctx' = [ctx EXCEPT ![t] = Delivered(r, cap.badge)]
              /\ tstate' = MarkReady(tstate, t)
              /\ ready' = Enqueue(tstate, ready, t)
              /\ frame' = Success(r)
              /\ UNCHANGED <<conf, replyTo, current, active, signals, waiters>>

Send(c, m, r) ==
    LET checks == SendChecks(c, m, r, 1)
    IN  \/ Refused(checks, r)
        \/ Accepted(checks) /\ SendToReceiver(CapAt(current, c), m, r)
        \/ Accepted(checks) /\ QueueSender(CapAt(current, c), m, r, FALSE)

\* A non-blocking send drops the message when nobody receives, and succeeds.
NBSend(c, m, r) ==
    LET checks == SendChecks(c, m, r, 1)
    IN  \/ Refused(checks, r)
        \/ Accepted(checks) /\ SendToReceiver(CapAt(current, c), m, r)
        \/ /\ Accepted(checks)
           /\ endpoint[CapAt(current, c).id].side # "Recv"
           /\ frame' = Success(r)
           /\ UNCHANGED <<threadVars, ready, current, active, ipcVars, cnode>>

(***************************************************************************)
(* Call: as Send, but the hart goes straight to the receiver, who owes the *)
(* caller a Reply.                                                         *)
(***************************************************************************)
CallReceiver(cap, m, r) ==
    LET e      == cap.id
        t      == Head(endpoint[e].q)
        dest   == IF r.xc = 2 THEN m ELSE None
        checks == <<PlaceError(t, RecvDest(t), ExtraCap(m, r))>>
    IN  /\ endpoint[e].side = "Recv"
        /\ \/ Refused(checks, r)
           \/ /\ Accepted(checks)
              /\ cnode' = Place(t, RecvDest(t), ExtraCap(m, r))
              /\ endpoint' = [endpoint EXCEPT ![e] = Waiting("Recv", Tail(@.q))]
              /\ replyTo' = [replyTo EXCEPT ![t] = current]
              /\ SwitchTo(t, [tstate EXCEPT ![current] = BlockedReply(dest)],
                          [ctx EXCEPT ![t] = Delivered(r, cap.badge)], r)
              /\ UNCHANGED <<conf, ready, signals, waiters>>

Call(c, m, r) ==
    LET checks == SendChecks(c, m, r, 2)
    IN  \/ Refused(checks, r)
        \/ Accepted(checks) /\ CallReceiver(CapAt(current, c), m, r)
        \/ Accepted(checks) /\ QueueSender(CapAt(current, c), m, r, TRUE)

(***************************************************************************)
(* Recv: take the first queued sender's message, or queue.                 *)
(***************************************************************************)
RecvChecks(c, r) == <<InvokeError(current, c, "Endpoint", "READ"), TagError(r, 1)>>

\* Mutant: the slot a Recv registers is not looked at.
RecvSlotIgnored(m, r) == None

RecvSlot(m, r) == IF r.xc = 1 THEN m ELSE None

TakeError(s, dest) ==
    IF tstate[s].kind # "BlockedSend" THEN "IllegalOperation"
    ELSE PlaceError(current, dest, tstate[s].extra_cap)

\* Mutant: the caller is treated as a plain sender and made ready.
ReleaseCaller(s) ==
    /\ tstate' = MarkReady(tstate, s)
    /\ ready' = Enqueue(tstate, ready, s)
    /\ replyTo' = [replyTo EXCEPT ![current] = IF tstate[s].is_call THEN s ELSE @]

\* The queued Send resumes; the queued Call goes on waiting, now for the Reply.
ReleaseSender(s) ==
    \/ /\ ~tstate[s].is_call
       /\ tstate' = MarkReady(tstate, s)
       /\ ready' = Enqueue(tstate, ready, s)
       /\ UNCHANGED replyTo
    \/ /\ tstate[s].is_call
       /\ tstate' = [tstate EXCEPT ![s] = BlockedReply(tstate[s].reply_dest)]
       /\ replyTo' = [replyTo EXCEPT ![current] = s]
       /\ UNCHANGED ready

TakeMessage(e, m, r) ==
    LET s      == Head(endpoint[e].q)
        checks == <<TakeError(s, RecvSlot(m, r))>>
    IN  /\ endpoint[e].side = "Send"
        /\ \/ Refused(checks, r)
           \/ /\ Accepted(checks)
              /\ cnode' = Place(current, RecvSlot(m, r), tstate[s].extra_cap)
              /\ endpoint' = [endpoint EXCEPT ![e] = Waiting("Send", Tail(@.q))]
              /\ frame' = Success([ctx[s] EXCEPT
                             !.mr0 = Badge(tstate[s].badge),
                             !.mr1 = IF tstate[s].extra_cap # None THEN "zero" ELSE @])
              /\ ReleaseSender(s)
              /\ UNCHANGED <<conf, ctx, current, active, signals, waiters>>

QueueReceiver(e, m, r) ==
    LET checks == <<CanBlock, RoomIn(endpoint[e].q)>>
    IN  /\ endpoint[e].side # "Send"
        /\ \/ Refused(checks, r)
           \/ /\ Accepted(checks)
              /\ endpoint' = [endpoint EXCEPT ![e] = Waiting("Recv", PushBack(@.q, current))]
              /\ BlockCurrent(ready,
                     [tstate EXCEPT ![current] = BlockedRecv(e, RecvSlot(m, r))], r)
              /\ UNCHANGED <<conf, replyTo, signals, waiters, cnode>>

Recv(c, m, r) ==
    LET checks == RecvChecks(c, r)
    IN  \/ Refused(checks, r)
        \/ Accepted(checks) /\ TakeMessage(CapAt(current, c).id, m, r)
        \/ Accepted(checks) /\ QueueReceiver(CapAt(current, c).id, m, r)

(***************************************************************************)
(* Reply: no capability is invoked, the target is the thread's own reply   *)
(* link.  The replier is made ready first, then the hart goes to the       *)
(* caller.                                                                 *)
(***************************************************************************)
ReplyChecks(m, r) ==
    <<TagError(r, 1), ExtraCapError(m, r),
      IF replyTo[current] = None THEN "IllegalOperation" ELSE Ok>>

\* Mutant: the link is consumed before the transfer is validated.
AnswerCallerEarly(t, m, r) ==
    LET checks == <<PlaceError(t, ReplyDest(t), ExtraCap(m, r))>>
    IN  /\ replyTo' = [replyTo EXCEPT ![current] = None]
        /\ UNCHANGED <<conf, ipcVars>>
        /\ \/ /\ ~Accepted(checks)
              /\ frame' = Failure(r, FirstError(checks))
              /\ UNCHANGED <<tstate, ctx, ready, current, active, cnode>>
           \/ /\ Accepted(checks)
              /\ cnode' = Place(t, ReplyDest(t), ExtraCap(m, r))
              /\ ready' = Enqueue(tstate, ready, current)
              /\ SwitchTo(t, MarkReady(tstate, current), [ctx EXCEPT ![t] = Delivered(r, {})], r)

AnswerCaller(t, m, r) ==
    LET checks == <<PlaceError(t, ReplyDest(t), ExtraCap(m, r))>>
    IN  \/ Refused(checks, r)
        \/ /\ Accepted(checks)
           /\ cnode' = Place(t, ReplyDest(t), ExtraCap(m, r))
           /\ replyTo' = [replyTo EXCEPT ![current] = None]
           /\ ready' = Enqueue(tstate, ready, current)
           /\ SwitchTo(t, MarkReady(tstate, current), [ctx EXCEPT ![t] = Delivered(r, {})], r)
           /\ UNCHANGED <<conf, ipcVars>>

Reply(m, r) ==
    LET checks == ReplyChecks(m, r)
    IN  \/ Refused(checks, r)
        \/ Accepted(checks) /\ AnswerCaller(replyTo[current], m, r)

(***************************************************************************)
(* Notifications                                                           *)
(***************************************************************************)
\* Mutants: the woken thread sees only the pending bits; a bit is accumulated
\* although a thread waits; the word is read after it was cleared.
WakeWaiterStale(n, badge) ==
    LET t == Head(waiters[n])
    IN  /\ waiters[n] # <<>>
        /\ waiters' = [waiters EXCEPT ![n] = Tail(@)]
        /\ signals' = [signals EXCEPT ![n] = {}]
        /\ ctx' = [ctx EXCEPT ![t].mr0 = Badge(signals[n])]
        /\ tstate' = MarkReady(tstate, t)
        /\ ready' = Enqueue(tstate, ready, t)

AccumulateAlways(n, badge) ==
    /\ signals' = [signals EXCEPT ![n] = @ \cup badge]
    /\ UNCHANGED <<waiters, ctx, tstate, ready>>

ConsumeCleared(n, r) ==
    /\ signals' = [signals EXCEPT ![n] = {}]
    /\ frame' = Success([r EXCEPT !.mr0 = Badge({})])
    /\ UNCHANGED <<threadVars, ready, current, active, endpoint, waiters, cnode>>

WakeWaiter(n, badge) ==
    LET t == Head(waiters[n])
    IN  /\ waiters[n] # <<>>
        /\ waiters' = [waiters EXCEPT ![n] = Tail(@)]
        /\ signals' = [signals EXCEPT ![n] = {}]
        /\ ctx' = [ctx EXCEPT ![t].mr0 = Badge(signals[n] \cup badge)]
        /\ tstate' = MarkReady(tstate, t)
        /\ ready' = Enqueue(tstate, ready, t)

Accumulate(n, badge) ==
    /\ waiters[n] = <<>>
    /\ signals' = [signals EXCEPT ![n] = @ \cup badge]
    /\ UNCHANGED <<waiters, ctx, tstate, ready>>

Signal(c, r) ==
    LET checks == <<InvokeError(current, c, "Notification", "WRITE")>>
        cap    == CapAt(current, c)
    IN  \/ Refused(checks, r)
        \/ /\ Accepted(checks)
           /\ WakeWaiter(cap.id, cap.badge) \/ Accumulate(cap.id, cap.badge)
           /\ frame' = Success(r)
           /\ UNCHANGED <<conf, replyTo, current, active, endpoint, cnode>>

ConsumeSignals(n, r) ==
    /\ signals' = [signals EXCEPT ![n] = {}]
    /\ frame' = Success([r EXCEPT !.mr0 = Badge(signals[n])])
    /\ UNCHANGED <<threadVars, ready, current, active, endpoint, waiters, cnode>>

QueueWaiter(n, r) ==
    LET checks == <<CanBlock, RoomIn(waiters[n])>>
    IN  /\ signals[n] = {}
        /\ \/ Refused(checks, r)
           \/ /\ Accepted(checks)
              /\ waiters' = [waiters EXCEPT ![n] = PushBack(@, current)]
              /\ BlockCurrent(ready, [tstate EXCEPT ![current] = BlockedWait(n)], r)
              /\ UNCHANGED <<conf, replyTo, endpoint, signals, cnode>>

WaitChecks(c) == <<InvokeError(current, c, "Notification", "READ")>>

Wait(c, r) ==
    LET n == CapAt(current, c).id
    IN  \/ Refused(WaitChecks(c), r)
        \/ Accepted(WaitChecks(c)) /\ signals[n] # {} /\ ConsumeSignals(n, r)
        \/ Accepted(WaitChecks(c)) /\ QueueWaiter(n, r)

Poll(c, r) ==
    \/ Refused(WaitChecks(c), r)
    \/ Accepted(WaitChecks(c)) /\ ConsumeSignals(CapAt(current, c).id, r)
=============================================================================
