---------------------------- MODULE KernelProofs ----------------------------
(***************************************************************************)
(* Type correctness and the queue invariants of the kernel, for any number *)
(* of threads, CNodes, endpoints and notifications, any capacity and any   *)
(* programs.  The four queue invariants are only inductive together: that  *)
(* the head of an endpoint's queue can be resumed needs the states of the  *)
(* queued threads, that a wakeup finds room in the ready queue needs that  *)
(* nobody is in it twice, and that a Reply does not resume a thread that   *)
(* is queued elsewhere needs the reply links.                              *)
(***************************************************************************)
EXTENDS KernelSteps

(***************************************************************************)
(* The checks and the values of the IPC handlers                           *)
(***************************************************************************)
LEMMA ErrorTypes ==
    /\ \A r, most : TagError(r, most) \in Answer
    /\ \A m, r : ExtraCapError(m, r) \in Answer
    /\ \A t, dest, cap : PlaceError(t, dest, cap) \in Answer
    /\ \A q : RoomIn(q) \in Answer
    /\ CanBlock \in Answer
  BY InvokeErrorType DEF TagError, ExtraCapError, PlaceError, RoomIn, CanBlock, Answer,
     SyscallError

\* What a message attaches is a capability of the sender's, or nothing.
LEMMA ExtraCapType ==
    ASSUME TypeOK, current \in TCB, NEW m, NEW r
    PROVE  ExtraCap(m, r) \in Capability \cup {None}
  BY CapAtType DEF ExtraCap

\* A transfer that was accepted leaves tables of capabilities.
LEMMA PlaceType ==
    ASSUME TypeOK, NEW t \in TCB, NEW dest, NEW cap \in Capability \cup {None},
           PlaceError(t, dest, cap) = Ok
    PROVE  Place(t, dest, cap) \in [CNODE -> CNodeTable]
<1>1. CASE cap = None
  BY <1>1 DEF Place, TypeOK
<1>2. CASE cap # None
  <2>1. conf[t].cspace \in CNODE /\ dest \in Slot /\ cap \in Capability
    BY <1>2 DEF PlaceError, TypeOK, Config, Ok
  <2>2. cnode[conf[t].cspace] \in CNodeTable
    BY <2>1 DEF TypeOK
  <2>3. [cnode[conf[t].cspace] EXCEPT ![dest] = cap] \in CNodeTable
    BY <2>1, <2>2 DEF CNodeTable
  <2>4. Place(t, dest, cap)
           = [cnode EXCEPT ![conf[t].cspace] = [cnode[conf[t].cspace] EXCEPT ![dest] = cap]]
    BY <1>2 DEF Place
  <2> QED
    BY <2>1, <2>3, <2>4 DEF TypeOK
<1> QED
  BY <1>1, <1>2

\* The thread that traps runs, and waits for nothing.
LEMMA CurrentRuns ==
    ASSUME Inv, current # None
    PROVE  /\ current \in TCB /\ tstate[current] = Running
           /\ tstate[current].kind = "Running"
  BY DEF Inv, TypeOK, SchedulerExact, Running

\* A step that moves no thread and no queue preserves the invariant.
LEMMA QuietStep ==
    ASSUME Inv, frame' \in Frame, cnode' \in [CNODE -> CNodeTable],
           UNCHANGED <<threadVars, ready, current, active, ipcVars>>
    PROVE  Inv'
<1>1. TypeOK'
  BY DEF Inv, TypeOK, threadVars, ipcVars
<1>2. SchedulerExact'
  BY DEF Inv, SchedulerExact, ReadyThreads, Lists, threadVars
<1>3. EndpointQueuesExact'
  BY EndpointsKept DEF Inv, NobodyMoves, threadVars, ipcVars
<1>4. NotificationsExact'
  BY NotificationsKept DEF Inv, NobodyMoves, threadVars, ipcVars
<1>5. ReplyLinksExact'
  BY RepliesKept DEF Inv, threadVars
<1> QED
  BY <1>1, <1>2, <1>3, <1>4, <1>5 DEF Inv

\* A refused syscall preserves the invariant.
LEMMA RefusedStep ==
    ASSUME Inv, NEW r \in Frame, NEW checks \in Seq(Answer), Refused(checks, r)
    PROVE  Inv'
<1>1. frame' \in Frame
  BY FirstErrorType, FailureType DEF Refused
<1> QED
  BY <1>1, QuietStep DEF Refused, Inv, TypeOK

(***************************************************************************)
(* Endpoints                                                               *)
(***************************************************************************)
LEMMA SendToReceiverStep ==
    ASSUME Inv, current # None, NEW r \in Frame, NEW m, NEW cap,
           cap.id \in ENDPOINT, cap.badge \in Word, SendToReceiver(cap, m, r)
    PROVE  Inv'
<1> DEFINE e == cap.id
<1> DEFINE t == Head(endpoint[e].q)
<1> DEFINE checks == <<PlaceError(t, RecvDest(t), ExtraCap(m, r))>>
<1>1. CASE Refused(checks, r)
  <2>1. checks \in Seq(Answer)
    BY ErrorTypes
  <2> QED
    BY <1>1, <2>1, RefusedStep
<1>2. CASE ~Refused(checks, r)
  <2>1. /\ endpoint[e].side = "Recv" /\ PlaceError(t, RecvDest(t), ExtraCap(m, r)) = Ok
        /\ cnode' = Place(t, RecvDest(t), ExtraCap(m, r))
        /\ endpoint' = [endpoint EXCEPT ![e] = Waiting("Recv", Tail(@.q))]
        /\ ctx' = [ctx EXCEPT ![t] = Delivered(r, cap.badge)]
        /\ tstate' = MarkReady(tstate, t)
        /\ ready' = Enqueue(tstate, ready, t)
        /\ frame' = Success(r)
        /\ UNCHANGED <<conf, replyTo, current, active, signals, waiters>>
    BY <1>2 DEF SendToReceiver, Accepted
  <2>2. t \in TCB /\ tstate[t].kind = "BlockedRecv"
    BY <2>1, HeadBlocked DEF Inv
  <2> HIDE DEF t, e
  <2>3. /\ SchedulerExact'
        /\ tstate' \in [TCB -> ThreadState] /\ ready' \in Seq(TCB)
        /\ tstate'[t] = Ready /\ \A u \in TCB \ {t} : tstate'[u] = tstate[u]
    BY <2>1, <2>2, WakeExact DEF Inv, Running
  <2>4. tstate'[t].kind = "Ready"
    BY <2>3 DEF Ready
  <2>5. /\ EndpointQueuesExact'
        /\ endpoint' \in [ENDPOINT -> [side : {"Empty", "Send", "Recv"}, q : Seq(TCB)]]
    <3>1. t = Head(endpoint[e].q) /\ e \in ENDPOINT /\ tstate'[t].kind \notin Ends
      BY <2>4 DEF Ends, t, e
    <3> QED
      BY <3>1, <2>1, <2>3, EndpointPop DEF Inv
  <2>6. NotificationsExact'
    BY <2>1, <2>2, <2>3, <2>4, NotificationsKept DEF Inv, NobodyMoves
  <2>7. ReplyLinksExact'
    BY <2>1, <2>2, <2>3, RepliesKept DEF Inv
  <2>8. cnode' \in [CNODE -> CNodeTable] /\ ctx' \in [TCB -> Frame] /\ frame' \in Frame
    <3>1. cnode' \in [CNODE -> CNodeTable]
      BY <2>1, <2>2, CurrentRuns, ExtraCapType, PlaceType DEF Inv
    <3>2. ctx' \in [TCB -> Frame]
      BY <2>1, DeliveredType DEF Inv, TypeOK
    <3>3. frame' \in Frame
      BY <2>1, SuccessType
    <3> QED
      BY <3>1, <3>2, <3>3
  <2>9. TypeOK'
    BY <2>1, <2>3, <2>5, <2>8 DEF Inv, TypeOK
  <2> QED
    BY <2>3, <2>5, <2>6, <2>7, <2>9 DEF Inv
<1> QED
  BY <1>1, <1>2

\* What a thread that blocks leaves behind in the other queues.
LEMMA BlockStep ==
    ASSUME Inv, current # None, ready # <<>>, NEW r \in Frame, NEW mine \in Blocked,
           BlockCurrent(ready, [tstate EXCEPT ![current] = mine], r)
    PROVE  /\ SchedulerExact'
           /\ tstate' \in [TCB -> ThreadState] /\ ctx' \in [TCB -> Frame] /\ frame' \in Frame
           /\ ready' \in Seq(TCB) /\ current' \in TCB /\ active' \in VSPACE \cup {None}
           /\ tstate'[current] = mine
           /\ \A t \in TCB \ {current} :
                 \/ tstate'[t] = tstate[t]
                 \/ tstate[t].kind = "Ready" /\ tstate'[t].kind = "Running"
<1>1. /\ SchedulerExact'
      /\ tstate' \in [TCB -> ThreadState] /\ ctx' \in [TCB -> Frame] /\ frame' \in Frame
      /\ ready' \in Seq(TCB) /\ current' \in TCB /\ active' \in VSPACE \cup {None}
      /\ tstate'[current] = mine
      /\ \E next \in TCB \ {current} :
            /\ tstate[next] = Ready /\ tstate'[next] = Running
            /\ \A t \in TCB \ {current, next} : tstate'[t] = tstate[t]
  BY CurrentRuns, BlockExact DEF Inv
<1> QED
  BY <1>1 DEF Ready, Running

\* Queueing a sender or caller preserves the invariant (ipc::send, call).
LEMMA QueueSenderStep ==
    ASSUME Inv, current # None, NEW r \in Frame, NEW m \in Nat, NEW cap,
           cap.id \in ENDPOINT, cap.badge \in Word, NEW isCall \in BOOLEAN,
           QueueSender(cap, m, r, isCall)
    PROVE  Inv'
<1> DEFINE e == cap.id
<1> DEFINE dest == IF isCall /\ r.xc = 2 THEN m ELSE None
<1> DEFINE checks == <<CanBlock, RoomIn(endpoint[e].q)>>
<1> DEFINE mine == BlockedSend(e, cap.badge, isCall, ExtraCap(m, r), dest)
<1>1. CASE Refused(checks, r)
  <2>1. checks \in Seq(Answer)
    BY ErrorTypes
  <2> QED
    BY <1>1, <2>1, RefusedStep
<1>2. CASE ~Refused(checks, r)
  <2>1. /\ endpoint[e].side # "Recv" /\ ready # <<>>
        /\ endpoint' = [endpoint EXCEPT ![e] = Waiting("Send", PushBack(@.q, current))]
        /\ BlockCurrent(ready, [tstate EXCEPT ![current] = mine], r)
        /\ UNCHANGED <<conf, replyTo, signals, waiters, cnode>>
    BY <1>2 DEF QueueSender, Accepted, CanBlock, Ok
  <2>2. mine \in Blocked /\ mine.kind = "BlockedSend" /\ mine.ep = e
    <3>1. dest \in OptSlot
      BY DEF OptSlot
    <3> HIDE DEF dest
    <3> QED
      BY <3>1, BlockedStates, CurrentRuns, ExtraCapType DEF Inv, BlockedSend
  <2> HIDE DEF mine, e
  <2>3. /\ SchedulerExact'
        /\ tstate' \in [TCB -> ThreadState] /\ ctx' \in [TCB -> Frame] /\ frame' \in Frame
        /\ ready' \in Seq(TCB) /\ current' \in TCB /\ active' \in VSPACE \cup {None}
        /\ tstate'[current] = mine
        /\ \A t \in TCB \ {current} :
              \/ tstate'[t] = tstate[t]
              \/ tstate[t].kind = "Ready" /\ tstate'[t].kind = "Running"
    BY <2>1, <2>2, BlockStep
  <2>4. /\ EndpointQueuesExact'
        /\ endpoint' \in [ENDPOINT -> [side : {"Empty", "Send", "Recv"}, q : Seq(TCB)]]
    <3>1. endpoint[e].side \in {"Empty", "Send"} /\ e \in ENDPOINT
      BY <2>1 DEF Inv, TypeOK, e
    <3>2. current \in TCB /\ tstate[current].kind \notin Ends
      BY CurrentRuns DEF Ends
    <3>3. \A u \in TCB \ {current} : \/ tstate'[u] = tstate[u]
                                     \/ tstate[u].kind \notin Ends /\ tstate'[u].kind \notin Ends
      BY <2>3 DEF Ends
    <3> QED
      BY <3>1, <3>2, <3>3, <2>1, <2>2, <2>3, EndpointPush DEF Inv
  <2>5. NotificationsExact'
    BY <2>1, <2>2, <2>3, CurrentRuns, NotificationsKept DEF Inv, NobodyMoves
  <2>6. ReplyLinksExact'
    BY <2>1, <2>3, CurrentRuns, RepliesKept DEF Inv
  <2>7. TypeOK'
    BY <2>1, <2>3, <2>4 DEF Inv, TypeOK
  <2> QED
    BY <2>3, <2>4, <2>5, <2>6, <2>7 DEF Inv
<1> QED
  BY <1>1, <1>2

\* A Call to a waiting receiver preserves the invariant (ipc::call).
LEMMA CallReceiverStep ==
    ASSUME Inv, current # None, NEW r \in Frame, NEW m \in Nat, NEW cap,
           cap.id \in ENDPOINT, cap.badge \in Word, CallReceiver(cap, m, r)
    PROVE  Inv'
<1> DEFINE e == cap.id
<1> DEFINE t == Head(endpoint[e].q)
<1> DEFINE dest == IF r.xc = 2 THEN m ELSE None
<1> DEFINE mine == BlockedReply(dest)
<1> DEFINE saved == [ctx EXCEPT ![t] = Delivered(r, cap.badge)]
<1> DEFINE checks == <<PlaceError(t, RecvDest(t), ExtraCap(m, r))>>
<1>1. CASE Refused(checks, r)
  <2>1. checks \in Seq(Answer)
    BY ErrorTypes
  <2> QED
    BY <1>1, <2>1, RefusedStep
<1>2. CASE ~Refused(checks, r)
  <2>1. /\ endpoint[e].side = "Recv" /\ PlaceError(t, RecvDest(t), ExtraCap(m, r)) = Ok
        /\ cnode' = Place(t, RecvDest(t), ExtraCap(m, r))
        /\ endpoint' = [endpoint EXCEPT ![e] = Waiting("Recv", Tail(@.q))]
        /\ replyTo' = [replyTo EXCEPT ![t] = current]
        /\ SwitchTo(t, [tstate EXCEPT ![current] = mine], saved, r)
        /\ UNCHANGED <<conf, ready, signals, waiters>>
    BY <1>2 DEF CallReceiver, Accepted
  <2>2. t \in TCB /\ tstate[t].kind = "BlockedRecv"
    BY <2>1, HeadBlocked DEF Inv
  <2>3. mine \in Blocked /\ mine \in ThreadState /\ mine.kind = "BlockedReply" /\ mine # Ready
    <3>1. dest \in OptSlot
      BY DEF OptSlot
    <3> HIDE DEF dest
    <3> QED
      BY <3>1, BlockedStates DEF BlockedReply, Blocked, Ready
  <2>4. saved \in [TCB -> Frame]
    BY DeliveredType DEF Inv, TypeOK
  <2>5. t = Head(endpoint[e].q) /\ e \in ENDPOINT
    OBVIOUS
  <2>6. cnode' \in [CNODE -> CNodeTable]
    BY <2>1, <2>2, CurrentRuns, ExtraCapType, PlaceType DEF Inv
  <2> HIDE DEF t, e, mine, saved
  <2>7. /\ SchedulerExact'
        /\ tstate' \in [TCB -> ThreadState] /\ ctx' \in [TCB -> Frame] /\ frame' \in Frame
        /\ ready' \in Seq(TCB) /\ current' \in TCB /\ active' \in VSPACE \cup {None}
        /\ t # current /\ tstate'[current] = mine /\ tstate'[t] = Running
        /\ \A u \in TCB \ {current, t} : tstate'[u] = tstate[u]
    BY <2>1, <2>2, <2>3, <2>4, CurrentRuns, SwitchExact DEF Inv
  <2>8. /\ tstate'[t].kind = "Running" /\ tstate'[current].kind = "BlockedReply"
        /\ tstate[current].kind = "Running" /\ current \in TCB
    BY <2>3, <2>7, CurrentRuns DEF Running
  <2>9. /\ EndpointQueuesExact'
        /\ endpoint' \in [ENDPOINT -> [side : {"Empty", "Send", "Recv"}, q : Seq(TCB)]]
    <3>1. tstate'[t].kind \notin Ends
      BY <2>8 DEF Ends
    <3>2. \A u \in TCB \ {t} : \/ tstate'[u] = tstate[u]
                               \/ tstate[u].kind \notin Ends /\ tstate'[u].kind \notin Ends
      BY <2>7, <2>8 DEF Ends
    <3> QED
      BY <3>1, <3>2, <2>1, <2>5, EndpointPop DEF Inv
  <2>10. NotificationsExact'
    BY <2>1, <2>2, <2>7, <2>8, NotificationsKept DEF Inv, NobodyMoves
  <2>11. ReplyLinksExact' /\ replyTo' \in [TCB -> TCB \cup {None}]
    BY <2>1, <2>2, <2>7, <2>8, LinkMade DEF Inv
  <2>12. TypeOK'
    BY <2>1, <2>6, <2>7, <2>9, <2>11 DEF Inv, TypeOK
  <2> QED
    BY <2>7, <2>9, <2>10, <2>11, <2>12 DEF Inv
<1> QED
  BY <1>1, <1>2

\* Taking a queued message preserves the invariant (ipc::recv).
LEMMA TakeMessageStep ==
    ASSUME Inv, current # None, NEW r \in Frame, NEW m, NEW e \in ENDPOINT,
           TakeMessage(e, m, r)
    PROVE  Inv'
<1> DEFINE s == Head(endpoint[e].q)
<1> DEFINE cap == tstate[s].extra_cap
<1> DEFINE checks == <<TakeError(s, RecvSlot(m, r))>>
<1>1. CASE Refused(checks, r)
  <2>1. checks \in Seq(Answer)
    BY ErrorTypes DEF TakeError, Answer, SyscallError
  <2> QED
    BY <1>1, <2>1, RefusedStep
<1>2. CASE ~Refused(checks, r)
  <2>1. /\ endpoint[e].side = "Send" /\ TakeError(s, RecvSlot(m, r)) = Ok
        /\ cnode' = Place(current, RecvSlot(m, r), cap)
        /\ endpoint' = [endpoint EXCEPT ![e] = Waiting("Send", Tail(@.q))]
        /\ frame' = Success([ctx[s] EXCEPT !.mr0 = Badge(tstate[s].badge),
                                           !.mr1 = IF cap # None THEN "zero" ELSE @])
        /\ ReleaseSender(s)
        /\ UNCHANGED <<conf, ctx, current, active, signals, waiters>>
    BY <1>2 DEF TakeMessage, Accepted
  <2>2. s \in TCB /\ tstate[s].kind = "BlockedSend" /\ s = Head(endpoint[e].q)
    BY <2>1, HeadBlocked DEF Inv
  <2>3. /\ tstate[s].badge \in Word /\ cap \in Capability \cup {None}
        /\ tstate[s].is_call \in BOOLEAN /\ tstate[s].reply_dest \in OptSlot
    BY <2>2, BlockedFields DEF Inv, TypeOK
  <2>4. PlaceError(current, RecvSlot(m, r), cap) = Ok
    BY <2>1, <2>2 DEF TakeError
  <2> HIDE DEF s, cap
  <2>5. cnode' \in [CNODE -> CNodeTable]
    BY <2>1, <2>3, <2>4, CurrentRuns, PlaceType DEF Inv
  <2>6. frame' \in Frame
    <3>1. ctx[s] \in Frame
      BY <2>2 DEF Inv, TypeOK
    <3>2. [ctx[s] EXCEPT !.mr0 = Badge(tstate[s].badge),
                         !.mr1 = IF cap # None THEN "zero" ELSE @] \in Frame
      BY <3>1, <2>3 DEF Frame
    <3> QED
      BY <3>2, <2>1, SuccessType
  <2>7. /\ SchedulerExact' /\ tstate' \in [TCB -> ThreadState] /\ ready' \in Seq(TCB)
        /\ ReplyLinksExact' /\ replyTo' \in [TCB -> TCB \cup {None}]
        /\ tstate'[s].kind \in {"Ready", "BlockedReply"}
        /\ \A u \in TCB \ {s} : tstate'[u] = tstate[u]
    <3>1. CASE ~tstate[s].is_call
      <4>1. tstate' = MarkReady(tstate, s) /\ ready' = Enqueue(tstate, ready, s)
            /\ replyTo' = replyTo
        BY <3>1, <2>1 DEF ReleaseSender
      <4>2. /\ SchedulerExact'
            /\ tstate' \in [TCB -> ThreadState] /\ ready' \in Seq(TCB)
            /\ tstate'[s] = Ready /\ \A u \in TCB \ {s} : tstate'[u] = tstate[u]
        <5>1. TypeOK /\ SchedulerExact
          BY DEF Inv
        <5>2. tstate[s] # Running /\ current' = current
          BY <2>1, <2>2 DEF Running
        <5> QED
          BY <5>1, <5>2, <4>1, <2>2, WakeExact
      <4>3. ReplyLinksExact'
        BY <4>1, <4>2, <2>2, RepliesKept DEF Inv
      <4>4. replyTo' \in [TCB -> TCB \cup {None}]
        BY <4>1 DEF Inv, TypeOK
      <4> QED
        BY <4>2, <4>3, <4>4 DEF Ready
    <3>2. CASE tstate[s].is_call
      <4>1. /\ tstate' = [tstate EXCEPT ![s] = BlockedReply(tstate[s].reply_dest)]
            /\ ready' = ready /\ replyTo' = [replyTo EXCEPT ![current] = s]
        BY <3>2, <2>1 DEF ReleaseSender
      <4>2. /\ BlockedReply(tstate[s].reply_dest) \in ThreadState
            /\ BlockedReply(tstate[s].reply_dest).kind = "BlockedReply"
        BY <2>3, BlockedStates DEF Blocked, BlockedReply
      <4>3. /\ tstate' \in [TCB -> ThreadState] /\ tstate'[s].kind = "BlockedReply"
            /\ \A u \in TCB \ {s} : tstate'[u] = tstate[u]
        BY <4>1, <4>2, <2>2 DEF Inv, TypeOK
      <4>4. ReadyThreads' = ReadyThreads
        BY <4>3, <2>2 DEF ReadyThreads, Ready
      <4>5. SchedulerExact'
        <5>1. \A u \in TCB : tstate'[u] = Running <=> u = current'
          BY <4>3, <2>1, <2>2 DEF Inv, SchedulerExact, Running
        <5>2. current' # None
          BY <2>1
        <5>3. Lists(ready', ReadyThreads')
          BY <4>1, <4>4 DEF Inv, SchedulerExact
        <5> QED
          BY <5>1, <5>2, <5>3 DEF SchedulerExact
      <4>6. ReplyLinksExact' /\ replyTo' \in [TCB -> TCB \cup {None}]
        BY <4>1, <4>3, <2>2, CurrentRuns, LinkMade DEF Inv
      <4> QED
        BY <4>1, <4>3, <4>5, <4>6 DEF Inv, TypeOK
    <3> QED
      BY <3>1, <3>2
  <2>8. /\ EndpointQueuesExact'
        /\ endpoint' \in [ENDPOINT -> [side : {"Empty", "Send", "Recv"}, q : Seq(TCB)]]
    <3>1. tstate'[s].kind \notin Ends
      BY <2>7 DEF Ends
    <3> QED
      BY <3>1, <2>1, <2>2, <2>7, EndpointPop DEF Inv
  <2>9. NotificationsExact'
    BY <2>1, <2>2, <2>7, NotificationsKept DEF Inv, NobodyMoves
  <2>10. TypeOK'
    BY <2>1, <2>5, <2>6, <2>7, <2>8 DEF Inv, TypeOK
  <2> QED
    BY <2>7, <2>8, <2>9, <2>10 DEF Inv
<1> QED
  BY <1>1, <1>2

\* Queueing a receiver preserves the invariant (ipc::recv).
LEMMA QueueReceiverStep ==
    ASSUME Inv, current # None, NEW r \in Frame, NEW m \in Nat, NEW e \in ENDPOINT,
           QueueReceiver(e, m, r)
    PROVE  Inv'
<1> DEFINE checks == <<CanBlock, RoomIn(endpoint[e].q)>>
<1> DEFINE mine == BlockedRecv(e, RecvSlot(m, r))
<1>1. CASE Refused(checks, r)
  <2>1. checks \in Seq(Answer)
    BY ErrorTypes
  <2> QED
    BY <1>1, <2>1, RefusedStep
<1>2. CASE ~Refused(checks, r)
  <2>1. /\ endpoint[e].side # "Send" /\ ready # <<>>
        /\ endpoint' = [endpoint EXCEPT ![e] = Waiting("Recv", PushBack(@.q, current))]
        /\ BlockCurrent(ready, [tstate EXCEPT ![current] = mine], r)
        /\ UNCHANGED <<conf, replyTo, signals, waiters, cnode>>
    BY <1>2 DEF QueueReceiver, Accepted, CanBlock, Ok
  <2>2. mine \in Blocked /\ mine.kind = "BlockedRecv" /\ mine.ep = e
    BY BlockedStates DEF BlockedRecv, RecvSlot, OptSlot
  <2> HIDE DEF mine
  <2>3. /\ SchedulerExact'
        /\ tstate' \in [TCB -> ThreadState] /\ ctx' \in [TCB -> Frame] /\ frame' \in Frame
        /\ ready' \in Seq(TCB) /\ current' \in TCB /\ active' \in VSPACE \cup {None}
        /\ tstate'[current] = mine
        /\ \A t \in TCB \ {current} :
              \/ tstate'[t] = tstate[t]
              \/ tstate[t].kind = "Ready" /\ tstate'[t].kind = "Running"
    BY <2>1, <2>2, BlockStep
  <2>4. /\ EndpointQueuesExact'
        /\ endpoint' \in [ENDPOINT -> [side : {"Empty", "Send", "Recv"}, q : Seq(TCB)]]
    <3>1. endpoint[e].side \in {"Empty", "Recv"}
      BY <2>1 DEF Inv, TypeOK
    <3>2. current \in TCB /\ tstate[current].kind \notin Ends
      BY CurrentRuns DEF Ends
    <3>3. \A u \in TCB \ {current} : \/ tstate'[u] = tstate[u]
                                     \/ tstate[u].kind \notin Ends /\ tstate'[u].kind \notin Ends
      BY <2>3 DEF Ends
    <3> QED
      BY <3>1, <3>2, <3>3, <2>1, <2>2, <2>3, EndpointPush DEF Inv
  <2>5. NotificationsExact'
    BY <2>1, <2>2, <2>3, CurrentRuns, NotificationsKept DEF Inv, NobodyMoves
  <2>6. ReplyLinksExact'
    BY <2>1, <2>3, CurrentRuns, RepliesKept DEF Inv
  <2>7. TypeOK'
    BY <2>1, <2>3, <2>4 DEF Inv, TypeOK
  <2> QED
    BY <2>3, <2>4, <2>5, <2>6, <2>7 DEF Inv
<1> QED
  BY <1>1, <1>2

\* Answering the caller preserves the invariant (ipc::reply).
LEMMA AnswerCallerStep ==
    ASSUME Inv, current # None, NEW r \in Frame, NEW m, replyTo[current] # None,
           AnswerCaller(replyTo[current], m, r)
    PROVE  Inv'
<1> DEFINE t == replyTo[current]
<1> DEFINE saved == [ctx EXCEPT ![t] = Delivered(r, {})]
<1> DEFINE checks == <<PlaceError(t, ReplyDest(t), ExtraCap(m, r))>>
<1>1. CASE Refused(checks, r)
  <2>1. checks \in Seq(Answer)
    BY ErrorTypes
  <2> QED
    BY <1>1, <2>1, RefusedStep
<1>2. CASE ~Refused(checks, r)
  <2>1. /\ PlaceError(t, ReplyDest(t), ExtraCap(m, r)) = Ok
        /\ cnode' = Place(t, ReplyDest(t), ExtraCap(m, r))
        /\ replyTo' = [replyTo EXCEPT ![current] = None]
        /\ ready' = Enqueue(tstate, ready, current)
        /\ SwitchTo(t, MarkReady(tstate, current), saved, r)
        /\ UNCHANGED <<conf, ipcVars>>
    BY <1>2 DEF AnswerCaller, Accepted
  <2>2. t \in TCB /\ tstate[t].kind = "BlockedReply"
    BY CurrentRuns DEF Inv, TypeOK, ReplyLinksExact
  <2>3. saved \in [TCB -> Frame]
    BY DeliveredType DEF Inv, TypeOK, Word
  <2>4. cnode' \in [CNODE -> CNodeTable]
    BY <2>1, <2>2, CurrentRuns, ExtraCapType, PlaceType DEF Inv
  <2>5. t = replyTo[current]
    OBVIOUS
  <2> HIDE DEF t, saved
  <2>6. ready' = PushBack(ready, current)
    BY <2>1, CurrentRuns DEF Enqueue, Ready, Running
  <2>7. /\ SchedulerExact'
        /\ tstate' \in [TCB -> ThreadState] /\ ctx' \in [TCB -> Frame] /\ frame' \in Frame
        /\ ready' \in Seq(TCB) /\ current' \in TCB /\ active' \in VSPACE \cup {None}
        /\ t # current /\ tstate'[current] = Ready /\ tstate'[t] = Running
        /\ \A u \in TCB \ {current, t} : tstate'[u] = tstate[u]
    <3>1. SwitchTo(t, [tstate EXCEPT ![current] = Ready], saved, r)
      BY <2>1 DEF MarkReady
    <3> QED
      BY <3>1, <2>2, <2>3, <2>6, CurrentRuns, BlockedStates, SwitchExact DEF Inv
  <2>8. /\ tstate'[t].kind = "Running" /\ tstate'[current].kind = "Ready"
        /\ tstate[current].kind = "Running" /\ current \in TCB
    BY <2>7, CurrentRuns DEF Running, Ready
  <2>9. EndpointQueuesExact'
    <3>1. NobodyMoves(Ends)
      BY <2>2, <2>7, <2>8 DEF NobodyMoves, Ends
    <3> QED
      BY <3>1, <2>1, EndpointsKept DEF Inv, ipcVars
  <2>10. NotificationsExact'
    BY <2>1, <2>2, <2>7, <2>8, NotificationsKept DEF Inv, NobodyMoves, ipcVars
  <2>11. ReplyLinksExact' /\ replyTo' \in [TCB -> TCB \cup {None}]
    BY <2>1, <2>2, <2>5, <2>7, <2>8, LinkSpent DEF Inv
  <2>12. TypeOK'
    BY <2>1, <2>4, <2>7, <2>11 DEF Inv, TypeOK, ipcVars
  <2> QED
    BY <2>7, <2>9, <2>10, <2>11, <2>12 DEF Inv
<1> QED
  BY <1>1, <1>2

\* What an accepted lookup of an endpoint or notification gives the handler.
LEMMA LookedUp ==
    ASSUME Inv, current # None, NEW c, NEW right
    PROVE  /\ InvokeError(current, c, "Endpoint", right) = Ok =>
                 CapAt(current, c).id \in ENDPOINT /\ CapAt(current, c).badge \in Word
           /\ InvokeError(current, c, "Notification", right) = Ok =>
                 CapAt(current, c).id \in NTFN /\ CapAt(current, c).badge \in Word
  BY CurrentRuns, CapAtType, CapabilityFields, LookupAccepted DEF Inv

\* The checks of Send, NBSend and Call each answer Ok or an error.
LEMMA SendChecksType ==
    ASSUME NEW c, NEW m, NEW r, NEW most
    PROVE  /\ SendChecks(c, m, r, most) \in Seq(Answer)
           /\ Accepted(SendChecks(c, m, r, most)) =>
                 InvokeError(current, c, "Endpoint", "WRITE") = Ok
  BY ErrorTypes, InvokeErrorType DEF SendChecks, Accepted

\* Send, NBSend, Call and Recv preserve the invariant.
LEMMA EndpointStep ==
    ASSUME Inv, current # None, NEW r \in Frame, NEW m \in Nat, NEW c,
           EndpointSyscall(c, m, r)
    PROVE  Inv'
<1>1. ASSUME NEW most, Refused(SendChecks(c, m, r, most), r)
      PROVE  Inv'
  BY <1>1, SendChecksType, RefusedStep
<1>2. ASSUME NEW most, Accepted(SendChecks(c, m, r, most))
      PROVE  /\ SendToReceiver(CapAt(current, c), m, r) => Inv'
             /\ CallReceiver(CapAt(current, c), m, r) => Inv'
             /\ \A isCall \in BOOLEAN : QueueSender(CapAt(current, c), m, r, isCall) => Inv'
  BY <1>2, SendChecksType, LookedUp, SendToReceiverStep, CallReceiverStep, QueueSenderStep
<1>3. CASE Send(c, m, r)
  BY <1>1, <1>2, <1>3 DEF Send
<1>4. CASE NBSend(c, m, r)
  <2>1. CASE frame' = Success(r) /\ UNCHANGED <<threadVars, ready, current, active, ipcVars, cnode>>
    BY <2>1, SuccessType, QuietStep DEF Inv, TypeOK
  <2> QED
    BY <1>1, <1>2, <1>4, <2>1 DEF NBSend
<1>5. CASE Call(c, m, r)
  BY <1>1, <1>2, <1>5 DEF Call
<1>6. CASE Recv(c, m, r)
  <2>1. /\ RecvChecks(c, r) \in Seq(Answer)
        /\ Accepted(RecvChecks(c, r)) => InvokeError(current, c, "Endpoint", "READ") = Ok
    BY ErrorTypes, InvokeErrorType DEF RecvChecks, Accepted
  <2>2. CASE Refused(RecvChecks(c, r), r)
    BY <2>1, <2>2, RefusedStep
  <2>3. CASE Accepted(RecvChecks(c, r))
    <3>1. CapAt(current, c).id \in ENDPOINT
      BY <2>1, <2>3, LookedUp
    <3>2. TakeMessage(CapAt(current, c).id, m, r) \/ QueueReceiver(CapAt(current, c).id, m, r)
      BY <1>6, <2>3 DEF Recv, Refused
    <3> QED
      BY <3>1, <3>2, TakeMessageStep, QueueReceiverStep
  <2> QED
    BY <1>6, <2>2, <2>3 DEF Recv
<1> QED
  BY <1>3, <1>4, <1>5, <1>6 DEF EndpointSyscall

\* Reply preserves the invariant.
LEMMA ReplyStep ==
    ASSUME Inv, current # None, NEW r \in Frame, NEW m, Reply(m, r)
    PROVE  Inv'
<1>1. /\ ReplyChecks(m, r) \in Seq(Answer)
      /\ Accepted(ReplyChecks(m, r)) => replyTo[current] # None
  BY ErrorTypes DEF ReplyChecks, Accepted, Answer, SyscallError, Ok
<1>2. CASE Refused(ReplyChecks(m, r), r)
  BY <1>1, <1>2, RefusedStep
<1>3. CASE Accepted(ReplyChecks(m, r)) /\ AnswerCaller(replyTo[current], m, r)
  BY <1>1, <1>3, AnswerCallerStep
<1> QED
  BY <1>2, <1>3 DEF Reply

(***************************************************************************)
(* Notifications                                                           *)
(***************************************************************************)
LEMMA WakeWaiterStep ==
    ASSUME Inv, current # None, NEW n \in NTFN, NEW badge \in Word, WakeWaiter(n, badge),
           frame' \in Frame, UNCHANGED <<conf, replyTo, current, active, endpoint, cnode>>
    PROVE  Inv'
<1> DEFINE t == Head(waiters[n])
<1>1. /\ waiters[n] # <<>>
      /\ waiters' = [waiters EXCEPT ![n] = Tail(@)]
      /\ signals' = [signals EXCEPT ![n] = {}]
      /\ ctx' = [ctx EXCEPT ![t].mr0 = Badge(signals[n] \cup badge)]
      /\ tstate' = MarkReady(tstate, t) /\ ready' = Enqueue(tstate, ready, t)
  BY DEF WakeWaiter
<1>2. t \in TCB /\ tstate[t].kind = "BlockedWait" /\ t = Head(waiters[n])
  <2>1. waiters[n] \in Seq(TCB) /\ Lists(waiters[n], Sleepers(n))
    BY DEF Inv, TypeOK, NotificationsExact
  <2>2. t \in TCB /\ t \in Sleepers(n)
    BY <1>1, <2>1, TailLists
  <2> QED
    BY <2>2 DEF Sleepers
<1> HIDE DEF t
<1>3. /\ SchedulerExact'
      /\ tstate' \in [TCB -> ThreadState] /\ ready' \in Seq(TCB)
      /\ tstate'[t] = Ready /\ \A u \in TCB \ {t} : tstate'[u] = tstate[u]
  BY <1>1, <1>2, WakeExact DEF Inv, Running
<1>4. tstate'[t].kind = "Ready"
  BY <1>3 DEF Ready
<1>5. EndpointQueuesExact'
  <2>1. NobodyMoves(Ends)
    BY <1>2, <1>3, <1>4 DEF NobodyMoves, Ends
  <2> QED
    BY <2>1, EndpointsKept DEF Inv
<1>6. NotificationsExact' /\ waiters' \in [NTFN -> Seq(TCB)] /\ signals' \in [NTFN -> Word]
  BY <1>1, <1>2, <1>3, <1>4, WaiterPop DEF Inv
<1>7. ReplyLinksExact'
  BY <1>2, <1>3, RepliesKept DEF Inv
<1>8. ctx' \in [TCB -> Frame]
  <2>1. ctx[t] \in Frame /\ signals[n] \cup badge \in Word
    BY <1>2 DEF Inv, TypeOK, Word
  <2>2. [ctx[t] EXCEPT !.mr0 = Badge(signals[n] \cup badge)] \in Frame
    BY <2>1, BadgedType
  <2> QED
    BY <1>1, <1>2, <2>2 DEF Inv, TypeOK
<1>9. TypeOK'
  BY <1>3, <1>6, <1>8 DEF Inv, TypeOK
<1> QED
  BY <1>3, <1>5, <1>6, <1>7, <1>9 DEF Inv

\* Bits come and go in a notification nobody waits for.
LEMMA PendingStep ==
    ASSUME Inv, NEW n \in NTFN, NEW word \in Word, waiters[n] = <<>> \/ word = {},
           signals' = [signals EXCEPT ![n] = word], frame' \in Frame,
           UNCHANGED <<threadVars, ready, current, active, endpoint, waiters, cnode>>
    PROVE  Inv'
<1>1. TypeOK'
  BY DEF Inv, TypeOK, threadVars
<1>2. SchedulerExact'
  BY DEF Inv, SchedulerExact, ReadyThreads, Lists, threadVars
<1>3. EndpointQueuesExact'
  BY EndpointsKept DEF Inv, NobodyMoves, threadVars
<1>4. NotificationsExact'
  <2>1. \A m \in NTFN : Sleepers(m)' = Sleepers(m)
    BY DEF Sleepers, threadVars
  <2>2. \A m \in NTFN : signals'[m] = IF m = n THEN word ELSE signals[m]
    BY DEF Inv, TypeOK
  <2> QED
    BY <2>1, <2>2 DEF Inv, NotificationsExact
<1>5. ReplyLinksExact'
  BY RepliesKept DEF Inv, threadVars
<1> QED
  BY <1>1, <1>2, <1>3, <1>4, <1>5 DEF Inv

\* Queueing a waiter preserves the invariant (ipc::wait).
LEMMA QueueWaiterStep ==
    ASSUME Inv, current # None, NEW r \in Frame, NEW n \in NTFN, QueueWaiter(n, r)
    PROVE  Inv'
<1> DEFINE checks == <<CanBlock, RoomIn(waiters[n])>>
<1> DEFINE mine == BlockedWait(n)
<1>1. CASE Refused(checks, r)
  <2>1. checks \in Seq(Answer)
    BY ErrorTypes
  <2> QED
    BY <1>1, <2>1, RefusedStep
<1>2. CASE ~Refused(checks, r)
  <2>1. /\ signals[n] = {} /\ ready # <<>>
        /\ waiters' = [waiters EXCEPT ![n] = PushBack(@, current)]
        /\ BlockCurrent(ready, [tstate EXCEPT ![current] = mine], r)
        /\ UNCHANGED <<conf, replyTo, endpoint, signals, cnode>>
    BY <1>2 DEF QueueWaiter, Accepted, CanBlock, Ok
  <2>2. mine \in Blocked /\ mine.kind = "BlockedWait" /\ mine = BlockedWait(n)
    BY BlockedStates DEF BlockedWait
  <2> HIDE DEF mine
  <2>3. /\ SchedulerExact'
        /\ tstate' \in [TCB -> ThreadState] /\ ctx' \in [TCB -> Frame] /\ frame' \in Frame
        /\ ready' \in Seq(TCB) /\ current' \in TCB /\ active' \in VSPACE \cup {None}
        /\ tstate'[current] = mine
        /\ \A t \in TCB \ {current} :
              \/ tstate'[t] = tstate[t]
              \/ tstate[t].kind = "Ready" /\ tstate'[t].kind = "Running"
    BY <2>1, <2>2, BlockStep
  <2>4. EndpointQueuesExact'
    <3>1. NobodyMoves(Ends)
      BY <2>2, <2>3, CurrentRuns DEF NobodyMoves, Ends
    <3> QED
      BY <3>1, <2>1, EndpointsKept DEF Inv
  <2>5. NotificationsExact' /\ waiters' \in [NTFN -> Seq(TCB)]
    <3>1. \A u \in TCB \ {current} : \/ tstate'[u] = tstate[u]
                                     \/ /\ tstate[u].kind # "BlockedWait"
                                        /\ tstate'[u].kind # "BlockedWait"
      BY <2>3
    <3>2. current \in TCB /\ tstate[current].kind # "BlockedWait"
      BY CurrentRuns
    <3> QED
      BY <3>1, <3>2, <2>1, <2>2, <2>3, WaiterPush DEF Inv
  <2>6. ReplyLinksExact'
    BY <2>1, <2>3, CurrentRuns, RepliesKept DEF Inv
  <2>7. TypeOK'
    BY <2>1, <2>3, <2>5 DEF Inv, TypeOK
  <2> QED
    BY <2>3, <2>4, <2>5, <2>6, <2>7 DEF Inv
<1> QED
  BY <1>1, <1>2

\* Signal, Wait and Poll preserve the invariant.
LEMMA NotificationStep ==
    ASSUME Inv, current # None, NEW r \in Frame, NEW c, NotificationSyscall(c, r)
    PROVE  Inv'
<1> DEFINE cap == CapAt(current, c)
<1>1. CASE Signal(c, r)
  <2> DEFINE checks == <<InvokeError(current, c, "Notification", "WRITE")>>
  <2>1. checks \in Seq(Answer)
    BY InvokeErrorType
  <2>2. CASE Refused(checks, r)
    BY <2>1, <2>2, RefusedStep
  <2>3. CASE /\ Accepted(checks)
             /\ WakeWaiter(cap.id, cap.badge) \/ Accumulate(cap.id, cap.badge)
             /\ frame' = Success(r)
             /\ UNCHANGED <<conf, replyTo, current, active, endpoint, cnode>>
    <3>1. cap.id \in NTFN /\ cap.badge \in Word /\ frame' \in Frame
      BY <2>3, LookedUp, SuccessType DEF Accepted
    <3>2. CASE WakeWaiter(cap.id, cap.badge)
      BY <3>1, <3>2, <2>3, WakeWaiterStep
    <3>3. CASE Accumulate(cap.id, cap.badge)
      <4>1. signals[cap.id] \cup cap.badge \in Word
        BY <3>1 DEF Inv, TypeOK, Word
      <4> QED
        BY <3>1, <3>3, <4>1, <2>3, PendingStep DEF Accumulate, threadVars
    <3> QED
      BY <2>3, <3>2, <3>3
  <2> QED
    BY <1>1, <2>2, <2>3 DEF Signal
<1>2. WaitChecks(c) \in Seq(Answer)
      /\ (Accepted(WaitChecks(c)) => cap.id \in NTFN)
  BY InvokeErrorType, LookedUp DEF WaitChecks, Accepted
<1>3. ASSUME Refused(WaitChecks(c), r)
      PROVE  Inv'
  BY <1>2, <1>3, RefusedStep
<1>4. ASSUME Accepted(WaitChecks(c)), ConsumeSignals(cap.id, r)
      PROVE  Inv'
  <2>1. frame' \in Frame
    <3>1. signals[cap.id] \in Word
      BY <1>2, <1>4 DEF Inv, TypeOK
    <3> QED
      BY <3>1, <1>4, BadgedType, SuccessType DEF ConsumeSignals
  <2> QED
    BY <2>1, <1>2, <1>4, PendingStep DEF ConsumeSignals, Word
<1>5. CASE Wait(c, r)
  BY <1>2, <1>3, <1>4, <1>5, QueueWaiterStep DEF Wait
<1>6. CASE Poll(c, r)
  BY <1>3, <1>4, <1>6 DEF Poll
<1> QED
  BY <1>1, <1>5, <1>6 DEF NotificationSyscall

(***************************************************************************)
(* CNodes                                                                  *)
(***************************************************************************)
LEMMA SlotType ==
    ASSUME TypeOK, NEW k, NEW s
    PROVE  SlotAt(k, s) \in Capability
  BY DEF TypeOK, CNodeTable, SlotAt, Capability

\* Putting a capability into a slot keeps the tables typed.
LEMMA SlotSet ==
    ASSUME TypeOK, NEW k \in CNODE, NEW s \in Slot, NEW cap \in Capability
    PROVE  [cnode EXCEPT ![k][s] = cap] \in [CNODE -> CNodeTable]
<1>1. [cnode[k] EXCEPT ![s] = cap] \in CNodeTable
  BY DEF TypeOK, CNodeTable
<1> QED
  BY <1>1 DEF TypeOK

\* A slot number that passes a check is in range, and a source slot is not empty.
LEMMA SlotErrors ==
    ASSUME NEW k, NEW s
    PROVE  /\ SourceError(k, s) \in Answer /\ FreeError(k, s) \in Answer
           /\ SourceError(k, s) = Ok => s \in Slot /\ SlotAt(k, s) # Null
           /\ FreeError(k, s) = Ok => s \in Slot
  BY DEF SourceError, FreeError, Answer, SyscallError, Ok

\* A CNode operation that leaves typed tables preserves the invariant.
LEMMA UpdateStep ==
    ASSUME Inv, NEW r \in Frame, NEW checks \in Seq(Answer), NEW slots,
           Accepted(checks) => slots \in [CNODE -> CNodeTable], Update(checks, slots, r)
    PROVE  Inv'
  BY RefusedStep, SuccessType, QuietStep DEF Update

\* A CPtr that names a CNode names one of the CNodes.
LEMMA NamedTable ==
    ASSUME Inv, current # None, NEW c, TypeError(current, c, "CNode") = Ok
    PROVE  CapAt(current, c).id \in CNODE
  BY CurrentRuns, CapAtType, CapabilityFields, LookupAccepted DEF Inv

\* Mint preserves the invariant.
LEMMA MintStep ==
    ASSUME Inv, current # None, NEW r \in Frame, NEW c, NEW src, NEW dest,
           NEW rights \in SUBSET Right, NEW badge \in Word, Mint(c, src, dest, rights, badge, r)
    PROVE  Inv'
<1> DEFINE k == CapAt(current, c).id
<1> DEFINE source == SlotAt(k, src)
<1> DEFINE checks == <<TypeError(current, c, "CNode"), SourceError(k, src),
                       IF rights \subseteq source.rights THEN Ok ELSE "IllegalOperation",
                       IF Mintable(source) THEN Ok ELSE "IllegalOperation",
                       FreeError(k, dest)>>
<1> DEFINE slots == [cnode EXCEPT ![k][dest] = Attenuate(source, rights, badge)]
<1>1. checks \in Seq(Answer)
  BY InvokeErrorType, SlotErrors DEF Answer, SyscallError, Ok
<1>2. ASSUME Accepted(checks)
      PROVE  slots \in [CNODE -> CNodeTable]
  <2>1. TypeError(current, c, "CNode") = Ok /\ Mintable(source) /\ FreeError(k, dest) = Ok
    <3>1. ASSUME NEW a1, NEW a2, NEW a3, NEW a4, NEW a5, Accepted(<<a1, a2, a3, a4, a5>>)
          PROVE  a1 = Ok /\ a4 = Ok /\ a5 = Ok
      BY <3>1 DEF Accepted
    <3>2. /\ TypeError(current, c, "CNode") = Ok /\ FreeError(k, dest) = Ok
          /\ (IF Mintable(source) THEN Ok ELSE "IllegalOperation") = Ok
      BY <1>2, <3>1
    <3> QED
      BY <3>2 DEF Ok
  <2>2. k \in CNODE /\ dest \in Slot /\ source \in Capability
    BY <2>1, NamedTable, SlotErrors, SlotType DEF Inv
  <2>3. Attenuate(source, rights, badge) \in Capability
    BY <2>1, <2>2, AttenuateType
  <2> QED
    BY <2>2, <2>3, SlotSet DEF Inv
<1>3. Update(checks, slots, r)
  BY DEF Mint
<1> QED
  BY <1>1, <1>2, <1>3, UpdateStep

\* Copy preserves the invariant.
LEMMA CopyStep ==
    ASSUME Inv, current # None, NEW r \in Frame, NEW c, NEW src, NEW dest, Copy(c, src, dest, r)
    PROVE  Inv'
<1> DEFINE k == CapAt(current, c).id
<1> DEFINE checks == <<TypeError(current, c, "CNode"), SourceError(k, src), FreeError(k, dest)>>
<1> DEFINE slots == [cnode EXCEPT ![k][dest] = SlotAt(k, src)]
<1>1. checks \in Seq(Answer)
  BY InvokeErrorType, SlotErrors
<1>2. Accepted(checks) => slots \in [CNODE -> CNodeTable]
  BY NamedTable, SlotErrors, SlotType, SlotSet DEF Inv, Accepted
<1>3. Update(checks, slots, r)
  BY DEF Copy
<1> QED
  BY <1>1, <1>2, <1>3, UpdateStep

\* Move preserves the invariant.
LEMMA MoveStep ==
    ASSUME Inv, current # None, NEW r \in Frame, NEW c, NEW src, NEW dest, Move(c, src, dest, r)
    PROVE  Inv'
<1> DEFINE k == CapAt(current, c).id
<1> DEFINE checks == <<TypeError(current, c, "CNode"), SourceError(k, src), FreeError(k, dest)>>
<1> DEFINE slots == [cnode EXCEPT ![k][dest] = SlotAt(k, src), ![k][src] = Null]
<1>1. checks \in Seq(Answer)
  BY InvokeErrorType, SlotErrors
<1>2. ASSUME Accepted(checks)
      PROVE  slots \in [CNODE -> CNodeTable]
  <2>1. k \in CNODE /\ dest \in Slot /\ src \in Slot
    BY <1>2, NamedTable, SlotErrors DEF Accepted
  <2>2. [cnode[k] EXCEPT ![dest] = SlotAt(k, src), ![src] = Null] \in CNodeTable
    BY <2>1, SlotType DEF Inv, TypeOK, CNodeTable, Capability
  <2>3. slots = [cnode EXCEPT ![k] = [cnode[k] EXCEPT ![dest] = SlotAt(k, src), ![src] = Null]]
    BY <2>1 DEF Inv, TypeOK
  <2> QED
    BY <2>1, <2>2, <2>3 DEF Inv, TypeOK
<1>3. Update(checks, slots, r)
  BY DEF Move
<1> QED
  BY <1>1, <1>2, <1>3, UpdateStep

\* Delete preserves the invariant.
LEMMA DeleteStep ==
    ASSUME Inv, current # None, NEW r \in Frame, NEW c, NEW src, Delete(c, src, r)
    PROVE  Inv'
<1> DEFINE k == CapAt(current, c).id
<1> DEFINE checks == <<TypeError(current, c, "CNode"), SourceError(k, src)>>
<1> DEFINE slots == [cnode EXCEPT ![k][src] = Null]
<1>1. checks \in Seq(Answer)
  BY InvokeErrorType, SlotErrors
<1>2. Accepted(checks) => slots \in [CNODE -> CNodeTable]
  BY NamedTable, SlotErrors, SlotSet DEF Inv, Accepted, Capability
<1>3. Update(checks, slots, r)
  BY DEF Delete
<1> QED
  BY <1>1, <1>2, <1>3, UpdateStep

\* CopyCross preserves the invariant.
LEMMA CopyCrossStep ==
    ASSUME Inv, current # None, NEW r \in Frame, NEW c, NEW from, NEW src, NEW dest,
           CopyCross(c, from, src, dest, r)
    PROVE  Inv'
<1> DEFINE k == CapAt(current, c).id
<1> DEFINE j == CapAt(current, from).id
<1> DEFINE checks == <<TypeError(current, c, "CNode"), TypeError(current, from, "CNode"),
                       SourceError(j, src), FreeError(k, dest)>>
<1> DEFINE slots == [cnode EXCEPT ![k][dest] = SlotAt(j, src)]
<1>1. checks \in Seq(Answer)
  BY InvokeErrorType, SlotErrors
<1>2. Accepted(checks) => slots \in [CNODE -> CNodeTable]
  BY NamedTable, SlotErrors, SlotType, SlotSet DEF Inv, Accepted
<1>3. Update(checks, slots, r)
  BY DEF CopyCross
<1> QED
  BY <1>1, <1>2, <1>3, UpdateStep

\* Every CNode operation preserves the invariant (cnode::invoke).
LEMMA CNodeStep ==
    ASSUME Inv, current # None, NEW r \in Frame, NEW c, CNodeSyscall(c, r)
    PROVE  Inv'
<1>1. ASSUME Revoke(c, r) \/ OtherLabel(c, r)
      PROVE  Inv'
  <2>1. /\ <<TypeError(current, c, "CNode"), "IllegalOperation">> \in Seq(Answer)
        /\ <<TypeError(current, c, "CNode"), "InvalidArgument">> \in Seq(Answer)
    BY InvokeErrorType DEF Answer, SyscallError
  <2> QED
    BY <1>1, <2>1, RefusedStep DEF Revoke, OtherLabel
<1>2. ASSUME NEW src \in Args, NEW dest \in Args, NEW mint \in Mints,
             Mint(c, src, dest, mint[1], mint[2], r)
      PROVE  Inv'
  BY <1>2, MintStep, ProgramsAssumption
<1> QED
  BY <1>1, <1>2, CopyStep, MoveStep, DeleteStep, CopyCrossStep DEF CNodeSyscall

(***************************************************************************)
(* Configuration, scheduling and boot                                      *)
(***************************************************************************)
LEMMA ConfigureStep ==
    ASSUME Inv, current # None, NEW r \in Frame, NEW c, NEW cs, NEW sc, NEW vs,
           TCBConfigure(c, cs, sc, vs, r)
    PROVE  Inv'
<1> DEFINE checks == ConfigureChecks(c, cs, sc, vs)
<1> DEFINE target == CapAt(current, c).id
<1> DEFINE config == [cspace |-> CapAt(current, cs).id, sched |-> CapAt(current, sc).id,
                      vspace |-> IF vs = 0 THEN None ELSE CapAt(current, vs).id]
<1>1. checks \in Seq(Answer)
  BY InvokeErrorType DEF ConfigureChecks, Answer
<1>2. CASE Refused(checks, r)
  BY <1>1, <1>2, RefusedStep
<1>3. CASE ~Refused(checks, r)
  <2>1. /\ Accepted(checks) /\ conf' = [conf EXCEPT ![target] = config]
        /\ \/ /\ tstate[target] = Inactive
              /\ tstate' = MarkReady(tstate, target)
              /\ ready' = Enqueue(tstate, ready, target)
           \/ tstate' = tstate /\ ready' = ready
        /\ frame' = Success(r)
        /\ UNCHANGED <<ctx, replyTo, current, active, ipcVars, cnode>>
    BY <1>3 DEF TCBConfigure
  <2>2. target \in TCB /\ config \in Config
    <3>1. /\ InvokeError(current, c, "Tcb", "WRITE") = Ok
          /\ TypeError(current, cs, "CNode") = Ok /\ TypeError(current, sc, "SchedContext") = Ok
          /\ vs = 0 \/ InvokeError(current, vs, "VSpace", "WRITE") = Ok
      BY <2>1 DEF Accepted, ConfigureChecks
    <3>2. /\ target \in TCB /\ CapAt(current, cs).id \in CNODE
          /\ CapAt(current, sc).id \in SCHED
          /\ vs = 0 \/ CapAt(current, vs).id \in VSPACE
      BY <3>1, CurrentRuns, CapAtType, CapabilityFields, LookupAccepted DEF Inv
    <3> QED
      BY <3>2 DEF Config
  <2> HIDE DEF target, config, checks
  <2>3. conf' \in [TCB -> Config] /\ frame' \in Frame
    BY <2>1, <2>2, SuccessType DEF Inv, TypeOK
  <2>4. CASE tstate' = tstate /\ ready' = ready
    <3>1. TypeOK'
      BY <2>1, <2>3, <2>4 DEF Inv, TypeOK, ipcVars
    <3>2. SchedulerExact'
      BY <2>1, <2>4 DEF Inv, SchedulerExact, ReadyThreads, Lists
    <3>3. EndpointQueuesExact'
      BY <2>1, <2>4, EndpointsKept DEF Inv, NobodyMoves, ipcVars
    <3>4. NotificationsExact'
      BY <2>1, <2>4, NotificationsKept DEF Inv, NobodyMoves, ipcVars
    <3>5. ReplyLinksExact'
      BY <2>1, <2>4, RepliesKept DEF Inv
    <3> QED
      BY <3>1, <3>2, <3>3, <3>4, <3>5 DEF Inv
  <2>5. CASE /\ tstate[target] = Inactive
             /\ tstate' = MarkReady(tstate, target)
             /\ ready' = Enqueue(tstate, ready, target)
    <3>1. /\ SchedulerExact'
          /\ tstate' \in [TCB -> ThreadState] /\ ready' \in Seq(TCB)
          /\ tstate'[target] = Ready /\ \A u \in TCB \ {target} : tstate'[u] = tstate[u]
      BY <2>1, <2>2, <2>5, WakeExact DEF Inv, Inactive, Running
    <3>2. tstate[target].kind = "Inactive" /\ tstate'[target].kind = "Ready"
      BY <2>5, <3>1 DEF Inactive, Ready
    <3>3. EndpointQueuesExact'
      <4>1. NobodyMoves(Ends)
        BY <3>1, <3>2 DEF NobodyMoves, Ends
      <4> QED
        BY <4>1, <2>1, EndpointsKept DEF Inv, ipcVars
    <3>4. NotificationsExact'
      BY <2>1, <3>1, <3>2, NotificationsKept DEF Inv, NobodyMoves, ipcVars
    <3>5. ReplyLinksExact'
      BY <2>1, <3>1, <3>2, RepliesKept DEF Inv
    <3>6. TypeOK'
      BY <2>1, <2>3, <3>1 DEF Inv, TypeOK, ipcVars
    <3> QED
      BY <3>1, <3>3, <3>4, <3>5, <3>6 DEF Inv
  <2> QED
    BY <2>1, <2>4, <2>5
<1> QED
  BY <1>2, <1>3

\* The thread that yields goes to the back of the queue; it is alone there when
\* nobody else is ready, and then keeps the hart.
LEMMA YieldStep ==
    ASSUME Inv, current # None, NEW r \in Frame, Yield(r)
    PROVE  Inv'
<1> DEFINE queue == PushBack(ready, current)
<1> DEFINE next == Head(queue)
<1> DEFINE contexts == [ctx EXCEPT ![current] = r]
<1>1. /\ ready' = Tail(queue)
      /\ Handover(next, MarkReady(tstate, current), contexts)
      /\ frame' = Success(contexts[next])
      /\ UNCHANGED <<conf, replyTo, ipcVars, cnode>>
  BY CurrentRuns DEF Yield, Enqueue, Ready, Running
<1>2. contexts \in [TCB -> Frame]
  BY DEF Inv, TypeOK
<1>3. /\ queue \in Seq(TCB) /\ queue # <<>> /\ Lists(queue, ReadyThreads \cup {current})
  <2>1. ready \in Seq(TCB) /\ Lists(ready, ReadyThreads) /\ current \in TCB
    BY CurrentRuns DEF Inv, TypeOK, SchedulerExact
  <2>2. current \notin ReadyThreads
    BY CurrentRuns DEF ReadyThreads, Ready, Running
  <2> QED
    BY <2>1, <2>2, PushLists
<1> HIDE DEF contexts, queue
<1>4. /\ next \in TCB /\ next \in ReadyThreads \cup {current}
      /\ Tail(queue) \in Seq(TCB)
      /\ Lists(Tail(queue), (ReadyThreads \cup {current}) \ {next})
  <2> DEFINE S == ReadyThreads \cup {current}
  <2>1. Lists(queue, S)
    BY <1>3
  <2> HIDE DEF S
  <2>2. /\ next \in TCB /\ next \in S /\ Tail(queue) \in Seq(TCB)
        /\ Lists(Tail(queue), S \ {next})
    BY <1>3, <2>1, TailLists
  <2> QED
    BY <2>2 DEF S
<1> HIDE DEF next
<1>5. frame' \in Frame
  BY <1>1, <1>2, <1>4, SuccessType
<1>6. /\ SchedulerExact'
      /\ tstate' \in [TCB -> ThreadState] /\ ctx' \in [TCB -> Frame]
      /\ ready' \in Seq(TCB) /\ current' \in TCB /\ active' \in VSPACE \cup {None}
      /\ \A t \in TCB : \/ tstate'[t] = tstate[t]
                        \/ /\ tstate[t] \in {Ready, Running}
                           /\ tstate'[t] \in {Ready, Running}
  <2>1. CASE next = current
    <3>1. tstate' = [tstate EXCEPT ![current] = Running]
      BY <1>1, <2>1, CurrentRuns DEF Handover, MarkReady, Inv, TypeOK
    <3>2. tstate' = tstate
      BY <3>1, CurrentRuns DEF Inv, TypeOK
    <3>3. /\ ctx' \in [TCB -> Frame] /\ current' = current
          /\ active' \in VSPACE \cup {None} /\ current' \in TCB
      BY <1>1, <1>2, <2>1, CurrentRuns DEF Handover, Inv, TypeOK, Config
    <3>4. (ReadyThreads \cup {current}) \ {next} = ReadyThreads
      BY <2>1, CurrentRuns DEF ReadyThreads, Ready, Running
    <3>5. Lists(ready', ReadyThreads) /\ ready' \in Seq(TCB)
      BY <1>1, <1>4, <3>4
    <3>6. SchedulerExact'
      BY <3>2, <3>3, <3>5 DEF Inv, SchedulerExact, ReadyThreads
    <3> QED
      BY <3>2, <3>3, <3>5, <3>6 DEF Inv, TypeOK
  <2>2. CASE next # current
    <3>1. Handover(next, [tstate EXCEPT ![current] = Ready], contexts)
      BY <1>1 DEF MarkReady
    <3>2. (ReadyThreads \cup {current}) \ {next}
             = {t \in TCB \ {next} : IF t = current THEN Ready = Ready ELSE tstate[t] = Ready}
      BY <2>2, CurrentRuns DEF ReadyThreads
    <3>3. /\ SchedulerExact'
          /\ tstate' \in [TCB -> ThreadState] /\ ctx' \in [TCB -> Frame]
          /\ ready' \in Seq(TCB) /\ current' \in TCB /\ active' \in VSPACE \cup {None}
          /\ tstate'[current] = Ready /\ tstate'[next] = Running
          /\ \A t \in TCB \ {current, next} : tstate'[t] = tstate[t]
      <4>1. Ready \in ThreadState /\ Ready # Running
        BY BlockedStates DEF Ready, Running
      <4> QED
        BY <4>1, <1>1, <1>2, <1>4, <2>2, <3>1, <3>2, CurrentRuns, HandoverExact DEF Inv
    <3>4. tstate[next] = Ready
      BY <1>4, <2>2 DEF ReadyThreads
    <3> QED
      BY <3>3, <3>4, CurrentRuns
  <2> QED
    BY <2>1, <2>2
<1>7. \A t \in TCB : \/ tstate'[t] = tstate[t]
                     \/ /\ tstate[t].kind \in {"Ready", "Running"}
                        /\ tstate'[t].kind \in {"Ready", "Running"}
  BY <1>6 DEF Ready, Running
<1>8. EndpointQueuesExact'
  <2>1. NobodyMoves(Ends)
    BY <1>7 DEF NobodyMoves, Ends
  <2> QED
    BY <2>1, <1>1, EndpointsKept DEF Inv, ipcVars
<1>9. NotificationsExact'
  <2>1. NobodyMoves({"BlockedWait"})
    BY <1>7 DEF NobodyMoves
  <2> QED
    BY <2>1, <1>1, NotificationsKept DEF Inv, ipcVars
<1>10. ReplyLinksExact'
  <2>1. \A t \in TCB : tstate[t].kind = "BlockedReply" => tstate'[t].kind = "BlockedReply"
    BY <1>7
  <2> QED
    BY <2>1, <1>1, RepliesKept DEF Inv
<1>11. TypeOK'
  BY <1>1, <1>5, <1>6 DEF Inv, TypeOK, ipcVars
<1> QED
  BY <1>6, <1>8, <1>9, <1>10, <1>11 DEF Inv

\* Every boot step preserves the invariant (lib.rs enter_first_thread, admin::configure).
LEMMA BootStep ==
    ASSUME Inv, Boot
    PROVE  Inv'
<1>1. PICK t \in BootThreads : BootConfigure(t) \/ BootMakeReady(t) \/ EnterFirstThread(t)
  BY DEF Boot
<1>2. t \in TCB /\ current = None /\ tstate[t] \in {Inactive, Ready}
      /\ \A u \in TCB : tstate[u].kind \in {"Inactive", "Ready"}
  BY <1>1, ProgramsAssumption
     DEF BootConfigure, BootMakeReady, EnterFirstThread, Inv, SchedulerExact, Inactive, Ready
<1>3. CASE BootConfigure(t) \/ BootMakeReady(t)
  <2>1. /\ \/ tstate' = MarkReady(tstate, t) /\ ready' = Enqueue(tstate, ready, t)
           \/ tstate' = tstate /\ ready' = ready
        /\ conf' = conf \/ conf' = [conf EXCEPT ![t] = Home[t]]
        /\ UNCHANGED <<ctx, replyTo, hartVars, ipcVars, cnode>>
    BY <1>3 DEF BootConfigure, BootMakeReady
  <2>2. /\ SchedulerExact' /\ tstate' \in [TCB -> ThreadState] /\ ready' \in Seq(TCB)
        /\ \A u \in TCB : \/ tstate'[u] = tstate[u]
                          \/ tstate'[u] = Ready
    <3>1. CASE tstate' = MarkReady(tstate, t) /\ ready' = Enqueue(tstate, ready, t)
      <4>1. tstate[t] # Running
        BY <1>2 DEF Inactive, Ready, Running
      <4> QED
        BY <3>1, <4>1, <2>1, <1>2, WakeExact DEF Inv, hartVars
    <3>2. CASE tstate' = tstate /\ ready' = ready
      <4>1. SchedulerExact'
        BY <3>2, <2>1 DEF Inv, SchedulerExact, ReadyThreads, Lists, hartVars
      <4> QED
        BY <4>1, <3>2 DEF Inv, TypeOK
    <3> QED
      BY <2>1, <3>1, <3>2
  <2>3. \A u \in TCB : /\ tstate[u].kind \in {"Inactive", "Ready"}
                       /\ tstate'[u].kind \in {"Inactive", "Ready"}
    BY <1>2, <2>2 DEF Ready
  <2>4. EndpointQueuesExact'
    <3>1. NobodyMoves(Ends)
      BY <2>3 DEF NobodyMoves, Ends
    <3> QED
      BY <3>1, <2>1, EndpointsKept DEF Inv, ipcVars
  <2>5. NotificationsExact'
    <3>1. NobodyMoves({"BlockedWait"})
      BY <2>3 DEF NobodyMoves
    <3> QED
      BY <3>1, <2>1, NotificationsKept DEF Inv, ipcVars
  <2>6. ReplyLinksExact'
    BY <2>1, <2>3, RepliesKept DEF Inv
  <2>7. TypeOK'
    <3>1. conf' \in [TCB -> Config]
      BY <2>1, ProgramsAssumption DEF Inv, TypeOK
    <3> QED
      BY <3>1, <2>1, <2>2 DEF Inv, TypeOK, ipcVars, hartVars
  <2> QED
    BY <2>2, <2>4, <2>5, <2>6, <2>7 DEF Inv
<1>4. CASE EnterFirstThread(t)
  <2>1. /\ ready' = Remove(ready, t) /\ current' = t
        /\ tstate' = [tstate EXCEPT ![t] = Running] /\ frame' = ctx[t]
        /\ active' = IF conf[t].vspace = None THEN active ELSE conf[t].vspace
        /\ UNCHANGED <<conf, ctx, replyTo, ipcVars, cnode>>
    BY <1>4 DEF EnterFirstThread
  <2>2. /\ tstate' \in [TCB -> ThreadState] /\ tstate'[t] = Running
        /\ \A u \in TCB \ {t} : tstate'[u] = tstate[u]
    BY <2>1, <1>2, BlockedStates DEF Inv, TypeOK
  <2>3. ready' \in Seq(TCB) /\ Lists(ready', ReadyThreads \ {t})
    BY <2>1, RemoveLists DEF Inv, TypeOK, SchedulerExact
  <2>4. ReadyThreads' = ReadyThreads \ {t}
    BY <2>2 DEF ReadyThreads, Ready, Running
  <2>5. \A u \in TCB : tstate'[u] = Running <=> u = current'
    BY <1>2, <2>1, <2>2 DEF Inv, SchedulerExact, Running
  <2>6. SchedulerExact'
    BY <1>2, <2>1, <2>3, <2>4, <2>5, NoneAssumption DEF SchedulerExact
  <2>7. \A u \in TCB : /\ tstate[u].kind \in {"Inactive", "Ready"}
                       /\ tstate'[u].kind \in {"Inactive", "Ready", "Running"}
    BY <1>2, <2>2 DEF Running
  <2>8. EndpointQueuesExact'
    <3>1. NobodyMoves(Ends)
      BY <2>7 DEF NobodyMoves, Ends
    <3> QED
      BY <3>1, <2>1, EndpointsKept DEF Inv, ipcVars
  <2>9. NotificationsExact'
    <3>1. NobodyMoves({"BlockedWait"})
      BY <2>7 DEF NobodyMoves
    <3> QED
      BY <3>1, <2>1, NotificationsKept DEF Inv, ipcVars
  <2>10. ReplyLinksExact'
    BY <2>1, <2>7, RepliesKept DEF Inv
  <2>11. TypeOK'
    BY <1>2, <2>1, <2>2, <2>3 DEF Inv, TypeOK, ipcVars, Config
  <2> QED
    BY <2>6, <2>8, <2>9, <2>10, <2>11 DEF Inv
<1> QED
  BY <1>1, <1>3, <1>4

(***************************************************************************)
(* The theorems                                                            *)
(***************************************************************************)
LEMMA InitInv == Init => Inv
<1> SUFFICES ASSUME Init
             PROVE  Inv
  OBVIOUS
<1>1. TypeOK
  <2>1. {Inactive, Ready, Running} \subseteq ThreadState /\ {} \in Word
    BY BlockedStates DEF Word
  <2>2. \A t \in TCB \cup {None} : Zeroed(t) \in Frame
    BY DEF Zeroed, Frame
  <2>3. /\ tstate \in [TCB -> ThreadState] /\ ctx \in [TCB -> Frame] /\ frame \in Frame
        /\ conf \in [TCB -> Config] /\ replyTo \in [TCB -> TCB \cup {None}]
        /\ signals \in [NTFN -> Word]
    BY <2>1, <2>2 DEF Init, Config
  <2>4. /\ ready \in Seq(TCB) /\ waiters \in [NTFN -> Seq(TCB)]
        /\ endpoint \in [ENDPOINT -> [side : {"Empty", "Send", "Recv"}, q : Seq(TCB)]]
    BY EmptySeq DEF Init, EmptyQueue
  <2> QED
    BY <2>3, <2>4, ProgramsAssumption DEF Init, TypeOK
<1>2. \A t \in TCB : tstate[t] = Inactive /\ tstate[t].kind = "Inactive"
  BY DEF Init, Inactive
<1>3. \A S : S = {} => Lists(<<>>, S)
  BY DEF Lists
<1>4. SchedulerExact
  <2>1. ReadyThreads = {}
    BY <1>2 DEF ReadyThreads, Inactive, Ready
  <2> QED
    BY <1>2, <1>3, <2>1, NoneAssumption DEF Init, SchedulerExact, Inactive, Running
<1>5. EndpointQueuesExact
  <2>1. \A e \in ENDPOINT : Senders(e) = {} /\ Receivers(e) = {}
    BY <1>2 DEF Senders, Receivers
  <2> QED
    BY <1>3, <2>1 DEF Init, EndpointQueuesExact, EmptyQueue
<1>6. NotificationsExact
  <2>1. \A n \in NTFN : Sleepers(n) = {}
    BY <1>2 DEF Sleepers
  <2> QED
    BY <1>3, <2>1 DEF Init, NotificationsExact
<1>7. ReplyLinksExact
  BY DEF Init, ReplyLinksExact
<1> QED
  BY <1>1, <1>4, <1>5, <1>6, <1>7 DEF Inv

\* Every step preserves the invariant.
LEMMA NextInv == Inv /\ [Next]_vars => Inv'
<1> SUFFICES ASSUME Inv, [Next]_vars
             PROVE  Inv'
  OBVIOUS
<1>1. CASE Boot
  BY <1>1, BootStep
<1>2. CASE Trap
  <2>1. PICK xc \in ExtraCaps, err \in Flags : Dispatch(Request(current, xc, err))
    BY <1>2 DEF Trap
  <2> DEFINE r == Request(current, xc, err)
  <2>2. current # None /\ r \in Frame
    BY <1>2, CurrentRuns, RequestType, ProgramsAssumption DEF Trap
  <2>3. SlotWords(r) \subseteq Nat
    BY ProgramsAssumption DEF SlotWords
  <2> HIDE DEF r
  <2>4. ASSUME NEW c \in CPtrs, NEW m \in SlotWords(r), EndpointSyscall(c, m, r)
        PROVE  Inv'
    BY <2>2, <2>3, <2>4, EndpointStep
  <2>5. ASSUME NEW m \in SlotWords(r), Reply(m, r)
        PROVE  Inv'
    BY <2>2, <2>5, ReplyStep
  <2>6. ASSUME NEW c \in CPtrs, NotificationSyscall(c, r) \/ CNodeSyscall(c, r)
        PROVE  Inv'
    BY <2>2, <2>6, NotificationStep, CNodeStep
  <2>7. ASSUME NEW w \in Configures, TCBConfigure(w[1], w[2], w[3], w[4], r)
        PROVE  Inv'
    BY <2>2, <2>7, ConfigureStep
  <2>8. CASE Yield(r)
    BY <2>2, <2>8, YieldStep
  <2>9. CASE UnknownSyscall(r)
    <3>1. <<"IllegalOperation">> \in Seq(Answer)
      BY DEF Answer, SyscallError
    <3> QED
      BY <3>1, <2>2, <2>9, RefusedStep DEF UnknownSyscall
  <2>10. Dispatch(r)
    BY <2>1 DEF r
  <2> QED
    BY <2>4, <2>5, <2>6, <2>7, <2>8, <2>9, <2>10 DEF Dispatch
<1>3. CASE UNCHANGED vars
  <2>1. UNCHANGED <<threadVars, ready, current, active, ipcVars>> /\ cnode' = cnode
        /\ frame' = frame
    BY <1>3 DEF vars, threadVars, ipcVars
  <2> QED
    BY <2>1, QuietStep DEF Inv, TypeOK
<1> QED
  BY <1>1, <1>2, <1>3 DEF Next

\* The inductive invariant holds in every reachable state.
THEOREM Invariance == Spec => []Inv
  BY InitInv, NextInv, PTL DEF Spec

\* Every variable keeps its type, whatever syscalls the threads make.
THEOREM TypeCorrect == Spec => []TypeOK
<1>1. Inv => TypeOK
  BY DEF Inv
<1> QED
  BY <1>1, Invariance, PTL

\* The ready queue holds exactly the Ready threads, each once, and only the
\* current thread is Running.
THEOREM SchedulerCorrect == Spec => []SchedulerExact
<1>1. Inv => SchedulerExact
  BY DEF Inv
<1> QED
  BY <1>1, Invariance, PTL

\* An endpoint queues exactly the threads blocked on it, on one side only.
THEOREM EndpointsCorrect == Spec => []EndpointQueuesExact
<1>1. Inv => EndpointQueuesExact
  BY DEF Inv
<1> QED
  BY <1>1, Invariance, PTL

\* A notification queues exactly its waiters and holds no signal meanwhile.
THEOREM NotificationsCorrect == Spec => []NotificationsExact
<1>1. Inv => NotificationsExact
  BY DEF Inv
<1> QED
  BY <1>1, Invariance, PTL

\* A reply link names a thread that waits for a reply, and no other link does.
THEOREM RepliesCorrect == Spec => []ReplyLinksExact
<1>1. Inv => ReplyLinksExact
  BY DEF Inv
<1> QED
  BY <1>1, Invariance, PTL
=============================================================================
