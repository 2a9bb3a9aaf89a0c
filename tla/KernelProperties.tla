-------------------------- MODULE KernelProperties --------------------------
(***************************************************************************)
(* What the kernel promises: invariants, action properties and liveness of *)
(* the specification in Kernel, and the claims of its comments that the    *)
(* code does not keep.                                                     *)
(***************************************************************************)
EXTENDS Kernel

CONSTANT Domain   \* the protection domain of each CNode

\* A CNode capability gives access to a CNode of the same domain.
ASSUME DomainAssumption ==
    \A k \in CNODE, s \in Slot :
        InitSlots[k][s].type = "CNode" => Domain[InitSlots[k][s].id] = Domain[k]

\* q lists the members of S, each exactly once.
Lists(q, S) ==
    /\ \A i \in DOMAIN q : q[i] \in S
    /\ \A t \in S : \E i \in DOMAIN q : q[i] = t
    /\ \A i, j \in DOMAIN q : q[i] = q[j] => i = j

ReadyThreads == {t \in TCB : tstate[t] = Ready}
Senders(e)   == {t \in TCB : tstate[t].kind = "BlockedSend" /\ tstate[t].ep = e}
Receivers(e) == {t \in TCB : tstate[t].kind = "BlockedRecv" /\ tstate[t].ep = e}
Sleepers(n)  == {t \in TCB : tstate[t].kind = "BlockedWait" /\ tstate[t].ntfn = n}

(***************************************************************************)
(* Invariants                                                              *)
(***************************************************************************)

\* A thread is Ready exactly when it is in the ready queue, once, and the only
\* Running thread is current: no stale or duplicate entry can later resume a
\* thread that is blocked (state.rs make_ready, lib.rs enter_first_thread).
\* Nobody is blocked when boot enters the first thread.
SchedulerExact ==
    /\ Lists(ready, ReadyThreads)
    /\ \A t \in TCB : tstate[t] = Running <=> t = current
    /\ current = None => \A t \in TCB : tstate[t] \in {Inactive, Ready}

\* An endpoint queues exactly the threads blocked on it, senders or receivers
\* but never both, and is Empty exactly when nobody waits (what the expect on
\* front() in ipc::send, recv and call relies on).
EndpointQueuesExact ==
    \A e \in ENDPOINT :
        /\ Lists(endpoint[e].q, Senders(e) \cup Receivers(e))
        /\ endpoint[e].side = "Empty" <=> endpoint[e].q = <<>>
        /\ endpoint[e].side # "Recv" => Receivers(e) = {}
        /\ endpoint[e].side # "Send" => Senders(e) = {}

\* A notification queues exactly its waiting threads, and never holds a signal
\* while someone waits for one: no wakeup is lost (ipc::signal, ipc::wait).
NotificationsExact ==
    \A n \in NTFN :
        /\ Lists(waiters[n], Sleepers(n))
        /\ waiters[n] # <<>> => signals[n] = {}

\* A reply link always names a thread that is blocked waiting for a reply, and
\* no two threads owe the same caller: a Reply never resumes a thread that is
\* doing something else (ipc::call, recv, reply).
ReplyLinksExact ==
    /\ \A s \in TCB : replyTo[s] # None => tstate[replyTo[s]].kind = "BlockedReply"
    /\ \A s, t \in TCB : replyTo[s] = replyTo[t] /\ replyTo[s] # None => s = t

\* Every capability, in a slot or on its way with a blocked sender, confers no
\* more than one the system started with, in the same protection domain or with
\* GRANT: authority crosses domains only over IPC and only when granted, however
\* it was minted, copied, moved or sent (cnode.rs, ipc.rs resolve_transferable_cap).
Origin(cap, k) ==
    \E j \in CNODE, s \in Slot :
        /\ DerivedFrom(cap, InitSlots[j][s])
        /\ Domain[j] = Domain[k] \/ "GRANT" \in InitSlots[j][s].rights

AuthorityConfined ==
    /\ \A k \in CNODE, s \in Slot : cnode[k][s] = Null \/ Origin(cnode[k][s], k)
    /\ \A t \in TCB :
          tstate[t].kind = "BlockedSend" /\ tstate[t].extra_cap # None =>
             /\ "GRANT" \in tstate[t].extra_cap.rights
             /\ \A k \in CNODE : Origin(tstate[t].extra_cap, k)

(***************************************************************************)
(* Action properties                                                       *)
(***************************************************************************)

\* The registers thread t has, or will resume with, after the step.
Registers(t) == IF t = current THEN frame ELSE ctx[t]

\* The thread that traps holds a capability to the object with this badge.
Holds(type, id, right, badge) ==
    \E c \in Slot :
        LET cap == CapAt(current, c)
        IN  cap.type = type /\ cap.id = id /\ right \in cap.rights /\ cap.badge = badge

\* The step puts a capability into t's empty slot dest, one that may be granted.
Landed(t, dest) ==
    \E s \in Slot : /\ s = dest /\ CapAt(t, s) = Null
                    /\ CapAt(t, s)' # Null /\ "GRANT" \in CapAt(t, s)'.rights

\* A thread blocked in Recv leaves that state only with the message of a thread
\* that holds WRITE on the endpoint, under the badge of the capability it used;
\* the extra_caps count it sees is 1 exactly when a capability was put into the
\* empty slot it had registered (ipc::send, call and deliver_payload).
ReceiverWakes(t) ==
    /\ tstate'[t] \in {Ready, Running}
    /\ t = Head(endpoint[tstate[t].ep].q)
    /\ Registers(t)'.from = current
    /\ \E b \in Word : /\ Registers(t)'.mr0 = Badge(b)
                       /\ Holds("Endpoint", tstate[t].ep, "WRITE", b)
    /\ IF Registers(t)'.xc = 1 THEN Landed(t, tstate[t].dest) ELSE cnode' = cnode

\* A blocked sender is released only when the running thread takes its message
\* whole: its badge, its payload, the capability it attached. A sender becomes
\* Ready; a caller goes on to wait for the Reply the taker now owes (ipc::recv).
SenderReleased(t) ==
    /\ t = Head(endpoint[tstate[t].ep].q)
    /\ current' = current
    /\ frame'.mr0 = Badge(tstate[t].badge) /\ frame'.from = t /\ ~frame'.err
    /\ IF tstate[t].is_call
       THEN /\ tstate'[t] = BlockedReply(tstate[t].reply_dest)
            /\ replyTo'[current] = t
       ELSE tstate'[t] = Ready /\ replyTo' = replyTo
    /\ IF frame'.xc = 1
       THEN \E s \in Slot : Landed(current, s) /\ CapAt(current, s)' = tstate[t].extra_cap
       ELSE cnode' = cnode

\* A caller waiting for a Reply resumes only by the Reply of the thread that
\* owes it one, which spends the link and stays Ready; a capability comes with
\* the answer only into the slot the caller registered (ipc::reply).
CallerAnswered(t) ==
    /\ replyTo[current] = t /\ replyTo'[current] = None
    /\ current' = t /\ tstate'[current] = Ready
    /\ frame'.from = current /\ frame'.mr0 = Badge({})
    /\ IF frame'.xc = 1 THEN Landed(t, tstate[t].dest) ELSE cnode' = cnode

\* A thread waiting on a notification resumes only with the bits that were
\* pending and the badge of the signaller's capability (ipc::signal).
SleeperWakes(t) ==
    LET n == tstate[t].ntfn
    IN  /\ tstate'[t] = Ready /\ t = Head(waiters[n])
        /\ signals'[n] = {}
        /\ \E b \in Word : /\ ctx'[t].mr0 = Badge(signals[n] \cup b)
                           /\ Holds("Notification", n, "WRITE", b)

PartnersWake ==
    \A t \in TCB : tstate'[t] # tstate[t] =>
        /\ tstate[t].kind = "BlockedRecv"  => ReceiverWakes(t)
        /\ tstate[t].kind = "BlockedSend"  => SenderReleased(t)
        /\ tstate[t].kind = "BlockedReply" => CallerAnswered(t)

\* No blocked thread is ever resumed but by the event it waits for.
WokenByPartner == [][PartnersWake]_vars

SleepersWake ==
    \A t \in TCB : tstate'[t] # tstate[t] /\ tstate[t].kind = "BlockedWait" => SleeperWakes(t)

\* The same for the threads that wait on a notification.
SleepersWoken == [][SleepersWake]_vars

\* The hart translates through the running thread's address space, when that
\* has one of its own.
Translated ==
    current # None /\ conf[current].vspace # None => active = conf[current].vspace

TranslationKept ==
    \/ Translated'
    \/ current' = current /\ (conf'[current] # conf[current] \/ ~Translated)

\* Whenever the hart changes hands it changes translation with it, however it
\* was handed over; the two disagree only from the moment the running thread
\* configures itself anew until it next regains the hart (state.rs
\* activate_if_paged and its callers, admin.rs configure).
TranslationFollows == [][TranslationKept]_vars

\* The running thread takes all the bits pending on n, and no other thread gets any.
Consumed(n) ==
    /\ signals'[n] = {}
    /\ frame'.mr0 = Badge(signals[n]) /\ ~frame'.err
    /\ current' = current /\ ctx' = ctx

\* It adds the bits of a badge it holds, where no thread waits for any.
Raised(n) ==
    /\ waiters[n] = <<>>
    /\ \E b \in Word : /\ Holds("Notification", n, "WRITE", b)
                       /\ signals'[n] = signals[n] \cup b

\* It is answered with bits, by no other thread.
Told(b) ==
    /\ current # None /\ current' = current
    /\ frame'.from = current /\ frame'.mr0 = Badge(b)

BitsMoved ==
    \A n \in NTFN : signals'[n] # signals[n] =>
        /\ Consumed(n) \/ Raised(n)
        /\ \A m \in NTFN \ {n} : signals'[m] = signals[m]

BitsTold ==
    \A b \in Word \ {{}} : Told(b) => \E n \in NTFN : signals[n] = b /\ Consumed(n)

SignalsKept == BitsMoved /\ BitsTold

\* Pending bits are neither lost, made up nor given twice: they leave a notification
\* all at once, into the registers of the thread that waits or polls and nobody
\* else's, come only out of the badge of a signaller, and no thread is told of bits
\* that stay pending. What a waiter is handed never was pending, and is the business
\* of SleepersWoken (ipc::signal, wait, poll).
SignalsConserved == [][SignalsKept]_vars

\* The capability of slot s of k is moved to slot d of j, which was empty.
Moved(k, s, j, d) ==
    cnode[j][d] = Null /\ cnode'[j][d] = cnode[k][s] /\ cnode'[k][s] = Null

SlotsKept ==
    \A k \in CNODE, s \in Slot : cnode'[k][s] # cnode[k][s] =>
        /\ cnode[k][s] = Null \/ cnode'[k][s] = Null
        /\ \A j \in CNODE, d \in Slot :
              cnode'[j][d] # cnode[j][d] /\ <<j, d>> # <<k, s>> =>
                 Moved(k, s, j, d) \/ Moved(j, d, k, s)

\* No operation replaces one capability by another: a transfer, mint, copy or move
\* only fills an empty slot, a step changes one slot alone, or empties one and fills
\* one other with the same capability (ipc.rs place_transferred_cap, cnode.rs).
SlotsNeverReplaced == [][SlotsKept]_vars

LinksKept ==
    \A s \in TCB : replyTo[s] # None /\ replyTo'[s] = None => tstate'[replyTo[s]] = Running

\* A reply link is spent only by resuming the caller, or replaced by the link of
\* a newer Call (ipc::reply consumes it last, recv and call overwrite it).
LinksNotDropped == [][LinksKept]_vars

\* The thread that traps holds a capability of this type and right to this object.
Wields(type, id, right) ==
    \E c \in Slot : LET cap == CapAt(current, c)
                    IN  cap.type = type /\ cap.id = id /\ right \in cap.rights

\* What the step did to a queue or a word, and the right that takes: to send or to
\* signal is to write, to receive, wait or poll is to read.
Longer(new, old) == Len(new) > Len(old)

EndpointRight(e) ==
    LET side == IF Longer(endpoint'[e].q, endpoint[e].q) THEN endpoint'[e].side
                ELSE IF endpoint[e].side = "Send" THEN "Recv" ELSE "Send"
    IN  IF side = "Send" THEN "WRITE" ELSE "READ"

WaitersRight(n) == IF Longer(waiters'[n], waiters[n]) THEN "READ" ELSE "WRITE"
SignalsRight(n) == IF signals'[n] = {} THEN "READ" ELSE "WRITE"

EndpointsReached ==
    \A e \in ENDPOINT : endpoint'[e] # endpoint[e] => Wields("Endpoint", e, EndpointRight(e))

NotificationsReached ==
    \A n \in NTFN :
       /\ waiters'[n] # waiters[n] => Wields("Notification", n, WaitersRight(n))
       /\ signals'[n] # signals[n] => Wields("Notification", n, SignalsRight(n))

ThreadsReached ==
    \A t \in TCB :
       \/ conf'[t] = conf[t] /\ (tstate[t] = Inactive => tstate'[t] = Inactive)
       \/ Wields("Tcb", t, "WRITE")

\* A message brings thread t, which it resumes, a capability into the slot t registered;
\* or it brings the running thread the one that the sender t had attached to it.
GivenTo(t, k, s) ==
    /\ k = conf[t].cspace /\ s \in {RecvDest(t), ReplyDest(t)}
    /\ tstate'[t] # tstate[t]

TakenFrom(t, k, s) ==
    /\ k = conf[current].cspace
    /\ tstate[t].kind = "BlockedSend" /\ tstate'[t] # tstate[t]
    /\ cnode'[k][s] = tstate[t].extra_cap

SlotReached(k, s) ==
    \/ \E c \in Slot : CapAt(current, c).type = "CNode" /\ CapAt(current, c).id = k
    \/ cnode[k][s] = Null /\ \E t \in TCB : GivenTo(t, k, s) \/ TakenFrom(t, k, s)

TablesReached ==
    \A k \in CNODE, s \in Slot : cnode'[k][s] # cnode[k][s] => SlotReached(k, s)

ObjectsReached ==
    EndpointsReached /\ NotificationsReached /\ ThreadsReached /\ TablesReached

\* Once the first thread runs, nothing is done to an object but by a thread that
\* names it with the right to: the queues and words of IPC, the configuration and
\* the admission of threads, and slots, those of the thread's own CSpace included.
\* Only a message fills a slot of a CNode that the thread does not name, an empty
\* one: the slot that the thread it resumes has registered, or one of its own with
\* what the sender it releases had attached (state.rs lookup_cap and its callers,
\* cnode.rs:6-12).
ObjectsNamed == [][current # None => ObjectsReached]_vars

(***************************************************************************)
(* Refinement                                                              *)
(***************************************************************************)
Side(e, side) == IF endpoint[e].side = side THEN endpoint[e].q ELSE <<>>

Promise == INSTANCE Rendezvous WITH
    THREAD    <- TCB,
    offers    <- [e \in ENDPOINT |-> Side(e, "Send")],
    listeners <- [e \in ENDPOINT |-> Side(e, "Recv")],
    calling   <- {t \in TCB : tstate[t].kind = "BlockedSend" /\ tstate[t].is_call},
    awaiting  <- {t \in TCB : tstate[t].kind = "BlockedReply"},
    owes      <- replyTo,
    heard     <- [t \in TCB |-> Registers(t).from]

\* Whatever threads do with the ten syscalls, their messages are a behaviour of
\* Rendezvous: first come first served on each endpoint, one receiver for each
\* message, the message of the sender that was dequeued and no other's, an answer
\* only from the thread that took the call (ipc.rs).
RendezvousKept == Promise!Spec

(***************************************************************************)
(* Claims of the comments and tests that the code does not keep; each is   *)
(* refuted by a run of its own.                                            *)
(***************************************************************************)

\* ipc.rs:314-316: a receiver must never see the slot a caller registered for the
\* reply as ordinary payload.
NoSlotLeak == \A t \in TCB : Registers(t).from # t => Registers(t).mr1 # "slot"

\* object.rs:154-156, ipc.rs:361: a Reply answers the most recent Call the thread has
\* not answered yet; so while some caller waits for an answer, some thread can give one.
CallersOwed ==
    (\E t \in TCB : tstate[t].kind = "BlockedReply") => \E s \in TCB : replyTo[s] # None

\* object.rs:113-116: a Recv need not look the attached capability up again, since
\* the CSpace of a blocked sender cannot have changed; so what it delivers is a
\* capability that the sender still holds.
AttachedHeld ==
    \A t \in TCB :
        /\ tstate[t].kind = "BlockedSend" /\ tstate[t].extra_cap # None
        /\ tstate'[t] # tstate[t]
        => \E s \in Slot : CapAt(t, s) = tstate[t].extra_cap

AttachedStillHeld == [][AttachedHeld]_vars

(***************************************************************************)
(* Liveness                                                                *)
(***************************************************************************)

\* The kernel has no timer: a ready thread depends on the running ones giving up
\* the hart, so the programs are assumed to yield again and again.
Cooperative ==
    /\ Spec
    /\ WF_<<ready, current>>(\E t \in BootThreads : EnterFirstThread(t))
    /\ WF_<<ready, current>>(\E xc \in ExtraCaps, err \in Flags :
                               /\ current # None
                               /\ "Yield" \in Syscalls
                               /\ Yield(Request(current, xc, err)))

\* Round robin: under cooperative programs every ready thread runs, whatever
\* directed handoffs the IPC fast path makes past the queue (scheduler.rs).
NoStarvation == \A t \in TCB : tstate[t] = Ready ~> tstate[t] = Running

\* Programs that serve: whoever can again and again take a queued message, with a
\* slot registered for what comes with it, does so, and empties slots for more, of
\* capabilities it does not receive by.
Serve ==
    /\ current # None /\ current' = current
    /\ "Recv" \in Syscalls
    /\ \E c \in CPtrs, m \in Args, err \in Flags : Recv(c, m, Request(current, 1, err))

Clear ==
    /\ current # None /\ endpoint' = endpoint
    /\ "Delete" \in Syscalls
    /\ \E c \in CPtrs, m \in Args, err \in Flags :
          "READ" \notin CapAt(current, m).rights /\ Delete(c, m, Request(current, 0, err))

Attentive == Cooperative /\ SF_endpoint(Serve) /\ SF_cnode(Clear)

\* A message whose capability cannot be placed stays at the head of its queue, and
\* Recv answers the error to the receiver: no sender is overtaken for that, and none
\* waits for ever while some thread serves the endpoint (ipc.rs:248).
CanReceive(t, e) ==
    \E c \in CPtrs : LET cap == CapAt(t, c)
                     IN  cap.type = "Endpoint" /\ cap.id = e /\ "READ" \in cap.rights

SendersServed ==
    \A e \in ENDPOINT, t \in TCB :
        t \in Senders(e) ~> t \notin Senders(e) \/ \A u \in TCB : ~CanReceive(u, e)
=============================================================================
