---------------------------- MODULE KernelState -----------------------------
(***************************************************************************)
(* The state the kernel keeps between two traps (state.rs, scheduler.rs,   *)
(* the Tcb, Endpoint and Notification of object.rs) and the helpers every  *)
(* syscall is built from.  The kernel runs on one hart, on one stack, to   *)
(* completion: a trap is one step of the specifications built on this      *)
(* module, and what interleaves is whole syscalls of different threads.    *)
(***************************************************************************)
EXTENDS Capabilities, Queues

ASSUME MaxTcbsAssumption ==
    /\ IsFiniteSet(TCB)
    /\ MaxTcbs \in Nat
    /\ Cardinality(TCB) <= MaxTcbs

VARIABLES
    tstate,     \* Tcb::state
    conf,       \* Tcb::cspace, sched_context and address_space
    ctx,        \* Tcb::context, the registers saved when the thread last lost the hart
    replyTo,    \* Tcb::reply_to, the caller this thread owes a Reply
    ready,      \* Scheduler::ready
    current,    \* Scheduler::current
    frame,      \* the hardware trap frame: the registers the hart resumes with
    active,     \* the address space the hart translates through
    endpoint,   \* Endpoint::queue: which side waits, and who, in order
    signals,    \* Notification::signals
    waiters,    \* Notification::waiters
    cnode       \* the slots of every CNode

threadVars == <<tstate, conf, ctx, replyTo>>
hartVars   == <<current, frame, active>>
ipcVars    == <<endpoint, signals, waiters>>
vars       == <<tstate, conf, ctx, replyTo, ready, current, frame, active,
                endpoint, signals, waiters, cnode>>

(***************************************************************************)
(* Registers.  A frame keeps of the message registers and the tag what     *)
(* the kernel itself reads or writes: mr0 (a badge, an error code or a     *)
(* word of the thread's own), what mr1 is (payload, a slot number of the   *)
(* thread that wrote it, or zero), whose payload mr2 and mr3 are, the      *)
(* tag's extra_caps count and its FLAG_ERROR bit.  xc = 3 stands for       *)
(* every tag outside the register-only fast path: length > 0, or           *)
(* extra_caps > 2.                                                         *)
(***************************************************************************)
Own      == <<"own">>
Badge(b) == <<"badge", b>>
Error(e) == <<"error", e>>

Frame == [mr0 : {Own} \cup {Badge(b) : b \in Word} \cup {Error(e) : e \in SyscallError},
          mr1 : {"data", "slot", "zero"},
          from : TCB \cup {None},
          xc : 0 .. 3,
          err : BOOLEAN]

\* The registers thread t traps with; mr1 is a slot number when the tag says so.
Request(t, xc, err) ==
    [mr0 |-> Own, mr1 |-> IF xc = 0 THEN "data" ELSE "slot", from |-> t, xc |-> xc, err |-> err]

Zeroed(t) == [mr0 |-> Own, mr1 |-> "zero", from |-> t, xc |-> 0, err |-> FALSE]

\* abi::reply_success and abi::reply_error
Success(f)    == [f EXCEPT !.err = FALSE]
Failure(f, e) == [f EXCEPT !.mr0 = Error(e), !.err = TRUE]

(***************************************************************************)
(* Thread states                                                           *)
(***************************************************************************)
Inactive == [kind |-> "Inactive"]
Ready    == [kind |-> "Ready"]
Running  == [kind |-> "Running"]

BlockedSend(e, b, isCall, cap, dest) ==
    [kind |-> "BlockedSend", ep |-> e, badge |-> b, is_call |-> isCall,
     extra_cap |-> cap, reply_dest |-> dest]
BlockedRecv(e, dest) == [kind |-> "BlockedRecv", ep |-> e, dest |-> dest]
BlockedReply(dest)   == [kind |-> "BlockedReply", dest |-> dest]
BlockedWait(n)       == [kind |-> "BlockedWait", ntfn |-> n]

OptSlot == Nat \cup {None}   \* Option<CPtr>: any word a thread may put in a register

ThreadState ==
    {Inactive, Ready, Running}
    \cup [kind : {"BlockedSend"}, ep : ENDPOINT, badge : Word, is_call : BOOLEAN,
          extra_cap : Capability \cup {None}, reply_dest : OptSlot]
    \cup [kind : {"BlockedRecv"}, ep : ENDPOINT, dest : OptSlot]
    \cup [kind : {"BlockedReply"}, dest : OptSlot]
    \cup [kind : {"BlockedWait"}, ntfn : NTFN]

Config == [cspace : CNODE \cup {None}, sched : SCHED \cup {None}, vspace : VSPACE \cup {None}]

EmptyQueue == [side |-> "Empty", q |-> <<>>]

TypeOK ==
    /\ tstate \in [TCB -> ThreadState]
    /\ conf \in [TCB -> Config]
    /\ ctx \in [TCB -> Frame]
    /\ replyTo \in [TCB -> TCB \cup {None}]
    /\ ready \in Seq(TCB)
    /\ current \in TCB \cup {None}
    /\ frame \in Frame
    /\ active \in VSPACE \cup {None}
    /\ endpoint \in [ENDPOINT -> [side : {"Empty", "Send", "Recv"}, q : Seq(TCB)]]
    /\ signals \in [NTFN -> Word]
    /\ waiters \in [NTFN -> Seq(TCB)]
    /\ cnode \in [CNODE -> CNodeTable]

(***************************************************************************)
(* Capability lookup (KernelState::lookup_cap)                             *)
(***************************************************************************)
CapAt(t, cptr) ==
    IF conf[t].cspace # None /\ cptr \in Slot THEN cnode[conf[t].cspace][cptr] ELSE Null

LookupError(t, cptr) ==
    IF conf[t].cspace = None THEN "FailedLookup"
    ELSE IF CapAt(t, cptr) = Null THEN "InvalidCapability" ELSE Ok

\* A lookup that must answer a capability of one type, and carrying one right.
TypeError(t, cptr, type) ==
    IF LookupError(t, cptr) # Ok THEN LookupError(t, cptr)
    ELSE IF CapAt(t, cptr).type # type THEN "InvalidCapability" ELSE Ok

\* Mutant: the right is not looked at.
InvokeErrorAnyRight(t, cptr, type, right) == TypeError(t, cptr, type)

InvokeError(t, cptr, type, right) ==
    IF TypeError(t, cptr, type) # Ok THEN TypeError(t, cptr, type)
    ELSE IF right \notin CapAt(t, cptr).rights THEN "IllegalOperation" ELSE Ok

(***************************************************************************)
(* A syscall runs its checks in order and answers the first error; the     *)
(* kernel writes nothing but the error code and flag then.                 *)
(***************************************************************************)
Accepted(checks) == \A i \in DOMAIN checks : checks[i] = Ok

FirstError(checks) ==
    checks[CHOOSE i \in DOMAIN checks :
              checks[i] # Ok /\ \A j \in 1 .. i - 1 : checks[j] = Ok]

Refused(checks, r) ==
    /\ ~Accepted(checks)
    /\ frame' = Failure(r, FirstError(checks))
    /\ UNCHANGED <<threadVars, ready, current, active, ipcVars, cnode>>

(***************************************************************************)
(* Scheduling.  make_ready is given and answers a thread-state function    *)
(* and a ready queue, because syscalls chain it with other updates.        *)
(***************************************************************************)
MarkReady(ts, t)      == [ts EXCEPT ![t] = Ready]
\* Mutants: make_ready without its test for an already Ready thread; at the front.
EnqueueAgain(ts, queue, t) == PushBack(queue, t)
EnqueueFront(ts, queue, t) == IF ts[t] = Ready THEN queue ELSE <<t>> \o queue

Enqueue(ts, queue, t) == IF ts[t] = Ready THEN queue ELSE PushBack(queue, t)

\* Mutant: the switch forgets to activate the next thread's address space.
HandoverUnpaged(next, ts, saved) ==
    tstate' = [ts EXCEPT ![next] = Running] /\ ctx' = saved /\ current' = next /\ UNCHANGED active

\* The hart passes from current to next, whose saved registers are in saved.
Handover(next, ts, saved) ==
    /\ tstate' = [ts EXCEPT ![next] = Running]
    /\ ctx' = saved
    /\ current' = next
    /\ active' = IF conf[next].vspace = None THEN active ELSE conf[next].vspace

\* Directed handoff: f are current's registers, next is not in the ready queue.
SwitchTo(next, ts, saved, f) ==
    LET contexts == [saved EXCEPT ![current] = f]
    IN  Handover(next, ts, contexts) /\ frame' = contexts[next]

BlockCurrent(queue, ts, f) ==
    /\ ready' = Tail(queue)
    /\ SwitchTo(Head(queue), ts, ctx, f)

\* There is no idle thread: a syscall that would leave the hart with nothing to
\* run answers Timeout instead of blocking.
CanBlock == IF ready = <<>> THEN "Timeout" ELSE Ok
=============================================================================
