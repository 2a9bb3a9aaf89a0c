------------------------------- MODULE Kernel -------------------------------
(***************************************************************************)
(* The kernel as its threads and its boot loader see it: the boot sequence *)
(* that admits threads and enters the first (lib.rs), then one syscall at  *)
(* a time (syscall.rs), each run to completion by the current thread.      *)
(***************************************************************************)
EXTENDS Ipc, CNodeInvoke

CONSTANTS
    InitSlots,   \* the slots of every CNode when boot hands over
    Home,        \* the configuration boot gives each thread it admits
    BootThreads, \* the threads boot admits; the others wait for TCBConfigure
    \* The programs of an instance: which syscalls they make and with which words.
    Syscalls,    \* names of syscalls
    CPtrs,       \* words in mr0, the invoked CPtr
    Args,        \* words in mr1..mr3 where they name slots
    ExtraCaps,   \* extra_caps counts in the tag (3: outside the fast path)
    Configures,  \* <<CPtr, CPtr, CPtr, CPtr or 0>> of a TCBConfigure
    Flags,       \* values of the tag's FLAG_ERROR bit as the thread traps
    Mints        \* pairs <<rights, badge>> of Mint's packed argument

ASSUME ProgramsAssumption ==
    /\ InitSlots \in [CNODE -> CNodeTable]
    /\ Home \in [TCB -> Config]
    /\ \A t \in TCB : Home[t].cspace # None
    /\ BootThreads \subseteq TCB
    /\ CPtrs \subseteq Nat /\ Args \subseteq Nat
    /\ ExtraCaps \subseteq 0 .. 3 /\ Flags \subseteq BOOLEAN
    /\ Mints \subseteq (SUBSET Right) \X Word

Init ==
    /\ tstate = [t \in TCB |-> Inactive]
    /\ conf = [t \in TCB |-> [cspace |-> None, sched |-> None, vspace |-> None]]
    /\ ctx = [t \in TCB |-> Zeroed(t)]
    /\ replyTo = [t \in TCB |-> None]
    /\ ready = <<>>
    /\ current = None
    /\ frame = Zeroed(None)
    /\ active = None
    /\ endpoint = [e \in ENDPOINT |-> EmptyQueue]
    /\ signals = [n \in NTFN |-> {}]
    /\ waiters = [n \in NTFN |-> <<>>]
    /\ cnode = InitSlots

(***************************************************************************)
(* Boot: before any thread has run, the loader configures its threads      *)
(* through admin::configure, may make_ready them again, and enters one.    *)
(***************************************************************************)
BootConfigure(t) ==
    /\ current = None
    /\ conf' = [conf EXCEPT ![t] = Home[t]]
    /\ IF tstate[t] = Inactive
       THEN tstate' = MarkReady(tstate, t) /\ ready' = Enqueue(tstate, ready, t)
       ELSE UNCHANGED <<tstate, ready>>
    /\ UNCHANGED <<ctx, replyTo, hartVars, ipcVars, cnode>>

BootMakeReady(t) ==
    /\ current = None
    /\ conf[t].cspace # None
    /\ tstate' = MarkReady(tstate, t)
    /\ ready' = Enqueue(tstate, ready, t)
    /\ UNCHANGED <<conf, ctx, replyTo, hartVars, ipcVars, cnode>>

\* The first thread may already be in the ready queue, and is taken out of it.
EnterFirstThread(t) ==
    /\ current = None
    /\ conf[t].cspace # None
    /\ ready' = Remove(ready, t)
    /\ current' = t
    /\ tstate' = [tstate EXCEPT ![t] = Running]
    /\ frame' = ctx[t]
    /\ active' = IF conf[t].vspace = None THEN active ELSE conf[t].vspace
    /\ UNCHANGED <<conf, ctx, replyTo, ipcVars, cnode>>

Boot == \E t \in BootThreads : BootConfigure(t) \/ BootMakeReady(t) \/ EnterFirstThread(t)

(***************************************************************************)
(* admin::configure.  mr3 = 0 means no address space.  Only a thread that  *)
(* was Inactive is admitted to the scheduler; a configured one keeps its   *)
(* state, and the hart its current translation.                            *)
(***************************************************************************)
ConfigureChecks(c, cs, sc, vs) ==
    <<InvokeError(current, c, "Tcb", "WRITE"), TypeError(current, cs, "CNode"),
      TypeError(current, sc, "SchedContext"),
      IF vs = 0 THEN Ok ELSE InvokeError(current, vs, "VSpace", "WRITE")>>

\* Mutant: a configured thread is admitted again whatever it is doing.
ConfigureReadmits(c, cs, sc, vs, r) ==
    LET checks == ConfigureChecks(c, cs, sc, vs)
        target == CapAt(current, c).id
        config == [cspace |-> CapAt(current, cs).id, sched |-> CapAt(current, sc).id,
                   vspace |-> IF vs = 0 THEN None ELSE CapAt(current, vs).id]
    IN  \/ Refused(checks, r)
        \/ /\ Accepted(checks)
           /\ conf' = [conf EXCEPT ![target] = config]
           /\ tstate' = MarkReady(tstate, target)
           /\ ready' = Enqueue(tstate, ready, target)
           /\ frame' = Success(r)
           /\ UNCHANGED <<ctx, replyTo, current, active, ipcVars, cnode>>

TCBConfigure(c, cs, sc, vs, r) ==
    LET checks == ConfigureChecks(c, cs, sc, vs)
        target == CapAt(current, c).id
        config == [cspace |-> CapAt(current, cs).id, sched |-> CapAt(current, sc).id,
                   vspace |-> IF vs = 0 THEN None ELSE CapAt(current, vs).id]
    IN  \/ Refused(checks, r)
        \/ /\ Accepted(checks)
           /\ conf' = [conf EXCEPT ![target] = config]
           /\ \/ /\ tstate[target] = Inactive
                 /\ tstate' = MarkReady(tstate, target)
                 /\ ready' = Enqueue(tstate, ready, target)
              \/ /\ tstate[target] # Inactive
                 /\ UNCHANGED <<tstate, ready>>
           /\ frame' = Success(r)
           /\ UNCHANGED <<ctx, replyTo, current, active, ipcVars, cnode>>

(***************************************************************************)
(* yield_now: the caller is enqueued before the next thread is picked, and *)
(* success is written into the frame that is live after the switch.        *)
(***************************************************************************)
Yield(r) ==
    LET queue    == Enqueue(tstate, ready, current)
        contexts == [ctx EXCEPT ![current] = r]
    IN  /\ ready' = Tail(queue)
        /\ Handover(Head(queue), MarkReady(tstate, current), contexts)
        /\ frame' = Success(contexts[Head(queue)])
        /\ UNCHANGED <<conf, replyTo, ipcVars, cnode>>

UnknownSyscall(r) == Refused(<<"IllegalOperation">>, r)

(***************************************************************************)
(* dispatch: the current thread traps with some syscall of its program.    *)
(***************************************************************************)
EndpointSyscall(c, m, r) ==
    \/ "Send" \in Syscalls /\ Send(c, m, r)
    \/ "NBSend" \in Syscalls /\ NBSend(c, m, r)
    \/ "Call" \in Syscalls /\ Call(c, m, r)
    \/ "Recv" \in Syscalls /\ Recv(c, m, r)

NotificationSyscall(c, r) ==
    \/ "Signal" \in Syscalls /\ Signal(c, r)
    \/ "Wait" \in Syscalls /\ Wait(c, r)
    \/ "Poll" \in Syscalls /\ Poll(c, r)

CNodeSyscall(c, r) ==
    \/ /\ "Mint" \in Syscalls
       /\ \E src, dest \in Args, mint \in Mints : Mint(c, src, dest, mint[1], mint[2], r)
    \/ "Copy" \in Syscalls /\ \E src, dest \in Args : Copy(c, src, dest, r)
    \/ "Move" \in Syscalls /\ \E src, dest \in Args : Move(c, src, dest, r)
    \/ "Delete" \in Syscalls /\ \E src \in Args : Delete(c, src, r)
    \/ "CopyCross" \in Syscalls /\ \E from, src, dest \in Args : CopyCross(c, from, src, dest, r)
    \/ "Revoke" \in Syscalls /\ Revoke(c, r)
    \/ "OtherLabel" \in Syscalls /\ OtherLabel(c, r)

\* mr1 names a slot only when the tag says so; otherwise its value is never read.
SlotWords(r) == IF r.xc \in {1, 2} THEN Args ELSE {0}

Dispatch(r) ==
    \/ \E c \in CPtrs, m \in SlotWords(r) : EndpointSyscall(c, m, r)
    \/ \E m \in SlotWords(r) : "Reply" \in Syscalls /\ Reply(m, r)
    \/ \E c \in CPtrs : NotificationSyscall(c, r) \/ CNodeSyscall(c, r)
    \/ \E w \in Configures : TCBConfigure(w[1], w[2], w[3], w[4], r)
    \/ "Yield" \in Syscalls /\ Yield(r)
    \/ "UnknownSyscall" \in Syscalls /\ UnknownSyscall(r)

Trap ==
    /\ current # None
    /\ \E xc \in ExtraCaps, err \in Flags : Dispatch(Request(current, xc, err))

Next == Boot \/ Trap

Spec == Init /\ [][Next]_vars
=============================================================================
