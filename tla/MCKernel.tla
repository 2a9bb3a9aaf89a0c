------------------------------ MODULE MCKernel ------------------------------
(***************************************************************************)
(* Small instances of the kernel for TLC: three threads with a CNode each, *)
(* and the capabilities a run puts into their slots.  Every .cfg names     *)
(* the slots it uses, the syscalls the programs make and the words they    *)
(* pass.                                                                   *)
(***************************************************************************)
EXTENDS KernelProperties, TLC

CONSTANTS t1, t2, t3, k1, k2, k3, e1, e2, n1, s1, v1, v2, b1, b2

Cap(type, id, badge, rights) == [type |-> type, id |-> id, badge |-> badge, rights |-> rights]

EndpointCap(e, badge, rights) == Cap("Endpoint", e, badge, rights)
SignalCap(badge, rights)      == Cap("Notification", n1, badge, rights)
TableCap(k)                   == Cap("CNode", k, {}, {})

\* A CNode holding the given capabilities from slot 1 on; slot 0 stays empty.
Slots(caps) == [s \in Slot |-> IF s \in DOMAIN caps THEN caps[s] ELSE Null]

ReadWrite == {"READ", "WRITE"}

\* Two endpoints everybody may use in both directions.
RendezvousSlots ==
    k1 :> Slots(<<EndpointCap(e1, {b1}, ReadWrite), EndpointCap(e2, {b1}, ReadWrite)>>)
    @@ k2 :> Slots(<<EndpointCap(e1, {b2}, ReadWrite), EndpointCap(e2, {b2}, ReadWrite)>>)
    @@ k3 :> Slots(<<EndpointCap(e1, {}, ReadWrite), EndpointCap(e2, {}, ReadWrite)>>)

\* The same, and one notification: t1 signals it under a badge, t2 and t3 signal and
\* wait; t2 holds a second capability to it, without a badge.
IpcSlots ==
    k1 :> Slots(<<EndpointCap(e1, {b1}, ReadWrite), EndpointCap(e2, {b1}, ReadWrite),
                  SignalCap({b1}, {"WRITE"}), Null>>)
    @@ k2 :> Slots(<<EndpointCap(e1, {b2}, ReadWrite), EndpointCap(e2, {b2}, ReadWrite),
                     SignalCap({b2}, ReadWrite), SignalCap({}, {"WRITE"})>>)
    @@ k3 :> Slots(<<EndpointCap(e1, {}, ReadWrite), EndpointCap(e2, {}, ReadWrite),
                     SignalCap({b1, b2}, ReadWrite), Null>>)

\* A client that may grant its capability, one that may not, and a server that may
\* grant its own, and that can empty its slots.
TransferSlots ==
    k1 :> Slots(<<EndpointCap(e1, {b1}, {"WRITE", "GRANT"})>>)
    @@ k2 :> Slots(<<EndpointCap(e1, {b2}, {"WRITE"})>>)
    @@ k3 :> (0 :> TableCap(k3) @@ 1 :> EndpointCap(e1, {}, {"READ", "GRANT"}) @@ 2 :> Null)

\* k1 and k2 are one protection domain, administered by t1; k3 is another.
AdminSlots ==
    k1 :> (0 :> TableCap(k2) @@ 1 :> TableCap(k1) @@ 2 :> EndpointCap(e1, {}, {"WRITE", "GRANT"}))
    @@ k2 :> Slots(<<EndpointCap(e1, {b1}, {"WRITE"})>>)
    @@ k3 :> Slots(<<EndpointCap(e1, {b1}, {"READ"})>>)

\* t1 may configure t2 and itself while both are clients of t3, who can empty its
\* slots.
ServiceSlots ==
    k1 :> Slots(<<EndpointCap(e1, {b1}, {"WRITE", "GRANT"}), TableCap(k1), TableCap(k2),
                  Cap("Tcb", t2, {}, Right), Cap("SchedContext", s1, {}, {}),
                  Cap("VSpace", v2, {}, {"WRITE"}), Cap("Tcb", t3, {}, {"READ"}),
                  Cap("VSpace", v1, {}, {"READ"}), Cap("Tcb", t1, {}, Right)>>)
    @@ k2 :> Slots(<<EndpointCap(e1, {b2}, {"WRITE"})>>)
    @@ k3 :> (0 :> TableCap(k3) @@ 1 :> EndpointCap(e1, {}, {"READ"})
              @@ [s \in Slot \ {0, 1} |-> Null])

\* Every way to name, misname or leave out a thread, its table and its address space.
NoConfigures   == {}
SomeConfigures ==
    {<<4, 3, 5, 6>>, <<4, 3, 5, 0>>, <<9, 2, 5, 6>>, <<9, 2, 5, 0>>, <<7, 3, 5, 0>>,
     <<5, 3, 5, 0>>, <<4, 0, 5, 0>>, <<4, 6, 5, 0>>, <<4, 3, 4, 0>>, <<4, 3, 5, 8>>,
     <<4, 3, 5, 4>>}

\* The other thread of the sender's protection domain may empty its slots.
SharedSlots ==
    k1 :> Slots(<<EndpointCap(e1, {b1}, {"WRITE", "GRANT"})>>)
    @@ k2 :> Slots(<<TableCap(k1)>>)
    @@ k3 :> Slots(<<EndpointCap(e1, {}, {"READ"})>>)

HomeSlots ==
    [t \in TCB |-> CASE t = t1 -> [cspace |-> k1, sched |-> s1, vspace |-> v1]
                   [] t = t2 -> [cspace |-> k2, sched |-> s1, vspace |-> None]
                   [] t = t3 -> [cspace |-> k3, sched |-> s1, vspace |-> v2]]

Own2      == k1 :> 1 @@ k2 :> 1 @@ k3 :> 2
NoMints   == {}
SomeMints == {<<{"WRITE", "GRANT"}, {b2}>>, <<{"WRITE"}, {}>>}

\* What of a state the kernel can still read: the trap frame and the running
\* thread's saved registers are both overwritten before they are next read.
Live == <<tstate, conf, replyTo, ready, current, active, endpoint, signals, waiters, cnode,
          [t \in TCB \ {current} |-> ctx[t]]>>
=============================================================================
