------------------------------ MODULE MCMemory -------------------------------
(***************************************************************************)
(* Small instances of the memory objects for TLC: one thread that boot     *)
(* admits, another it may retype and configure, an Untyped with a physical *)
(* range that starts misaligned, tables of two entries.                    *)
(***************************************************************************)
EXTENDS MemoryProperties, TLC

CONSTANTS t1, t2, k1, k2, e1, n1, s1, v1, v2, u1, u2, f1, f2, f3

Cap(type, id, rights) == [type |-> type, id |-> id, badge |-> {}, rights |-> rights]

\* t1 may spend u1, and only look at u2; it holds its own table of capabilities, and
\* the address space it runs in.
UntypedSlots ==
    k1 :> [s \in Slot |-> CASE s = 1 -> Cap("Untyped", u1, Right)
                            [] s = 2 -> Cap("VSpace", v1, Right)
                            [] s = 7 -> Cap("CNode", k1, {})
                            [] s = 8 -> Cap("Untyped", u2, {"READ"})
                            [] s = 9 -> Cap("SchedContext", s1, {})
                            [] OTHER -> Null]
    @@ k2 :> [s \in Slot |-> Null]

BootHome == [t \in TCB |-> [cspace |-> k1, sched |-> s1, vspace |-> v1]]

\* What t1's side uses is in use; the rest is for UntypedRetype.
Boot1 == [CNode |-> {k1}, Endpoint |-> {}, Notification |-> {}, Tcb |-> {t1},
          SchedContext |-> {s1}, VSpace |-> {v1}, Frame |-> {}]

Budgets == u1 :> 4 @@ u2 :> 1
Ranges  == u1 :> [next |-> 1, end |-> 12] @@ u2 :> None

\* Two pages for the tables of v1, with the kernel in the last of four megapages.
RootAtBoot  == v1 :> 0
TableAtBoot == v1 :> 1

OneDomain == [k \in CNODE |-> 1]
NoMints   == {}
ReadOnly  == {<<{"READ"}, {}>>}

\* A second address space in slot 3, a page in 4, a megapage in 5, and every refusal:
\* type words that name no target, occupied and missing slots, a lookup that fails, one
\* without the right, pools, budget, range and arena used up.
SomeRetypes ==
    {<<1, "Tcb", 6>>, <<1, "CNode", 6>>, <<1, "VSpace", 3>>, <<1, "FrameSmall", 4>>,
     <<1, "FrameMega", 5>>, <<1, "Untyped", 6>>, <<1, "None", 6>>,
     <<1, "VSpace", 10>>, <<8, "Tcb", 6>>, <<0, "Tcb", 6>>, <<7, "Tcb", 6>>}

\* In v1 a page shares a table with the kernel's megapage (8) and a megapage with
\* another page (4 and 0), and the kernel's own place is asked for; in v2 a megapage
\* is put over a page, and the other way round.
SomeFrameWords ==
    {<<4, "Map", 2, 0>>, <<4, "Map", 2, 8>>, <<4, "Map", 3, 2>>, <<4, "Map", 3, 1>>,
     <<5, "Map", 2, 4>>, <<5, "Map", 2, 12>>, <<5, "Map", 3, 0>>, <<5, "Map", 2, 2>>,
     <<4, "Unmap", 2, 0>>, <<4, "Unmap", 3, 0>>, <<5, "Unmap", 2, 0>>, <<5, "Unmap", 3, 0>>,
     <<4, "None", 2, 0>>, <<4, "Map", 6, 0>>, <<2, "Map", 2, 0>>}
NoWords == {}

\* A page first, then a megapage whose range holds that page's address, or the other
\* way round.
NestedFrameWords == {<<4, "Map", 2, 2>>, <<5, "Map", 2, 0>>}

\* The retyped thread gets its creator's table, and an address space or none.
SomeConfigures == {<<6, 7, 9, 2>>, <<6, 7, 9, 0>>}
NoConfigures   == {}

\* As in MCKernel: the trap frame and the running thread's saved registers are
\* overwritten before they are next read.
Live == <<tstate, conf, replyTo, ready, current, active, endpoint, signals, waiters, cnode,
          [t \in TCB \ {current} |-> ctx[t]], memVars>>
=============================================================================
