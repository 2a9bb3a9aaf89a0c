------------------------------ MODULE StepProofs ------------------------------
(***************************************************************************)
(* What a step may never do: the action properties of the kernel, and that *)
(* every step is a step of Rendezvous or leaves the messages alone.  What  *)
(* a step takes from a queue was put there by another thread long before;  *)
(* so beyond the invariants of KernelSteps the proof needs MessageIntact,  *)
(* that nothing has touched a queued sender's registers since.             *)
(***************************************************************************)
EXTENDS KernelProofs

MessageIntact ==
    \A t \in TCB : tstate[t].kind = "BlockedSend" =>
        /\ ctx[t].from = t
        /\ ctx[t].xc = 1 <=> tstate[t].extra_cap # None
        /\ tstate[t].extra_cap # None =>
              tstate[t].extra_cap # Null /\ "GRANT" \in tstate[t].extra_cap.rights

StepInv == Inv /\ MessageIntact

\* The abstract variables of the refinement.
Offers    == [e \in ENDPOINT |-> Side(e, "Send")]
Listeners == [e \in ENDPOINT |-> Side(e, "Recv")]
Calling   == {t \in TCB : tstate[t].kind = "BlockedSend" /\ tstate[t].is_call}
Awaiting  == {t \in TCB : tstate[t].kind = "BlockedReply"}
Heard     == [t \in TCB |-> Registers(t).from]

RendezvousStep ==
    \/ Promise!Next
    \/ UNCHANGED <<Offers, Listeners, Calling, Awaiting, replyTo, Heard>>

\* Everything a step is to keep.
Lawful ==
    /\ MessageIntact' /\ RendezvousStep
    /\ PartnersWake /\ SleepersWake /\ SignalsKept /\ SlotsKept /\ LinksKept /\ TranslationKept

(***************************************************************************)
(* The slots, the translation and the registers                            *)
(***************************************************************************)

\* Setting one slot replaces no capability when it was empty or is emptied.
LEMMA OneSlot ==
    ASSUME TypeOK, NEW k \in CNODE, NEW s \in Slot, NEW cap,
           cnode' = [cnode EXCEPT ![k][s] = cap], cnode[k][s] = Null \/ cap = Null
    PROVE  SlotsKept
<1>1. \A j \in CNODE, d \in Slot :
         cnode'[j][d] = IF j = k /\ d = s THEN cap ELSE cnode[j][d]
  BY DEF TypeOK, CNodeTable
<1> QED
  BY <1>1 DEF SlotsKept

\* Moving a capability to an empty slot empties the slot it was in.
LEMMA OneMove ==
    ASSUME TypeOK, NEW k \in CNODE, NEW src \in Slot, NEW dest \in Slot, src # dest,
           cnode[k][dest] = Null,
           cnode' = [cnode EXCEPT ![k][dest] = cnode[k][src], ![k][src] = Null]
    PROVE  SlotsKept
<1>1. PICK cap : cap = cnode[k][src]
  OBVIOUS
<1>2. \A j \in CNODE, d \in Slot :
         cnode'[j][d] = IF j = k /\ d = src THEN Null
                        ELSE IF j = k /\ d = dest THEN cap ELSE cnode[j][d]
  BY <1>1 DEF TypeOK, CNodeTable
<1>3. Moved(k, src, k, dest)
  BY <1>1, <1>2 DEF Moved
<1>4. ASSUME NEW j \in CNODE, NEW d \in Slot, cnode'[j][d] # cnode[j][d]
      PROVE  j = k /\ (d = src \/ d = dest) /\ (cnode[j][d] = Null \/ cnode'[j][d] = Null)
  <2>1. cnode'[j][d] = IF j = k /\ d = src THEN Null
                       ELSE IF j = k /\ d = dest THEN cap ELSE cnode[j][d]
    BY <1>2
  <2> HIDE <1>2
  <2>2. j = k /\ (d = src \/ d = dest)
    BY <1>4, <2>1
  <2> QED
    BY <2>1, <2>2
<1>5. ASSUME NEW j \in CNODE, NEW d \in Slot, cnode'[j][d] # cnode[j][d],
             NEW i \in CNODE, NEW e \in Slot, cnode'[i][e] # cnode[i][e], <<i, e>> # <<j, d>>
      PROVE  Moved(j, d, i, e) \/ Moved(i, e, j, d)
  <2>1. /\ j = k /\ (d = src \/ d = dest)
        /\ i = k /\ (e = src \/ e = dest)
    BY <1>4, <1>5
  <2> QED
    BY <1>3, <1>5, <2>1
<1> QED
  BY <1>4, <1>5 DEF SlotsKept

\* The bits of every notification stay, and nobody is told of any.
Untold == \A b \in Word \ {{}} : frame'.mr0 # Badge(b)

LEMMA NoBits ==
    ASSUME signals' = signals, current = None \/ current' # current \/ frame'.from # current \/ Untold
    PROVE  SignalsKept
  BY DEF SignalsKept, BitsMoved, BitsTold, Told, Untold

\* An answer to a request tells of no bits, nor does an error.
LEMMA Unbadged ==
    ASSUME NEW r \in Frame, r.mr0 = Own
    PROVE  /\ frame' = Success(r) => Untold
           /\ \A e : frame' = Failure(r, e) => Untold
<1>1. ASSUME NEW b
      PROVE  Own # Badge(b) /\ \A e : Error(e) # Badge(b)
  BY DEF Own, Badge, Error
<1>2. ASSUME frame' = Success(r)
      PROVE  frame'.mr0 = Own
  BY <1>2 DEF Success, Frame
<1>3. ASSUME NEW e, frame' = Failure(r, e)
      PROVE  frame'.mr0 = Error(e)
  BY <1>3 DEF Failure, Frame
<1> QED
  BY <1>1, <1>2, <1>3 DEF Untold

\* A transfer that is accepted fills the empty slot its target has registered.
LEMMA PlaceLands ==
    ASSUME TypeOK, NEW t \in TCB, NEW dest, NEW cap, PlaceError(t, dest, cap) = Ok,
           cnode' = Place(t, dest, cap), conf' = conf
    PROVE  /\ SlotsKept
           /\ cap = None => cnode' = cnode
           /\ cap # None /\ cap # Null /\ "GRANT" \in cap.rights =>
                 dest \in Slot /\ Landed(t, dest) /\ CapAt(t, dest)' = cap
<1>1. CASE cap = None
  BY <1>1 DEF Place, SlotsKept
<1>2. CASE cap # None
  <2> DEFINE k == conf[t].cspace
  <2>1. k \in CNODE /\ k # None /\ dest \in Slot /\ cnode[k][dest] = Null
    BY <1>2 DEF PlaceError, TypeOK, Config, Ok
  <2>2. cnode' = [cnode EXCEPT ![k][dest] = cap]
    BY <1>2 DEF Place
  <2>3. SlotsKept
    BY <2>1, <2>2, OneSlot
  <2>4. cnode'[k][dest] = cap
    BY <2>1, <2>2 DEF TypeOK, CNodeTable
  <2>5. CapAt(t, dest) = Null /\ CapAt(t, dest)' = cap
    BY <2>1, <2>4 DEF CapAt
  <2> QED
    BY <1>2, <2>1, <2>3, <2>5 DEF Landed
<1> QED
  BY <1>1, <1>2

\* While the hart stays where it is, so does the translation.
LEMMA TranslationStays ==
    ASSUME current' = current, active' = active, conf' = conf
    PROVE  TranslationKept
  BY DEF TranslationKept, Translated

\* A switch activates the address space of the next thread.
LEMMA TranslationSwitched ==
    ASSUME conf' = conf, NEW next, current' = next,
           active' = IF conf[next].vspace = None THEN active ELSE conf[next].vspace
    PROVE  TranslationKept
  BY DEF TranslationKept, Translated

\* While the hart stays where it is, a thread's registers change where they are kept.
LEMMA RegistersStay ==
    ASSUME current' = current
    PROVE  \A t : Registers(t)' = IF t = current THEN frame' ELSE ctx'[t]
  BY DEF Registers

\* After a switch every thread has the registers that were saved for it.
LEMMA RegistersSwitched ==
    ASSUME NEW saved, ctx' = saved, frame' = saved[current']
    PROVE  \A t : Registers(t)' = saved[t]
  BY DEF Registers

(***************************************************************************)
(* Rendezvous                                                              *)
(***************************************************************************)

\* The thread that traps waits for nothing.
LEMMA CurrentIdle ==
    ASSUME Inv, current # None
    PROVE  current \in TCB /\ Promise!Idle(current)
<1>1. current \in TCB /\ tstate[current].kind = "Running"
  BY CurrentRuns
<1>2. ASSUME NEW e \in ENDPOINT, NEW i \in DOMAIN endpoint[e].q
      PROVE  endpoint[e].q[i] # current
  <2>1. endpoint[e].q[i] \in Senders(e) \cup Receivers(e)
    BY DEF Inv, EndpointQueuesExact, Lists
  <2> QED
    BY <1>1, <2>1 DEF Senders, Receivers
<1>3. ASSUME NEW e \in ENDPOINT, NEW side
      PROVE  \A i \in DOMAIN Side(e, side) : Side(e, side)[i] # current
  BY <1>2 DEF Side
<1> QED
  BY <1>1, <1>3 DEF Promise!Idle, Promise!In

\* The thread that traps moves on; no message is left, taken or answered.
LEMMA MovesOn ==
    ASSUME Inv, current # None,
           UNCHANGED <<Offers, Listeners, Calling, Awaiting, replyTo>>,
           \A t \in TCB : Registers(t)'.from = IF t = current THEN current ELSE Registers(t).from
    PROVE  RendezvousStep
<1>1. Heard' = [Heard EXCEPT ![current] = current]
  BY DEF Heard
<1>2. Promise!MoveOn(current)
  BY <1>1 DEF Promise!MoveOn, Offers, Listeners, Calling, Awaiting, Heard
<1> QED
  BY <1>2, CurrentIdle DEF Promise!Next, RendezvousStep

\* Nobody begins or ceases to wait for another thread's message or answer.
Peers == {"BlockedSend", "BlockedRecv", "BlockedReply"}

LEMMA PeersStay ==
    ASSUME StepInv, replyTo' = replyTo, NobodyMoves(Peers),
           \A t \in TCB : tstate[t].kind = "BlockedSend" =>
              ctx'[t].from = ctx[t].from /\ ctx'[t].xc = ctx[t].xc
    PROVE  /\ MessageIntact' /\ PartnersWake /\ LinksKept
           /\ UNCHANGED <<Calling, Awaiting>>
<1>1. \A t \in TCB : tstate'[t].kind = "BlockedSend" =>
         tstate[t].kind = "BlockedSend" /\ tstate'[t] = tstate[t]
  BY DEF NobodyMoves, Peers
<1>2. MessageIntact'
  BY <1>1 DEF StepInv, MessageIntact
<1>3. PartnersWake
  BY DEF PartnersWake, NobodyMoves, Peers
<1>4. Calling' = Calling /\ Awaiting' = Awaiting
  BY DEF Calling, Awaiting, NobodyMoves, Peers
<1> QED
  BY <1>2, <1>3, <1>4 DEF LinksKept

\* A syscall of the running thread that moves no thread and keeps the hart.
LEMMA KeepsHart ==
    ASSUME StepInv, current # None, frame'.from = current, SlotsKept, SignalsKept,
           UNCHANGED <<threadVars, ready, current, active, endpoint>>
    PROVE  Lawful
<1>1. NobodyMoves(Peers)
  BY DEF NobodyMoves, threadVars
<1>2. MessageIntact' /\ PartnersWake /\ LinksKept /\ UNCHANGED <<Calling, Awaiting>>
  BY <1>1, PeersStay DEF threadVars
<1>3. \A t \in TCB : Registers(t)'.from = IF t = current THEN current ELSE Registers(t).from
  BY RegistersStay DEF Registers, threadVars
<1>4. UNCHANGED <<Offers, Listeners>>
  BY DEF Offers, Listeners, Side
<1>5. RendezvousStep
  BY <1>2, <1>3, <1>4, MovesOn DEF StepInv, threadVars
<1>6. SleepersWake
  BY DEF SleepersWake, threadVars
<1>7. TranslationKept
  BY TranslationStays DEF threadVars
<1> QED
  BY <1>2, <1>5, <1>6, <1>7 DEF Lawful

\* A refused syscall changes nothing that a property is about.
LEMMA RefusedLawful ==
    ASSUME StepInv, current # None, NEW r \in Frame, r.from = current, r.mr0 = Own, NEW checks,
           Refused(checks, r)
    PROVE  Lawful
<1>1. frame'.from = current
  BY DEF Refused, Failure, Frame
<1>2. SlotsKept /\ signals' = signals
  BY DEF Refused, SlotsKept, ipcVars
<1>3. SignalsKept
  BY <1>2, Unbadged, NoBits DEF Refused
<1> QED
  BY <1>1, <1>2, <1>3, KeepsHart DEF Refused, ipcVars

\* A thread that blocks keeps its request, and everybody else what they had.
LEMMA Blocks ==
    ASSUME Inv, current # None, ready # <<>>, NEW r \in Frame, NEW mine \in Blocked,
           BlockCurrent(ready, [tstate EXCEPT ![current] = mine], r), conf' = conf
    PROVE  /\ \A t \in TCB : ctx'[t] = IF t = current THEN r ELSE ctx[t]
           /\ \A t \in TCB : Registers(t)' = IF t = current THEN r ELSE Registers(t)
           /\ TranslationKept
<1> DEFINE saved == [ctx EXCEPT ![current] = r]
<1>1. /\ ctx' = saved /\ current' = Head(ready) /\ frame' = saved[current']
      /\ active' = IF conf[Head(ready)].vspace = None THEN active ELSE conf[Head(ready)].vspace
  BY DEF BlockCurrent, SwitchTo, Handover
<1>2. \A t \in TCB : saved[t] = IF t = current THEN r ELSE ctx[t]
  BY DEF Inv, TypeOK
<1> HIDE DEF saved
<1>3. \A t \in TCB : Registers(t)' = saved[t]
  BY <1>1, RegistersSwitched
<1>4. \A t \in TCB : Registers(t)' = IF t = current THEN r ELSE Registers(t)
  BY <1>2, <1>3 DEF Registers
<1>5. TranslationKept
  BY <1>1, TranslationSwitched
<1> QED
  BY <1>1, <1>2, <1>4, <1>5

\* A thread joins the queue of one side of an endpoint; nobody was on the other.
LEMMA SidePushed ==
    ASSUME TypeOK, EndpointQueuesExact, NEW e \in ENDPOINT,
           NEW side \in {"Send", "Recv"}, NEW other \in {"Send", "Recv"}, other # side,
           endpoint[e].side \in {"Empty", side}, NEW t \in TCB, ~Full(endpoint[e].q),
           endpoint' = [endpoint EXCEPT ![e] = Waiting(side, PushBack(@.q, t))]
    PROVE  /\ Side(e, other) = <<>>
           /\ \A d \in ENDPOINT :
                 /\ Side(d, side)' = IF d = e THEN Append(Side(e, side), t) ELSE Side(d, side)
                 /\ Side(d, other)' = Side(d, other)
<1>1. PICK q \in Seq(TCB) : q = endpoint[e].q
  BY DEF TypeOK
<1>2. PICK p \in Seq(TCB) : p = Append(q, t) /\ p # <<>>
  BY AppendProperties
<1>3. endpoint' = [endpoint EXCEPT ![e] = Waiting(side, p)]
  BY <1>1, <1>2 DEF PushBack
<1>4. /\ endpoint'[e].side = side /\ endpoint'[e].q = p
      /\ \A d \in ENDPOINT \ {e} : endpoint'[d] = endpoint[d]
  <2>1. endpoint'[e] = Waiting(side, p) /\ \A d \in ENDPOINT \ {e} : endpoint'[d] = endpoint[d]
    BY <1>3 DEF TypeOK
  <2>2. Waiting(side, p) = [side |-> side, q |-> p]
    BY <1>2 DEF Waiting
  <2> QED
    BY <2>1, <2>2
<1>5. Side(e, side)' = p /\ Side(e, other)' = <<>>
  BY <1>4 DEF Side
<1>6. Side(e, side) = q /\ Side(e, other) = <<>>
  <2>1. endpoint[e].side = "Empty" => q = <<>>
    BY <1>1 DEF EndpointQueuesExact
  <2> QED
    BY <2>1, <1>1 DEF Side
<1>7. \A d \in ENDPOINT \ {e} : Side(d, side)' = Side(d, side) /\ Side(d, other)' = Side(d, other)
  BY <1>4 DEF Side
<1> QED
  BY <1>2, <1>5, <1>6, <1>7

\* The first thread leaves the queue of one side of an endpoint.
LEMMA SidePopped ==
    ASSUME TypeOK, EndpointQueuesExact, NEW e \in ENDPOINT,
           NEW side \in {"Send", "Recv"}, NEW other \in {"Send", "Recv"}, other # side,
           endpoint[e].side = side,
           endpoint' = [endpoint EXCEPT ![e] = Waiting(side, Tail(@.q))]
    PROVE  /\ Side(e, side) = endpoint[e].q /\ Side(e, side) # <<>>
           /\ \A d \in ENDPOINT :
                 /\ Side(d, side)' = IF d = e THEN Tail(Side(e, side)) ELSE Side(d, side)
                 /\ Side(d, other)' = Side(d, other)
<1>1. PICK q \in Seq(TCB) : q = endpoint[e].q /\ q # <<>>
  BY DEF TypeOK, EndpointQueuesExact
<1>2. PICK p \in Seq(TCB) : p = Tail(q)
  <2>1. Tail(q) \in Seq(TCB)
    BY <1>1
  <2> QED
    BY <2>1
<1>3. endpoint'[e] = Waiting(side, p) /\ \A d \in ENDPOINT \ {e} : endpoint'[d] = endpoint[d]
  BY <1>1, <1>2 DEF TypeOK
<1>4. Side(e, side)' = p /\ Side(e, other)' = <<>>
  <2>1. endpoint'[e].q = p /\ endpoint'[e].side = IF p = <<>> THEN "Empty" ELSE side
    BY <1>3, WaitingType
  <2> QED
    BY <2>1 DEF Side
<1>5. Side(e, side) = q /\ Side(e, other) = <<>>
  BY <1>1 DEF Side
<1>6. \A d \in ENDPOINT \ {e} : Side(d, side)' = Side(d, side) /\ Side(d, other)' = Side(d, other)
  BY <1>3 DEF Side
<1> QED
  BY <1>1, <1>2, <1>4, <1>5, <1>6

\* What a thread leaves behind when it blocks, whatever it waits for.
LEMMA BlockedLawful ==
    ASSUME StepInv, current # None, ready # <<>>, NEW r \in Frame, r.from = current, r.mr0 = Own,
           NEW mine \in Blocked, mine.kind # "BlockedReply",
           mine.kind = "BlockedSend" =>
              /\ r.xc = 1 <=> mine.extra_cap # None
              /\ mine.extra_cap # None =>
                    mine.extra_cap # Null /\ "GRANT" \in mine.extra_cap.rights,
           BlockCurrent(ready, [tstate EXCEPT ![current] = mine], r),
           UNCHANGED <<conf, replyTo, signals, cnode>>
    PROVE  /\ MessageIntact' /\ PartnersWake /\ SleepersWake /\ SignalsKept /\ SlotsKept
           /\ LinksKept /\ TranslationKept
           /\ \A t \in TCB : Registers(t)'.from = IF t = current THEN current ELSE Registers(t).from
           /\ Heard' = [Heard EXCEPT ![current] = current]
           /\ Awaiting' = Awaiting
           /\ Calling' = IF mine.kind = "BlockedSend" /\ mine.is_call
                         THEN Calling \cup {current} ELSE Calling
<1>1. /\ current \in TCB /\ tstate[current].kind = "Running"
      /\ tstate'[current] = mine
      /\ \A t \in TCB \ {current} :
            \/ tstate'[t] = tstate[t]
            \/ tstate[t].kind = "Ready" /\ tstate'[t].kind = "Running"
  BY CurrentRuns, BlockStep DEF StepInv
<1>2. /\ \A t \in TCB : ctx'[t] = IF t = current THEN r ELSE ctx[t]
      /\ \A t \in TCB : Registers(t)' = IF t = current THEN r ELSE Registers(t)
      /\ TranslationKept
  BY Blocks DEF StepInv
<1>3. \A t \in TCB : Registers(t)'.from = IF t = current THEN current ELSE Registers(t).from
  BY <1>2
<1>4. MessageIntact'
  <2>1. ASSUME NEW t \in TCB, tstate'[t].kind = "BlockedSend"
        PROVE  /\ ctx'[t].from = t
               /\ ctx'[t].xc = 1 <=> tstate'[t].extra_cap # None
               /\ tstate'[t].extra_cap # None =>
                     tstate'[t].extra_cap # Null /\ "GRANT" \in tstate'[t].extra_cap.rights
    <3>1. CASE t = current
      BY <2>1, <3>1, <1>1, <1>2
    <3>2. CASE t # current
      <4>1. tstate'[t] = tstate[t] /\ ctx'[t] = ctx[t]
        BY <2>1, <3>2, <1>1, <1>2
      <4> QED
        BY <2>1, <4>1 DEF StepInv, MessageIntact
    <3> QED
      BY <3>1, <3>2
  <2> QED
    BY <2>1 DEF MessageIntact
<1>5. \A t \in TCB : tstate'[t] # tstate[t] => tstate[t].kind \in {"Ready", "Running"}
  BY <1>1
<1>6. PartnersWake /\ SleepersWake
  BY <1>5 DEF PartnersWake, SleepersWake
<1>7. SignalsKept /\ SlotsKept /\ LinksKept
  <2>1. current' \in TCB /\ tstate'[current'] = Running
    BY BlockStep DEF StepInv, SchedulerExact
  <2>2. current' # current
    BY <1>1, <2>1 DEF Blocked, Running
  <2> QED
    BY <2>2, NoBits DEF SlotsKept, LinksKept
<1>8. Awaiting' = Awaiting
  BY <1>1 DEF Awaiting
<1>9. Calling' = IF mine.kind = "BlockedSend" /\ mine.is_call
                 THEN Calling \cup {current} ELSE Calling
  BY <1>1 DEF Calling
<1>10. Heard' = [Heard EXCEPT ![current] = current]
  BY <1>3 DEF Heard
<1> QED
  BY <1>2, <1>3, <1>4, <1>6, <1>7, <1>8, <1>9, <1>10

(***************************************************************************)
(* Endpoints                                                               *)
(***************************************************************************)

\* A capability that passes the check on what a message attaches may be granted.
LEMMA AttachedGranted ==
    ASSUME NEW m, NEW r, ExtraCapError(m, r) = Ok, TypeOK, current \in TCB
    PROVE  /\ r.xc = 1 <=> ExtraCap(m, r) # None
           /\ ExtraCap(m, r) # None =>
                 ExtraCap(m, r) # Null /\ "GRANT" \in ExtraCap(m, r).rights
<1>1. CapAt(current, m) # None
  BY CapAtType, NoCapabilityAssumption
<1> QED
  BY <1>1 DEF ExtraCap, ExtraCapError, LookupError, Ok

\* A thread that queues on an endpoint is the last there, and has room.
LEMMA RoomThere ==
    ASSUME TypeOK, NEW e \in ENDPOINT, NEW r, Accepted(<<CanBlock, RoomIn(endpoint[e].q)>>)
    PROVE  ready # <<>> /\ ~Full(endpoint[e].q)
  BY DEF Accepted, CanBlock, RoomIn, Ok

LEMMA QueueSenderLawful ==
    ASSUME StepInv, current # None, NEW r \in Frame, r.from = current, r.mr0 = Own, NEW m \in Nat, NEW cap,
           cap.id \in ENDPOINT, cap.badge \in Word, NEW isCall \in BOOLEAN,
           ExtraCapError(m, r) = Ok, QueueSender(cap, m, r, isCall)
    PROVE  Lawful
<1> DEFINE checks == <<CanBlock, RoomIn(endpoint[cap.id].q)>>
<1>1. CASE Refused(checks, r)
  BY <1>1, RefusedLawful
<1>2. CASE ~Refused(checks, r)
  <2>1. PICK e \in ENDPOINT : e = cap.id
    OBVIOUS
  <2>2. PICK dest : dest = IF isCall /\ r.xc = 2 THEN m ELSE None
    OBVIOUS
  <2>3. PICK extra : extra = ExtraCap(m, r)
    OBVIOUS
  <2>4. PICK mine : mine = BlockedSend(e, cap.badge, isCall, extra, dest)
    OBVIOUS
  <2>5. /\ endpoint[e].side # "Recv" /\ ready # <<>> /\ ~Full(endpoint[e].q)
        /\ endpoint' = [endpoint EXCEPT ![e] = Waiting("Send", PushBack(@.q, current))]
        /\ BlockCurrent(ready, [tstate EXCEPT ![current] = mine], r)
        /\ UNCHANGED <<conf, replyTo, signals, waiters, cnode>>
    BY <1>2, <2>1, <2>2, <2>3, <2>4, RoomThere DEF QueueSender, StepInv, Inv
  <2>6. mine \in Blocked
    <3>1. dest \in OptSlot /\ extra \in Capability \cup {None}
      BY <2>2, <2>3, CurrentRuns, ExtraCapType DEF OptSlot, StepInv, Inv
    <3> QED
      BY <2>1, <2>4, <3>1, BlockedStates
  <2>7. /\ mine.kind = "BlockedSend" /\ mine.is_call = isCall /\ mine.extra_cap = extra
    BY <2>4 DEF BlockedSend
  <2>8. /\ r.xc = 1 <=> extra # None
        /\ extra # None => extra # Null /\ "GRANT" \in extra.rights
    BY <2>3, CurrentRuns, AttachedGranted DEF StepInv, Inv
  <2>9. /\ MessageIntact' /\ PartnersWake /\ SleepersWake /\ SignalsKept /\ SlotsKept
        /\ LinksKept /\ TranslationKept
        /\ Heard' = [Heard EXCEPT ![current] = current]
        /\ Awaiting' = Awaiting
        /\ Calling' = IF isCall THEN Calling \cup {current} ELSE Calling
    BY <2>5, <2>6, <2>7, <2>8, BlockedLawful
  <2>10. endpoint[e].side \in {"Empty", "Send"}
    BY <2>5 DEF StepInv, Inv, TypeOK
  <2>11. /\ Side(e, "Recv") = <<>>
         /\ \A d \in ENDPOINT :
               /\ Side(d, "Send")' = IF d = e THEN Append(Side(e, "Send"), current) ELSE Side(d, "Send")
               /\ Side(d, "Recv")' = Side(d, "Recv")
    BY <2>5, <2>10, CurrentRuns, SidePushed DEF StepInv, Inv
  <2>12. /\ Listeners[e] = <<>> /\ Listeners' = Listeners
         /\ Offers' = [Offers EXCEPT ![e] = Append(@, current)]
    BY <2>11 DEF Listeners, Offers
  <2>13. Promise!Offer(current, e, isCall)
    BY <2>5, <2>9, <2>12 DEF Promise!Offer, Offers, Listeners, Calling, Awaiting, Heard
  <2>14. RendezvousStep
    BY <2>13, CurrentIdle DEF Promise!Next, RendezvousStep, StepInv
  <2> QED
    BY <2>9, <2>14 DEF Lawful
<1> QED
  BY <1>1, <1>2

LEMMA QueueReceiverLawful ==
    ASSUME StepInv, current # None, NEW r \in Frame, r.from = current, r.mr0 = Own, NEW m \in Nat,
           NEW e \in ENDPOINT, QueueReceiver(e, m, r)
    PROVE  Lawful
<1> DEFINE checks == <<CanBlock, RoomIn(endpoint[e].q)>>
<1>1. CASE Refused(checks, r)
  BY <1>1, RefusedLawful
<1>2. CASE ~Refused(checks, r)
  <2>1. PICK mine : mine = BlockedRecv(e, RecvSlot(m, r))
    OBVIOUS
  <2>2. /\ endpoint[e].side # "Send" /\ ready # <<>> /\ ~Full(endpoint[e].q)
        /\ endpoint' = [endpoint EXCEPT ![e] = Waiting("Recv", PushBack(@.q, current))]
        /\ BlockCurrent(ready, [tstate EXCEPT ![current] = mine], r)
        /\ UNCHANGED <<conf, replyTo, signals, waiters, cnode>>
    BY <1>2, <2>1, RoomThere DEF QueueReceiver, StepInv, Inv
  <2>3. mine \in Blocked /\ mine.kind = "BlockedRecv"
    BY <2>1, BlockedStates DEF RecvSlot, OptSlot, BlockedRecv
  <2>4. /\ MessageIntact' /\ PartnersWake /\ SleepersWake /\ SignalsKept /\ SlotsKept
        /\ LinksKept /\ TranslationKept
        /\ Heard' = [Heard EXCEPT ![current] = current]
        /\ Awaiting' = Awaiting /\ Calling' = Calling
    BY <2>2, <2>3, BlockedLawful
  <2>5. endpoint[e].side \in {"Empty", "Recv"}
    BY <2>2 DEF StepInv, Inv, TypeOK
  <2>6. /\ Side(e, "Send") = <<>>
        /\ \A d \in ENDPOINT :
              /\ Side(d, "Recv")' = IF d = e THEN Append(Side(e, "Recv"), current) ELSE Side(d, "Recv")
              /\ Side(d, "Send")' = Side(d, "Send")
    BY <2>2, <2>5, CurrentRuns, SidePushed DEF StepInv, Inv
  <2>7. /\ Offers[e] = <<>> /\ Offers' = Offers
        /\ Listeners' = [Listeners EXCEPT ![e] = Append(@, current)]
    BY <2>6 DEF Listeners, Offers
  <2>8. Promise!Listen(current, e)
    BY <2>2, <2>4, <2>7 DEF Promise!Listen, Offers, Listeners, Calling, Awaiting, Heard
  <2>9. RendezvousStep
    BY <2>8, CurrentIdle DEF Promise!Next, RendezvousStep, StepInv
  <2> QED
    BY <2>4, <2>9 DEF Lawful
<1> QED
  BY <1>1, <1>2

LEMMA QueueWaiterLawful ==
    ASSUME StepInv, current # None, NEW r \in Frame, r.from = current, r.mr0 = Own, NEW n \in NTFN,
           QueueWaiter(n, r)
    PROVE  Lawful
<1> DEFINE checks == <<CanBlock, RoomIn(waiters[n])>>
<1>1. CASE Refused(checks, r)
  BY <1>1, RefusedLawful
<1>2. CASE ~Refused(checks, r)
  <2>1. PICK mine : mine = BlockedWait(n)
    OBVIOUS
  <2>2. /\ ready # <<>>
        /\ BlockCurrent(ready, [tstate EXCEPT ![current] = mine], r)
        /\ UNCHANGED <<conf, replyTo, endpoint, signals, cnode>>
    BY <1>2, <2>1 DEF QueueWaiter, Accepted, CanBlock, Ok
  <2>3. mine \in Blocked /\ mine.kind = "BlockedWait"
    BY <2>1, BlockedStates DEF BlockedWait
  <2>4. /\ MessageIntact' /\ PartnersWake /\ SleepersWake /\ SignalsKept /\ SlotsKept
        /\ LinksKept /\ TranslationKept
        /\ \A t \in TCB : Registers(t)'.from = IF t = current THEN current ELSE Registers(t).from
        /\ Awaiting' = Awaiting /\ Calling' = Calling
    BY <2>2, <2>3, BlockedLawful
  <2>5. UNCHANGED <<Offers, Listeners>>
    BY <2>2 DEF Offers, Listeners, Side
  <2>6. RendezvousStep
    BY <2>2, <2>4, <2>5, MovesOn DEF StepInv
  <2> QED
    BY <2>4, <2>6 DEF Lawful
<1> QED
  BY <1>1, <1>2

\* The thread at the head of a queue is blocked there and does not run.
LEMMA HeadWaits ==
    ASSUME Inv, current # None, NEW e \in ENDPOINT, endpoint[e].side # "Empty",
           NEW t, t = Head(endpoint[e].q)
    PROVE  /\ t \in TCB /\ t # current /\ tstate[t].ep = e
           /\ tstate[t].kind = IF endpoint[e].side = "Send" THEN "BlockedSend" ELSE "BlockedRecv"
  BY HeadBlocked, CurrentRuns DEF Inv

\* The first receiver gets the message, its badge and what is attached to it.
LEMMA ReceiverServed ==
    ASSUME StepInv, current # None, NEW r \in Frame, r.from = current, r.mr0 = Own,
           NEW e \in ENDPOINT, endpoint[e].side = "Recv", NEW t, t = Head(endpoint[e].q),
           NEW extra, r.xc = 1 <=> extra # None,
           extra # None => extra # Null /\ "GRANT" \in extra.rights,
           NEW dest, dest = RecvDest(t), PlaceError(t, dest, extra) = Ok,
           cnode' = Place(t, dest, extra), conf' = conf,
           NEW badge \in Word, Holds("Endpoint", e, "WRITE", badge),
           Registers(t)' = Delivered(r, badge), tstate'[t] \in {Ready, Running}
    PROVE  ReceiverWakes(t) /\ SlotsKept
<1>1. t \in TCB /\ tstate[t].kind = "BlockedRecv" /\ tstate[t].ep = e
  BY HeadWaits DEF StepInv
<1>2. dest = tstate[t].dest
  BY <1>1 DEF RecvDest
<1>3. /\ SlotsKept
      /\ extra = None => cnode' = cnode
      /\ extra # None => Landed(t, dest)
  BY <1>1, PlaceLands DEF StepInv, Inv
<1>4. /\ Registers(t)'.from = current /\ Registers(t)'.xc = r.xc
      /\ Registers(t)'.mr0 = Badge(badge)
  BY DEF Delivered
<1> QED
  BY <1>1, <1>2, <1>3, <1>4 DEF ReceiverWakes

\* The first listener has left the queue of its endpoint.
LEMMA ListenerGone ==
    ASSUME Inv, NEW e \in ENDPOINT, endpoint[e].side = "Recv",
           endpoint' = [endpoint EXCEPT ![e] = Waiting("Recv", Tail(@.q))]
    PROVE  /\ Listeners[e] # <<>> /\ Head(Listeners[e]) = Head(endpoint[e].q)
           /\ Listeners' = [Listeners EXCEPT ![e] = Tail(@)] /\ Offers' = Offers
<1>1. /\ Side(e, "Recv") = endpoint[e].q /\ Side(e, "Recv") # <<>>
      /\ \A d \in ENDPOINT :
            /\ Side(d, "Recv")' = IF d = e THEN Tail(Side(e, "Recv")) ELSE Side(d, "Recv")
            /\ Side(d, "Send")' = Side(d, "Send")
  BY SidePopped DEF Inv
<1> QED
  BY <1>1 DEF Listeners, Offers

\* The first offer has left the queue of its endpoint.
LEMMA OfferGone ==
    ASSUME Inv, NEW e \in ENDPOINT, endpoint[e].side = "Send",
           endpoint' = [endpoint EXCEPT ![e] = Waiting("Send", Tail(@.q))]
    PROVE  /\ Offers[e] # <<>> /\ Head(Offers[e]) = Head(endpoint[e].q)
           /\ Offers' = [Offers EXCEPT ![e] = Tail(@)] /\ Listeners' = Listeners
<1>1. /\ Side(e, "Send") = endpoint[e].q /\ Side(e, "Send") # <<>>
      /\ \A d \in ENDPOINT :
            /\ Side(d, "Send")' = IF d = e THEN Tail(Side(e, "Send")) ELSE Side(d, "Send")
            /\ Side(d, "Recv")' = Side(d, "Recv")
  BY SidePopped DEF Inv
<1> QED
  BY <1>1 DEF Listeners, Offers

\* A queued sender that keeps its state and its registers keeps its message.
LEMMA IntactKept ==
    ASSUME MessageIntact,
           \A t \in TCB : tstate'[t].kind = "BlockedSend" =>
              tstate'[t] = tstate[t] /\ ctx'[t] = ctx[t]
    PROVE  MessageIntact'
  BY DEF MessageIntact

LEMMA SendToReceiverLawful ==
    ASSUME StepInv, current # None, NEW r \in Frame, r.from = current, r.mr0 = Own, NEW m, NEW cap,
           cap.id \in ENDPOINT, cap.badge \in Word, Holds("Endpoint", cap.id, "WRITE", cap.badge),
           ExtraCapError(m, r) = Ok, SendToReceiver(cap, m, r)
    PROVE  Lawful
<1>1. PICK e \in ENDPOINT, badge \in Word : e = cap.id /\ badge = cap.badge
  OBVIOUS
<1>2. PICK t : t = Head(endpoint[e].q)
  OBVIOUS
<1>3. PICK extra, dest : extra = ExtraCap(m, r) /\ dest = RecvDest(t)
  OBVIOUS
<1> DEFINE checks == <<PlaceError(t, dest, extra)>>
<1>4. CASE Refused(checks, r)
  BY <1>4, RefusedLawful
<1>5. CASE ~Refused(checks, r)
  <2>1. /\ endpoint[e].side = "Recv" /\ PlaceError(t, dest, extra) = Ok
        /\ cnode' = Place(t, dest, extra)
        /\ endpoint' = [endpoint EXCEPT ![e] = Waiting("Recv", Tail(@.q))]
        /\ ctx' = [ctx EXCEPT ![t] = Delivered(r, badge)]
        /\ tstate' = MarkReady(tstate, t) /\ frame' = Success(r)
        /\ UNCHANGED <<conf, replyTo, current, active, signals>>
    BY <1>1, <1>2, <1>3, <1>5 DEF SendToReceiver, Accepted
  <2>2. t \in TCB /\ t # current /\ tstate[t].kind = "BlockedRecv" /\ current \in TCB
    BY <1>2, <2>1, HeadWaits, CurrentRuns DEF StepInv
  <2>3. tstate'[t] = Ready /\ \A u \in TCB \ {t} : tstate'[u] = tstate[u]
    BY <2>1, <2>2 DEF MarkReady, StepInv, Inv, TypeOK
  <2>4. ctx'[t] = Delivered(r, badge) /\ \A u \in TCB \ {t} : ctx'[u] = ctx[u]
    BY <2>1, <2>2 DEF StepInv, Inv, TypeOK
  <2>5. /\ Registers(t)' = Delivered(r, badge) /\ Registers(current)' = Success(r)
        /\ \A u \in TCB \ {t, current} : Registers(u)' = Registers(u)
    BY <2>1, <2>2, <2>4 DEF Registers
  <2>6. /\ r.xc = 1 <=> extra # None
        /\ extra # None => extra # Null /\ "GRANT" \in extra.rights
    BY <1>3, <2>2, AttachedGranted DEF StepInv, Inv
  <2>7. ReceiverWakes(t) /\ SlotsKept
    BY <1>1, <1>2, <1>3, <2>1, <2>3, <2>5, <2>6, ReceiverServed
  <2>8. PartnersWake
    BY <2>2, <2>3, <2>7 DEF PartnersWake
  <2>9. SleepersWake
    BY <2>2, <2>3 DEF SleepersWake
  <2>10. SignalsKept /\ LinksKept
    BY <2>1, Unbadged, NoBits DEF LinksKept
  <2>11. TranslationKept
    BY <2>1, TranslationStays
  <2>12. MessageIntact'
    BY <2>2, <2>3, <2>4, IntactKept DEF StepInv, Ready
  <2>13. Calling' = Calling /\ Awaiting' = Awaiting
    BY <2>2, <2>3 DEF Calling, Awaiting, Ready
  <2>14. /\ Listeners[e] # <<>> /\ Head(Listeners[e]) = t
         /\ Listeners' = [Listeners EXCEPT ![e] = Tail(@)] /\ Offers' = Offers
    BY <1>2, <2>1, ListenerGone DEF StepInv
  <2>15. Heard' = [Heard EXCEPT ![current] = current, ![t] = current]
    <3>1. Registers(t)'.from = current /\ Registers(current)'.from = current
      BY <2>5 DEF Delivered, Success
    <3>2. \A u \in TCB \ {t, current} : Registers(u)'.from = Registers(u).from
      BY <2>5
    <3>3. \A u \in TCB : Registers(u)'.from =
              IF u = t THEN current ELSE IF u = current THEN current ELSE Registers(u).from
      BY <3>1, <3>2, <2>1
    <3> QED
      BY <3>3, <2>2 DEF Heard
  <2>16. Promise!Deliver(current, e, FALSE)
    BY <2>1, <2>13, <2>14, <2>15 DEF Promise!Deliver, Offers, Listeners, Calling, Awaiting, Heard
  <2>17. RendezvousStep
    BY <2>16, CurrentIdle DEF Promise!Next, RendezvousStep, StepInv
  <2> QED
    BY <2>7, <2>8, <2>9, <2>10, <2>11, <2>12, <2>17 DEF Lawful
<1> QED
  BY <1>4, <1>5

\* A directed handoff: who moves, and what registers everybody has then.
LEMMA Switched ==
    ASSUME Inv, current # None, NEW me, me = current, NEW t \in TCB, t # me, NEW mine,
           NEW message, NEW r, NEW saved, saved = [ctx EXCEPT ![t] = message],
           SwitchTo(t, [tstate EXCEPT ![current] = mine], saved, r), conf' = conf
    PROVE  /\ current' = t /\ frame' = message /\ TranslationKept
           /\ tstate'[me] = mine /\ tstate'[t] = Running
           /\ \A u \in TCB \ {t, me} : tstate'[u] = tstate[u] /\ ctx'[u] = ctx[u]
<1>1. me \in TCB
  BY CurrentRuns
<1>2. PICK contexts : contexts = [saved EXCEPT ![me] = r]
  OBVIOUS
<1>3. /\ tstate' = [[tstate EXCEPT ![me] = mine] EXCEPT ![t] = Running]
      /\ ctx' = contexts /\ current' = t /\ frame' = contexts[t]
      /\ active' = IF conf[t].vspace = None THEN active ELSE conf[t].vspace
  BY <1>2 DEF SwitchTo, Handover
<1>4. /\ contexts[t] = message /\ contexts[me] = r
      /\ \A u \in TCB \ {t, me} : contexts[u] = ctx[u]
  BY <1>1, <1>2 DEF Inv, TypeOK
<1>5. /\ tstate'[me] = mine /\ tstate'[t] = Running
      /\ \A u \in TCB \ {t, me} : tstate'[u] = tstate[u]
  BY <1>1, <1>3 DEF Inv, TypeOK
<1>6. TranslationKept
  BY <1>3, TranslationSwitched
<1>7. /\ \A u \in TCB \ {t, me} : ctx'[u] = ctx[u]
      /\ frame' = message
  BY <1>3, <1>4
<1> QED
  BY <1>3, <1>5, <1>6, <1>7

LEMMA CallReceiverLawful ==
    ASSUME StepInv, current # None, NEW r \in Frame, r.from = current, r.mr0 = Own, NEW m, NEW cap,
           cap.id \in ENDPOINT, cap.badge \in Word, Holds("Endpoint", cap.id, "WRITE", cap.badge),
           ExtraCapError(m, r) = Ok, CallReceiver(cap, m, r)
    PROVE  Lawful
<1>0. PICK me : me = current
  OBVIOUS
<1>1. PICK e \in ENDPOINT, badge \in Word : e = cap.id /\ badge = cap.badge
  OBVIOUS
<1>2. PICK t : t = Head(endpoint[e].q)
  OBVIOUS
<1>3. PICK extra, dest : extra = ExtraCap(m, r) /\ dest = RecvDest(t)
  OBVIOUS
<1>4. PICK mine : mine = BlockedReply(IF r.xc = 2 THEN m ELSE None)
  OBVIOUS
<1> DEFINE checks == <<PlaceError(t, dest, extra)>>
<1>5. CASE Refused(checks, r)
  BY <1>5, RefusedLawful
<1>6. CASE ~Refused(checks, r)
  <2>1. /\ endpoint[e].side = "Recv" /\ PlaceError(t, dest, extra) = Ok
        /\ cnode' = Place(t, dest, extra)
        /\ endpoint' = [endpoint EXCEPT ![e] = Waiting("Recv", Tail(@.q))]
        /\ replyTo' = [replyTo EXCEPT ![t] = current]
        /\ SwitchTo(t, [tstate EXCEPT ![current] = mine], [ctx EXCEPT ![t] = Delivered(r, badge)], r)
        /\ UNCHANGED <<conf, signals>>
    BY <1>1, <1>2, <1>3, <1>4, <1>6 DEF CallReceiver, Accepted
  <2>2. t \in TCB /\ t # current /\ tstate[t].kind = "BlockedRecv"
        /\ current \in TCB /\ tstate[current].kind = "Running"
    BY <1>2, <2>1, HeadWaits, CurrentRuns DEF StepInv
  <2>3. /\ TranslationKept
        /\ tstate'[me] = mine /\ tstate'[t] = Running
        /\ \A u \in TCB \ {t, me} : tstate'[u] = tstate[u] /\ ctx'[u] = ctx[u]
        /\ Registers(me)' = r /\ Registers(t)' = Delivered(r, badge)
        /\ \A u \in TCB \ {t, me} : Registers(u)' = Registers(u)
    <3>1. PICK message : message = Delivered(r, badge)
      OBVIOUS
    <3>2. PICK saved : saved = [ctx EXCEPT ![t] = message]
      OBVIOUS
    <3>3. SwitchTo(t, [tstate EXCEPT ![current] = mine], saved, r) /\ conf' = conf
      BY <3>1, <3>2, <2>1
    <3>4. t \in TCB /\ t # me /\ Inv
      BY <1>0, <2>2 DEF StepInv
    <3>5. /\ current' = t /\ frame' = message /\ TranslationKept
          /\ tstate'[me] = mine /\ tstate'[t] = Running
          /\ \A u \in TCB \ {t, me} : tstate'[u] = tstate[u] /\ ctx'[u] = ctx[u]
      BY <3>2, <3>3, <3>4, <1>0, Switched
    <3>6. ctx'[me] = r
      <4>1. ctx' = [saved EXCEPT ![me] = r]
        BY <3>3, <1>0 DEF SwitchTo, Handover
      <4> QED
        BY <4>1, <3>2, <1>0, <2>2 DEF StepInv, Inv, TypeOK
    <3>7. /\ Registers(me)' = r /\ Registers(t)' = message
          /\ \A u \in TCB \ {t, me} : Registers(u)' = Registers(u)
      BY <3>4, <3>5, <3>6, <1>0 DEF Registers
    <3> QED
      BY <3>1, <3>5, <3>7
  <2>4. mine.kind = "BlockedReply"
    BY <1>4 DEF BlockedReply
  <2>5. /\ r.xc = 1 <=> extra # None
        /\ extra # None => extra # Null /\ "GRANT" \in extra.rights
    BY <1>3, <2>2, AttachedGranted DEF StepInv, Inv
  <2>6. ReceiverWakes(t) /\ SlotsKept
    BY <1>0, <1>1, <1>2, <1>3, <2>1, <2>3, <2>5, ReceiverServed
  <2>7. PartnersWake
    BY <1>0, <2>2, <2>3, <2>6 DEF PartnersWake
  <2>8. SleepersWake
    BY <1>0, <2>2, <2>3 DEF SleepersWake
  <2>9. SignalsKept
    <3>1. current' = t
      BY <2>1 DEF SwitchTo, Handover
    <3> QED
      BY <2>1, <2>2, <3>1, NoBits
  <2>10. LinksKept
    BY <2>1, <2>2 DEF LinksKept, StepInv, Inv, TypeOK
  <2>11. MessageIntact'
    BY <1>0, <2>2, <2>3, <2>4, IntactKept DEF StepInv, Running
  <2>12. Calling' = Calling /\ Awaiting' = Awaiting \cup {current}
    BY <1>0, <2>2, <2>3, <2>4 DEF Calling, Awaiting, Running
  <2>13. /\ Listeners[e] # <<>> /\ Head(Listeners[e]) = t
         /\ Listeners' = [Listeners EXCEPT ![e] = Tail(@)] /\ Offers' = Offers
    BY <1>2, <2>1, ListenerGone DEF StepInv
  <2>14. Heard' = [Heard EXCEPT ![current] = current, ![t] = current]
    <3>1. Registers(t)'.from = current /\ Registers(me)'.from = current
      BY <1>0, <2>3 DEF Delivered
    <3>2. \A u \in TCB \ {t, me} : Registers(u)'.from = Registers(u).from
      BY <2>3
    <3>3. \A u \in TCB : Registers(u)'.from =
              IF u = t THEN current ELSE IF u = current THEN current ELSE Registers(u).from
      BY <3>1, <3>2, <1>0
    <3> QED
      BY <3>3, <2>2 DEF Heard
  <2>15. Promise!Deliver(current, e, TRUE)
    BY <2>1, <2>12, <2>13, <2>14 DEF Promise!Deliver, Offers, Listeners, Calling, Awaiting, Heard
  <2>16. RendezvousStep
    BY <2>15, CurrentIdle DEF Promise!Next, RendezvousStep, StepInv
  <2> QED
    BY <2>3, <2>6, <2>7, <2>8, <2>9, <2>10, <2>11, <2>16 DEF Lawful
<1> QED
  BY <1>5, <1>6

\* The first sender is released, its message whole.
LEMMA SenderServed ==
    ASSUME StepInv, current # None, current' = current, conf' = conf,
           NEW e \in ENDPOINT, endpoint[e].side = "Send", NEW s, s = Head(endpoint[e].q),
           NEW extra, extra = tstate[s].extra_cap,
           NEW dest, PlaceError(current, dest, extra) = Ok, cnode' = Place(current, dest, extra),
           frame'.mr0 = Badge(tstate[s].badge), frame'.from = ctx[s].from,
           frame'.xc = ctx[s].xc, ~frame'.err,
           IF tstate[s].is_call
           THEN tstate'[s] = BlockedReply(tstate[s].reply_dest) /\ replyTo'[current] = s
           ELSE tstate'[s] = Ready /\ replyTo' = replyTo
    PROVE  SenderReleased(s) /\ SlotsKept
<1>1. s \in TCB /\ tstate[s].kind = "BlockedSend" /\ tstate[s].ep = e
  BY HeadWaits DEF StepInv
<1>2. /\ frame'.from = s
      /\ frame'.xc = 1 <=> extra # None
      /\ extra # None => extra # Null /\ "GRANT" \in extra.rights
  BY <1>1 DEF StepInv, MessageIntact
<1>3. PICK me \in TCB : me = current
  BY CurrentRuns DEF StepInv
<1>4. /\ SlotsKept
      /\ extra = None => cnode' = cnode
      /\ extra # None => dest \in Slot /\ Landed(me, dest) /\ CapAt(me, dest)' = extra
  BY <1>2, <1>3, PlaceLands DEF StepInv, Inv
<1>5. ASSUME extra # None
      PROVE  \E d \in Slot : Landed(current, d) /\ CapAt(current, d)' = tstate[s].extra_cap
  <2>1. Landed(current, dest) /\ CapAt(current, dest)' = extra
    BY <1>3, <1>4, <1>5 DEF Landed, CapAt
  <2> QED
    BY <2>1, <1>4, <1>5
<1> QED
  BY <1>1, <1>2, <1>4, <1>5 DEF SenderReleased

LEMMA TakeMessageLawful ==
    ASSUME StepInv, current # None, NEW r \in Frame, r.from = current, r.mr0 = Own, NEW m,
           NEW e \in ENDPOINT, TakeMessage(e, m, r)
    PROVE  Lawful
<1>1. PICK s : s = Head(endpoint[e].q)
  OBVIOUS
<1>2. PICK extra, dest : extra = tstate[s].extra_cap /\ dest = RecvSlot(m, r)
  OBVIOUS
<1> DEFINE checks == <<TakeError(s, dest)>>
<1>3. CASE Refused(checks, r)
  BY <1>3, RefusedLawful
<1>4. CASE ~Refused(checks, r)
  <2>1. /\ endpoint[e].side = "Send" /\ TakeError(s, dest) = Ok
        /\ cnode' = Place(current, dest, extra)
        /\ endpoint' = [endpoint EXCEPT ![e] = Waiting("Send", Tail(@.q))]
        /\ frame' = Success([ctx[s] EXCEPT !.mr0 = Badge(tstate[s].badge),
                                           !.mr1 = IF extra # None THEN "zero" ELSE @])
        /\ ReleaseSender(s)
        /\ UNCHANGED <<conf, ctx, current, active, signals>>
    BY <1>1, <1>2, <1>4 DEF TakeMessage, Accepted
  <2>2. /\ s \in TCB /\ s # current /\ tstate[s].kind = "BlockedSend"
        /\ current \in TCB /\ tstate[current].kind = "Running"
    BY <1>1, <2>1, HeadWaits, CurrentRuns DEF StepInv
  <2>3. PlaceError(current, dest, extra) = Ok
    BY <1>2, <2>1, <2>2 DEF TakeError
  <2>4. ctx[s] \in Frame /\ ctx[s].from = s
    BY <2>2 DEF StepInv, Inv, TypeOK, MessageIntact
  <2>5. /\ frame'.mr0 = Badge(tstate[s].badge) /\ frame'.from = s
        /\ frame'.xc = ctx[s].xc /\ ~frame'.err
    BY <2>1, <2>4 DEF Success, Frame
  <2>6. /\ \A u \in TCB \ {s} : tstate'[u] = tstate[u]
        /\ IF tstate[s].is_call
           THEN /\ tstate'[s] = BlockedReply(tstate[s].reply_dest)
                /\ replyTo' = [replyTo EXCEPT ![current] = s]
           ELSE tstate'[s] = Ready /\ replyTo' = replyTo
    BY <2>1, <2>2 DEF ReleaseSender, MarkReady, StepInv, Inv, TypeOK
  <2>7. tstate[s].is_call => replyTo'[current] = s /\ \A u \in TCB \ {current} : replyTo'[u] = replyTo[u]
    BY <2>2, <2>6 DEF StepInv, Inv, TypeOK
  <2>8. SenderReleased(s) /\ SlotsKept
    <3>1. /\ frame'.mr0 = Badge(tstate[s].badge) /\ frame'.from = ctx[s].from
          /\ frame'.xc = ctx[s].xc /\ ~frame'.err
      BY <2>4, <2>5
    <3>2. IF tstate[s].is_call
          THEN tstate'[s] = BlockedReply(tstate[s].reply_dest) /\ replyTo'[current] = s
          ELSE tstate'[s] = Ready /\ replyTo' = replyTo
      BY <2>6, <2>7
    <3>3. current' = current /\ conf' = conf
      BY <2>1
    <3>4. endpoint[e].side = "Send" /\ cnode' = Place(current, dest, extra)
      BY <2>1
    <3>5. extra = tstate[s].extra_cap
      BY <1>2
    <3> QED
      BY <1>1, <2>3, <3>1, <3>2, <3>3, <3>4, <3>5, SenderServed
  <2>9. tstate'[s].kind = IF tstate[s].is_call THEN "BlockedReply" ELSE "Ready"
    BY <2>6 DEF BlockedReply, Ready
  <2>10. PartnersWake
    BY <2>2, <2>6, <2>8 DEF PartnersWake
  <2>11. SleepersWake
    BY <2>2, <2>6 DEF SleepersWake
  <2>12. SignalsKept
    BY <2>1, <2>2, <2>5, NoBits
  <2>13. LinksKept
    BY <2>2, <2>6, <2>7, NoneAssumption DEF LinksKept
  <2>14. TranslationKept
    BY <2>1, TranslationStays
  <2>15. MessageIntact'
    BY <2>1, <2>6, <2>9, IntactKept DEF StepInv
  <2>16. tstate[s].is_call <=> s \in Calling
    BY <2>2 DEF Calling
  <2>17. /\ Calling' = Calling \ {s}
         /\ Awaiting' = IF s \in Calling THEN Awaiting \cup {s} ELSE Awaiting
    BY <2>2, <2>6, <2>9 DEF Calling, Awaiting
  <2>18. replyTo' = IF s \in Calling THEN [replyTo EXCEPT ![current] = s] ELSE replyTo
    BY <2>6, <2>16
  <2>19. /\ Offers[e] # <<>> /\ Head(Offers[e]) = s
         /\ Offers' = [Offers EXCEPT ![e] = Tail(@)] /\ Listeners' = Listeners
    BY <1>1, <2>1, OfferGone DEF StepInv
  <2>20. Heard' = [Heard EXCEPT ![current] = s]
    <3>1. \A u \in TCB : Registers(u)'.from = IF u = current THEN s ELSE Registers(u).from
      BY <2>1, <2>5 DEF Registers
    <3> QED
      BY <3>1, <2>2 DEF Heard
  <2>21. Promise!Take(current, e)
    BY <2>17, <2>18, <2>19, <2>20 DEF Promise!Take, Offers, Listeners, Calling, Awaiting, Heard
  <2>22. RendezvousStep
    BY <2>21, CurrentIdle DEF Promise!Next, RendezvousStep, StepInv
  <2> QED
    BY <2>8, <2>10, <2>11, <2>12, <2>13, <2>14, <2>15, <2>22 DEF Lawful
<1> QED
  BY <1>3, <1>4

LEMMA AnswerCallerLawful ==
    ASSUME StepInv, current # None, NEW r \in Frame, r.from = current, r.mr0 = Own, NEW m,
           replyTo[current] # None, ExtraCapError(m, r) = Ok,
           AnswerCaller(replyTo[current], m, r)
    PROVE  Lawful
<1>0. PICK me \in TCB : me = current /\ tstate[me].kind = "Running"
  BY CurrentRuns DEF StepInv
<1>1. PICK t \in TCB : t = replyTo[me] /\ t # me /\ tstate[t].kind = "BlockedReply"
  BY <1>0 DEF StepInv, Inv, TypeOK, ReplyLinksExact
<1>2. PICK extra, dest : extra = ExtraCap(m, r) /\ dest = ReplyDest(t)
  OBVIOUS
<1>3. PICK message, saved : message = Delivered(r, {}) /\ saved = [ctx EXCEPT ![t] = message]
  OBVIOUS
<1> DEFINE checks == <<PlaceError(t, dest, extra)>>
<1>4. CASE Refused(checks, r)
  BY <1>4, RefusedLawful
<1>5. CASE ~Refused(checks, r)
  <2>1. /\ PlaceError(t, dest, extra) = Ok
        /\ cnode' = Place(t, dest, extra)
        /\ replyTo' = [replyTo EXCEPT ![me] = None]
        /\ SwitchTo(t, [tstate EXCEPT ![current] = Ready], saved, r)
        /\ UNCHANGED <<conf, endpoint, signals>>
    BY <1>0, <1>1, <1>2, <1>3, <1>5 DEF AnswerCaller, Accepted, MarkReady, ipcVars
  <2>2. Inv
    BY DEF StepInv
  <2>3. /\ current' = t /\ frame' = message /\ TranslationKept
        /\ tstate'[me] = Ready /\ tstate'[t] = Running
        /\ \A u \in TCB \ {t, me} : tstate'[u] = tstate[u] /\ ctx'[u] = ctx[u]
    <3>1. PICK mine : mine = Ready
      OBVIOUS
    <3>2. SwitchTo(t, [tstate EXCEPT ![current] = mine], saved, r) /\ conf' = conf
      BY <3>1, <2>1
    <3>3. saved = [ctx EXCEPT ![t] = message] /\ me = current /\ t # me
      BY <1>0, <1>1, <1>3
    <3>4. /\ current' = t /\ frame' = message /\ TranslationKept
          /\ tstate'[me] = mine /\ tstate'[t] = Running
          /\ \A u \in TCB \ {t, me} : tstate'[u] = tstate[u] /\ ctx'[u] = ctx[u]
      BY <3>2, <3>3, <2>2, Switched
    <3> QED
      BY <3>1, <3>4
  <2>4. ctx'[me] = r
    <3>1. ctx' = [saved EXCEPT ![me] = r]
      BY <1>0, <2>1 DEF SwitchTo, Handover
    <3> QED
      BY <3>1, <1>0, <1>1, <1>3 DEF StepInv, Inv, TypeOK
  <2>5. /\ Registers(me)' = r /\ Registers(t)' = message
        /\ \A u \in TCB \ {t, me} : Registers(u)' = Registers(u)
    BY <1>0, <1>1, <2>3, <2>4 DEF Registers
  <2>6. message.from = current /\ message.mr0 = Badge({}) /\ message.xc = r.xc
    BY <1>3 DEF Delivered
  <2>7. /\ r.xc = 1 <=> extra # None
        /\ extra # None => extra # Null /\ "GRANT" \in extra.rights
    BY <1>0, <1>2, AttachedGranted DEF StepInv, Inv
  <2>8. dest = tstate[t].dest
    BY <1>1, <1>2 DEF ReplyDest
  <2>9. /\ SlotsKept
        /\ extra = None => cnode' = cnode
        /\ extra # None => Landed(t, dest)
    BY <1>1, <2>1, <2>7, PlaceLands DEF StepInv, Inv
  <2>10. replyTo'[me] = None /\ \A u \in TCB \ {me} : replyTo'[u] = replyTo[u]
    BY <1>0, <2>1 DEF StepInv, Inv, TypeOK
  <2>11. CallerAnswered(t)
    BY <1>0, <1>1, <2>3, <2>6, <2>7, <2>8, <2>9, <2>10 DEF CallerAnswered
  <2>12. PartnersWake
    BY <1>0, <1>1, <2>3, <2>11 DEF PartnersWake
  <2>13. SleepersWake
    BY <1>0, <1>1, <2>3 DEF SleepersWake
  <2>14. SignalsKept
    BY <1>0, <1>1, <2>1, <2>3, NoBits
  <2>15. LinksKept
    BY <1>1, <2>3, <2>10 DEF LinksKept
  <2>16. MessageIntact'
    BY <1>0, <1>1, <2>3, IntactKept DEF StepInv, Ready, Running
  <2>17. Calling' = Calling /\ Awaiting' = Awaiting \ {t} /\ t \in Awaiting
    BY <1>0, <1>1, <2>3 DEF Calling, Awaiting, Ready, Running
  <2>18. UNCHANGED <<Offers, Listeners>>
    BY <2>1 DEF Offers, Listeners, Side
  <2>19. Heard' = [Heard EXCEPT ![me] = me, ![t] = me]
    <3>1. Registers(t)'.from = me /\ Registers(me)'.from = me
      BY <1>0, <2>5, <2>6
    <3>2. \A u \in TCB \ {t, me} : Registers(u)'.from = Registers(u).from
      BY <2>5
    <3>3. \A u \in TCB : Registers(u)'.from =
              IF u = t THEN me ELSE IF u = me THEN me ELSE Registers(u).from
      BY <3>1, <3>2
    <3> QED
      BY <3>3, <1>0 DEF Heard
  <2>20. Promise!Answer(me)
    BY <1>1, <2>1, <2>17, <2>18, <2>19
       DEF Promise!Answer, Offers, Listeners, Calling, Awaiting, Heard
  <2>21. RendezvousStep
    BY <1>0, <2>20, CurrentIdle DEF Promise!Next, RendezvousStep, StepInv
  <2> QED
    BY <2>3, <2>9, <2>12, <2>13, <2>14, <2>15, <2>16, <2>21 DEF Lawful
<1> QED
  BY <1>4, <1>5, <1>0, <1>1, <1>2

\* Send, NBSend, Call and Recv.
LEMMA EndpointLawful ==
    ASSUME StepInv, current # None, NEW r \in Frame, r.from = current, r.mr0 = Own, NEW m \in Nat, NEW c,
           EndpointSyscall(c, m, r)
    PROVE  Lawful
<1>1. PICK cap : cap = CapAt(current, c)
  OBVIOUS
<1>2. ASSUME NEW most, Accepted(SendChecks(c, m, r, most))
      PROVE  /\ cap.id \in ENDPOINT /\ cap.badge \in Word /\ ExtraCapError(m, r) = Ok
             /\ Holds("Endpoint", cap.id, "WRITE", cap.badge)
  <2>1. InvokeError(current, c, "Endpoint", "WRITE") = Ok /\ ExtraCapError(m, r) = Ok
    BY <1>2 DEF SendChecks, Accepted
  <2>2. c \in Slot /\ cap.type = "Endpoint" /\ "WRITE" \in cap.rights
    BY <1>1, <2>1, LookupAccepted
  <2>3. cap.id \in ENDPOINT /\ cap.badge \in Word
    BY <1>1, <2>1, LookedUp DEF StepInv
  <2> QED
    BY <1>1, <2>1, <2>2, <2>3 DEF Holds
<1>3. ASSUME NEW most, Accepted(SendChecks(c, m, r, most)),
             SendToReceiver(cap, m, r) \/ CallReceiver(cap, m, r)
      PROVE  Lawful
  <2>1. /\ cap.id \in ENDPOINT /\ cap.badge \in Word /\ ExtraCapError(m, r) = Ok
        /\ Holds("Endpoint", cap.id, "WRITE", cap.badge)
    BY <1>2, <1>3
  <2> QED
    BY <1>3, <2>1, SendToReceiverLawful, CallReceiverLawful
<1>4. ASSUME NEW most, Accepted(SendChecks(c, m, r, most)),
             NEW isCall \in BOOLEAN, QueueSender(cap, m, r, isCall)
      PROVE  Lawful
  <2>1. cap.id \in ENDPOINT /\ cap.badge \in Word /\ ExtraCapError(m, r) = Ok
    BY <1>2, <1>4
  <2> QED
    BY <1>4, <2>1, QueueSenderLawful
<1>5. ASSUME frame' = Success(r),
             UNCHANGED <<threadVars, ready, current, active, ipcVars, cnode>>
      PROVE  Lawful
  <2>1. frame'.from = current
    BY <1>5 DEF Success, Frame
  <2>2. SlotsKept /\ SignalsKept /\ endpoint' = endpoint
    BY <1>5, Unbadged, NoBits DEF SlotsKept, ipcVars
  <2> QED
    BY <1>5, <2>1, <2>2, KeepsHart
<1>6. ASSUME NEW most, Refused(SendChecks(c, m, r, most), r)
      PROVE  Lawful
  BY <1>6, RefusedLawful
<1>7. ASSUME Recv(c, m, r)
      PROVE  Lawful
  <2>1. CASE Refused(RecvChecks(c, r), r)
    BY <2>1, RefusedLawful
  <2>2. CASE Accepted(RecvChecks(c, r)) /\ (TakeMessage(cap.id, m, r) \/ QueueReceiver(cap.id, m, r))
    <3>1. InvokeError(current, c, "Endpoint", "READ") = Ok
      BY <2>2 DEF RecvChecks, Accepted
    <3>2. cap.id \in ENDPOINT
      BY <1>1, <3>1, LookedUp DEF StepInv
    <3> QED
      BY <2>2, <3>2, TakeMessageLawful, QueueReceiverLawful
  <2> QED
    BY <1>1, <1>7, <2>1, <2>2 DEF Recv
<1>8. ASSUME Send(c, m, r)
      PROVE  Lawful
  BY <1>1, <1>3, <1>4, <1>6, <1>8 DEF Send
<1>9. ASSUME NBSend(c, m, r)
      PROVE  Lawful
  BY <1>1, <1>3, <1>5, <1>6, <1>9 DEF NBSend
<1>10. ASSUME Call(c, m, r)
       PROVE  Lawful
  BY <1>1, <1>3, <1>4, <1>6, <1>10 DEF Call
<1> QED
  BY <1>7, <1>8, <1>9, <1>10 DEF EndpointSyscall

LEMMA ReplyLawful ==
    ASSUME StepInv, current # None, NEW r \in Frame, r.from = current, r.mr0 = Own, NEW m, Reply(m, r)
    PROVE  Lawful
<1>1. CASE Refused(ReplyChecks(m, r), r)
  BY <1>1, RefusedLawful
<1>2. CASE Accepted(ReplyChecks(m, r)) /\ AnswerCaller(replyTo[current], m, r)
  <2>1. replyTo[current] # None /\ ExtraCapError(m, r) = Ok
    BY <1>2 DEF ReplyChecks, Accepted, Ok
  <2> QED
    BY <1>2, <2>1, AnswerCallerLawful
<1> QED
  BY <1>1, <1>2 DEF Reply

(***************************************************************************)
(* Notifications                                                           *)
(***************************************************************************)

\* The first waiter is woken with the pending bits and the signaller's badge.
LEMMA WakeWaiterLawful ==
    ASSUME StepInv, current # None, NEW r \in Frame, r.from = current, r.mr0 = Own,
           NEW n \in NTFN, NEW badge \in Word, Holds("Notification", n, "WRITE", badge),
           WakeWaiter(n, badge), frame' = Success(r),
           UNCHANGED <<conf, replyTo, current, active, endpoint, cnode>>
    PROVE  Lawful
<1>1. PICK t, word : t = Head(waiters[n]) /\ word = Badge(signals[n] \cup badge)
  OBVIOUS
<1>2. /\ waiters[n] # <<>>
      /\ signals' = [signals EXCEPT ![n] = {}]
      /\ ctx' = [ctx EXCEPT ![t] = [ctx[t] EXCEPT !.mr0 = word]]
      /\ tstate' = MarkReady(tstate, t)
  BY <1>1 DEF WakeWaiter
<1>3. t \in TCB /\ tstate[t].kind = "BlockedWait" /\ tstate[t].ntfn = n
  <2>1. waiters[n] \in Seq(TCB) /\ Lists(waiters[n], Sleepers(n))
    BY DEF StepInv, Inv, TypeOK, NotificationsExact
  <2>2. t \in TCB /\ t \in Sleepers(n)
    BY <1>1, <1>2, <2>1, TailLists
  <2> QED
    BY <2>2 DEF Sleepers
<1>4. t # current /\ current \in TCB
  BY <1>3, CurrentRuns DEF StepInv
<1>5. tstate'[t] = Ready /\ \A u \in TCB \ {t} : tstate'[u] = tstate[u]
  BY <1>2, <1>3 DEF MarkReady, StepInv, Inv, TypeOK
<1>6. /\ ctx'[t].mr0 = word /\ ctx'[t].from = ctx[t].from
      /\ \A u \in TCB \ {t} : ctx'[u] = ctx[u]
  <2>1. ctx'[t] = [ctx[t] EXCEPT !.mr0 = word] /\ \A u \in TCB \ {t} : ctx'[u] = ctx[u]
    BY <1>2, <1>3 DEF StepInv, Inv, TypeOK
  <2>2. ctx[t] \in Frame
    BY <1>3 DEF StepInv, Inv, TypeOK
  <2> QED
    BY <2>1, <2>2 DEF Frame
<1>7. signals'[n] = {} /\ \A k \in NTFN \ {n} : signals'[k] = signals[k]
  BY <1>2 DEF StepInv, Inv, TypeOK
<1>8. SleeperWakes(t)
  BY <1>1, <1>3, <1>5, <1>6, <1>7 DEF SleeperWakes
<1>9. SleepersWake /\ PartnersWake
  BY <1>3, <1>5, <1>8 DEF SleepersWake, PartnersWake
<1>10. MessageIntact'
  BY <1>3, <1>5, <1>6, IntactKept DEF StepInv, Ready
<1>11. SignalsKept
  <2>1. signals[n] = {}
    BY <1>2 DEF StepInv, Inv, NotificationsExact
  <2>2. signals' = signals
    BY <1>2, <2>1 DEF StepInv, Inv, TypeOK
  <2> QED
    BY <2>2, Unbadged, NoBits
<1>12. SlotsKept /\ LinksKept
  BY DEF SlotsKept, LinksKept
<1>13. TranslationKept
  BY TranslationStays
<1>14. Calling' = Calling /\ Awaiting' = Awaiting
  BY <1>3, <1>5 DEF Calling, Awaiting, Ready
<1>15. UNCHANGED <<Offers, Listeners>>
  BY DEF Offers, Listeners, Side
<1>16. \A u \in TCB : Registers(u)'.from = IF u = current THEN current ELSE Registers(u).from
  <2>1. frame'.from = current
    BY DEF Success, Frame
  <2> QED
    BY <1>4, <1>6, <2>1 DEF Registers
<1>17. RendezvousStep
  BY <1>14, <1>15, <1>16, MovesOn DEF StepInv
<1> QED
  BY <1>9, <1>10, <1>11, <1>12, <1>13, <1>17 DEF Lawful

\* The pending bits go into the registers of the thread that asks for them.
LEMMA ConsumeLawful ==
    ASSUME StepInv, current # None, NEW r \in Frame, r.from = current, r.mr0 = Own, NEW n \in NTFN,
           ConsumeSignals(n, r)
    PROVE  Lawful
<1>1. /\ signals' = [signals EXCEPT ![n] = {}]
      /\ frame' = Success([r EXCEPT !.mr0 = Badge(signals[n])])
      /\ UNCHANGED <<threadVars, ready, current, active, endpoint, waiters, cnode>>
  BY DEF ConsumeSignals
<1>2. frame'.from = current /\ frame'.mr0 = Badge(signals[n])
  BY <1>1 DEF Success, Frame
<1>3. \A k \in NTFN \ {n} : signals'[k] = signals[k]
  BY <1>1 DEF StepInv, Inv, TypeOK
<1>5. Consumed(n)
  <2>1. signals'[n] = {} /\ ~frame'.err
    BY <1>1 DEF Success, Frame, StepInv, Inv, TypeOK
  <2> QED
    BY <1>1, <1>2, <2>1 DEF Consumed, threadVars
<1>6. SignalsKept
  <2>1. BitsMoved
    BY <1>3, <1>5 DEF BitsMoved
  <2>2. ASSUME NEW b, Told(b)
        PROVE  signals[n] = b
    BY <1>2, <2>2 DEF Told, Badge
  <2> QED
    BY <1>5, <2>1, <2>2 DEF SignalsKept, BitsTold
<1>7. SlotsKept
  BY <1>1 DEF SlotsKept
<1> QED
  BY <1>1, <1>2, <1>6, <1>7, KeepsHart

\* Signal, Wait and Poll.
LEMMA NotificationLawful ==
    ASSUME StepInv, current # None, NEW r \in Frame, r.from = current, r.mr0 = Own, NEW c,
           NotificationSyscall(c, r)
    PROVE  Lawful
<1>1. PICK cap : cap = CapAt(current, c)
  OBVIOUS
<1>2. CASE Signal(c, r)
  <2> DEFINE checks == <<InvokeError(current, c, "Notification", "WRITE")>>
  <2>1. CASE Refused(checks, r)
    BY <2>1, RefusedLawful
  <2>2. CASE /\ Accepted(checks)
             /\ WakeWaiter(cap.id, cap.badge) \/ Accumulate(cap.id, cap.badge)
             /\ frame' = Success(r)
             /\ UNCHANGED <<conf, replyTo, current, active, endpoint, cnode>>
    <3>1. InvokeError(current, c, "Notification", "WRITE") = Ok
      BY <2>2 DEF Accepted
    <3>2. /\ cap.id \in NTFN /\ cap.badge \in Word
          /\ Holds("Notification", cap.id, "WRITE", cap.badge)
      <4>1. c \in Slot /\ cap.type = "Notification" /\ "WRITE" \in cap.rights
        BY <1>1, <3>1, LookupAccepted
      <4>2. cap.id \in NTFN /\ cap.badge \in Word
        BY <1>1, <3>1, LookedUp DEF StepInv
      <4> QED
        BY <1>1, <4>1, <4>2 DEF Holds
    <3>3. CASE WakeWaiter(cap.id, cap.badge)
      BY <2>2, <3>2, <3>3, WakeWaiterLawful
    <3>4. CASE Accumulate(cap.id, cap.badge)
      <4>1. /\ signals' = [signals EXCEPT ![cap.id] = @ \cup cap.badge]
            /\ UNCHANGED <<threadVars, ready, current, active, endpoint, cnode>>
        BY <2>2, <3>4 DEF Accumulate, threadVars
      <4>2. Raised(cap.id) /\ \A k \in NTFN \ {cap.id} : signals'[k] = signals[k]
        <5>1. /\ signals'[cap.id] = signals[cap.id] \cup cap.badge
              /\ \A k \in NTFN \ {cap.id} : signals'[k] = signals[k]
          BY <3>2, <4>1 DEF StepInv, Inv, TypeOK
        <5>2. waiters[cap.id] = <<>>
          BY <3>4 DEF Accumulate
        <5> QED
          BY <3>2, <5>1, <5>2 DEF Raised
      <4>3. SignalsKept /\ SlotsKept
        <5>1. BitsMoved
          BY <4>2 DEF BitsMoved
        <5>2. BitsTold
          BY <2>2, Unbadged DEF BitsTold, Told, Untold
        <5> QED
          BY <4>1, <5>1, <5>2 DEF SignalsKept, SlotsKept
      <4>4. frame'.from = current
        BY <2>2 DEF Success, Frame
      <4> QED
        BY <4>1, <4>3, <4>4, KeepsHart
    <3> QED
      BY <2>2, <3>3, <3>4
  <2> QED
    BY <1>1, <1>2, <2>1, <2>2 DEF Signal
<1>3. CASE Wait(c, r) \/ Poll(c, r)
  <2>1. CASE Refused(WaitChecks(c), r)
    BY <2>1, RefusedLawful
  <2>2. CASE Accepted(WaitChecks(c)) /\ (ConsumeSignals(cap.id, r) \/ QueueWaiter(cap.id, r))
    <3>1. InvokeError(current, c, "Notification", "READ") = Ok
      BY <2>2 DEF WaitChecks, Accepted
    <3>2. cap.id \in NTFN
      BY <1>1, <3>1, LookedUp DEF StepInv
    <3> QED
      BY <2>2, <3>2, ConsumeLawful, QueueWaiterLawful
  <2> QED
    BY <1>1, <1>3, <2>1, <2>2 DEF Wait, Poll
<1> QED
  BY <1>2, <1>3 DEF NotificationSyscall

(***************************************************************************)
(* The other syscalls                                                      *)
(***************************************************************************)

\* A CNode operation that replaces no capability.
LEMMA UpdateLawful ==
    ASSUME StepInv, current # None, NEW r \in Frame, r.from = current, r.mr0 = Own, NEW checks, NEW slots,
           Accepted(checks) /\ cnode' = slots => SlotsKept, Update(checks, slots, r)
    PROVE  Lawful
<1>1. CASE Refused(checks, r)
  BY <1>1, RefusedLawful
<1>2. CASE /\ Accepted(checks) /\ cnode' = slots /\ frame' = Success(r)
           /\ UNCHANGED <<threadVars, ready, current, active, ipcVars>>
  <2>1. frame'.from = current
    BY <1>2 DEF Success, Frame
  <2>2. SlotsKept /\ SignalsKept /\ endpoint' = endpoint
    BY <1>2, Unbadged, NoBits DEF ipcVars
  <2> QED
    BY <1>2, <2>1, <2>2, KeepsHart
<1> QED
  BY <1>1, <1>2 DEF Update

\* A slot that passes the check on a destination is empty.
LEMMA FreeSlot ==
    ASSUME NEW k \in CNODE, NEW s, FreeError(k, s) = Ok
    PROVE  s \in Slot /\ cnode[k][s] = Null
  BY DEF FreeError, SlotAt, Ok

\* Mint, Copy, Move, Delete and CopyCross.
LEMMA CNodeLawful ==
    ASSUME StepInv, current # None, NEW r \in Frame, r.from = current, r.mr0 = Own, NEW c, CNodeSyscall(c, r)
    PROVE  Lawful
<1>1. PICK k : k = CapAt(current, c).id
  OBVIOUS
<1>2. TypeOK /\ (TypeError(current, c, "CNode") = Ok => k \in CNODE)
  BY <1>1, NamedTable DEF StepInv, Inv
<1>3. ASSUME NEW src, NEW dest, NEW rights, NEW badge, Mint(c, src, dest, rights, badge, r)
      PROVE  Lawful
  <2>1. PICK source, cap : source = SlotAt(k, src) /\ cap = Attenuate(source, rights, badge)
    OBVIOUS
  <2> DEFINE checks == <<TypeError(current, c, "CNode"), SourceError(k, src),
                         IF rights \subseteq source.rights THEN Ok ELSE "IllegalOperation",
                         IF Mintable(source) THEN Ok ELSE "IllegalOperation",
                         FreeError(k, dest)>>
  <2> DEFINE slots == [cnode EXCEPT ![k][dest] = cap]
  <2>2. ASSUME Accepted(checks), cnode' = slots
        PROVE  SlotsKept
    <3>1. TypeError(current, c, "CNode") = Ok /\ FreeError(k, dest) = Ok
      <4>1. checks[1] = Ok /\ checks[5] = Ok
        <5>1. ASSUME NEW a1, NEW a2, NEW a3, NEW a4, NEW a5, Accepted(<<a1, a2, a3, a4, a5>>)
              PROVE  a1 = Ok /\ a5 = Ok
          BY <5>1 DEF Accepted
        <5> QED
          BY <5>1, <2>2
      <4> QED
        BY <4>1
    <3>2. k \in CNODE /\ dest \in Slot /\ cnode[k][dest] = Null
      BY <3>1, <1>2, FreeSlot
    <3> QED
      BY <3>2, <2>2, <1>2, OneSlot
  <2>3. Update(checks, slots, r)
    BY <1>1, <1>3, <2>1 DEF Mint
  <2> HIDE DEF checks, slots
  <2> QED
    BY <2>2, <2>3, UpdateLawful
<1>4. ASSUME NEW src, NEW dest, Copy(c, src, dest, r)
      PROVE  Lawful
  <2> DEFINE checks == <<TypeError(current, c, "CNode"), SourceError(k, src), FreeError(k, dest)>>
  <2> DEFINE slots == [cnode EXCEPT ![k][dest] = SlotAt(k, src)]
  <2>1. ASSUME Accepted(checks), cnode' = slots
        PROVE  SlotsKept
    <3>1. TypeError(current, c, "CNode") = Ok /\ FreeError(k, dest) = Ok
      BY <2>1 DEF Accepted
    <3>2. k \in CNODE /\ dest \in Slot /\ cnode[k][dest] = Null
      BY <3>1, <1>2, FreeSlot
    <3> QED
      BY <3>2, <2>1, <1>2, OneSlot
  <2>2. Update(checks, slots, r)
    BY <1>1, <1>4 DEF Copy
  <2> HIDE DEF checks, slots
  <2> QED
    BY <2>1, <2>2, UpdateLawful
<1>5. ASSUME NEW src, NEW dest, Move(c, src, dest, r)
      PROVE  Lawful
  <2> DEFINE checks == <<TypeError(current, c, "CNode"), SourceError(k, src), FreeError(k, dest)>>
  <2> DEFINE slots == [cnode EXCEPT ![k][dest] = SlotAt(k, src), ![k][src] = Null]
  <2>1. ASSUME Accepted(checks), cnode' = slots
        PROVE  SlotsKept
    <3>1. TypeError(current, c, "CNode") = Ok /\ FreeError(k, dest) = Ok /\ SourceError(k, src) = Ok
      BY <2>1 DEF Accepted
    <3>2. k \in CNODE /\ dest \in Slot /\ cnode[k][dest] = Null /\ src \in Slot
      BY <3>1, <1>2, FreeSlot, SlotErrors
    <3>3. SlotAt(k, src) = cnode[k][src] /\ cnode[k][src] # Null
      BY <3>1, <3>2 DEF SourceError, SlotAt, Ok
    <3>4. src # dest
      BY <3>2, <3>3
    <3> QED
      BY <2>1, <3>2, <3>3, <3>4, <1>2, OneMove
  <2>2. Update(checks, slots, r)
    BY <1>1, <1>5 DEF Move
  <2> HIDE DEF checks, slots
  <2> QED
    BY <2>1, <2>2, UpdateLawful
<1>6. ASSUME NEW src, Delete(c, src, r)
      PROVE  Lawful
  <2> DEFINE checks == <<TypeError(current, c, "CNode"), SourceError(k, src)>>
  <2> DEFINE slots == [cnode EXCEPT ![k][src] = Null]
  <2>1. ASSUME Accepted(checks), cnode' = slots
        PROVE  SlotsKept
    <3>1. TypeError(current, c, "CNode") = Ok /\ SourceError(k, src) = Ok
      BY <2>1 DEF Accepted
    <3>2. k \in CNODE /\ src \in Slot
      BY <3>1, <1>2, SlotErrors
    <3> QED
      BY <3>2, <2>1, <1>2, OneSlot
  <2>2. Update(checks, slots, r)
    BY <1>1, <1>6 DEF Delete
  <2> HIDE DEF checks, slots
  <2> QED
    BY <2>1, <2>2, UpdateLawful
<1>7. ASSUME NEW from, NEW src, NEW dest, CopyCross(c, from, src, dest, r)
      PROVE  Lawful
  <2>1. PICK j : j = CapAt(current, from).id
    OBVIOUS
  <2> DEFINE checks == <<TypeError(current, c, "CNode"), TypeError(current, from, "CNode"),
                         SourceError(j, src), FreeError(k, dest)>>
  <2> DEFINE slots == [cnode EXCEPT ![k][dest] = SlotAt(j, src)]
  <2>2. ASSUME Accepted(checks), cnode' = slots
        PROVE  SlotsKept
    <3>1. TypeError(current, c, "CNode") = Ok /\ FreeError(k, dest) = Ok
      BY <2>2 DEF Accepted
    <3>2. k \in CNODE /\ dest \in Slot /\ cnode[k][dest] = Null
      BY <3>1, <1>2, FreeSlot
    <3> QED
      BY <3>2, <2>2, <1>2, OneSlot
  <2>3. Update(checks, slots, r)
    BY <1>1, <1>7, <2>1 DEF CopyCross
  <2> HIDE DEF checks, slots
  <2> QED
    BY <2>2, <2>3, UpdateLawful
<1>8. ASSUME Revoke(c, r) \/ OtherLabel(c, r)
      PROVE  Lawful
  BY <1>8, RefusedLawful DEF Revoke, OtherLabel
<1> QED
  BY <1>3, <1>4, <1>5, <1>6, <1>7, <1>8 DEF CNodeSyscall

\* A thread is configured; it joins the scheduler if it was Inactive.
LEMMA ConfigureLawful ==
    ASSUME StepInv, current # None, NEW r \in Frame, r.from = current, r.mr0 = Own,
           NEW c, NEW cs, NEW sc, NEW vs, TCBConfigure(c, cs, sc, vs, r)
    PROVE  Lawful
<1> DEFINE checks == ConfigureChecks(c, cs, sc, vs)
<1>1. CASE Refused(checks, r)
  BY <1>1, RefusedLawful
<1>2. CASE ~Refused(checks, r)
  <2>1. PICK target : target = CapAt(current, c).id
    OBVIOUS
  <2>2. /\ Accepted(checks)
        /\ \/ tstate[target] = Inactive /\ tstate' = MarkReady(tstate, target)
           \/ tstate' = tstate
        /\ frame' = Success(r)
        /\ UNCHANGED <<ctx, replyTo, current, active, endpoint, signals, waiters, cnode>>
    BY <1>2, <2>1 DEF TCBConfigure, ipcVars
  <2>3. \A t \in TCB : \/ tstate'[t] = tstate[t]
                       \/ tstate[t] = Inactive /\ tstate'[t] = Ready
    BY <2>2 DEF MarkReady, StepInv, Inv, TypeOK
  <2>4. NobodyMoves(Peers) /\ SleepersWake
    BY <2>3 DEF NobodyMoves, Peers, SleepersWake, Inactive, Ready
  <2>5. /\ MessageIntact' /\ PartnersWake /\ LinksKept
        /\ UNCHANGED <<Calling, Awaiting>>
    BY <2>2, <2>4, PeersStay
  <2>6. SignalsKept /\ SlotsKept
    BY <2>2, Unbadged, NoBits DEF SlotsKept
  <2>7. TranslationKept
    <3>1. CASE conf'[current] # conf[current]
      BY <2>2, <3>1 DEF TranslationKept
    <3>2. CASE conf'[current] = conf[current]
      <4>1. Translated' = Translated
        BY <2>2, <3>2 DEF Translated
      <4> QED
        BY <2>2, <4>1 DEF TranslationKept
    <3> QED
      BY <3>1, <3>2
  <2>8. UNCHANGED <<Offers, Listeners>>
    BY <2>2 DEF Offers, Listeners, Side
  <2>9. \A t \in TCB : Registers(t)'.from = IF t = current THEN current ELSE Registers(t).from
    <3>1. frame'.from = current
      BY <2>2 DEF Success, Frame
    <3> QED
      BY <2>2, <3>1 DEF Registers
  <2>10. RendezvousStep
    BY <2>2, <2>5, <2>8, <2>9, MovesOn DEF StepInv
  <2> QED
    BY <2>4, <2>5, <2>6, <2>7, <2>10 DEF Lawful
<1> QED
  BY <1>1, <1>2

\* The hart goes to the first ready thread, which may be the one that yields.
LEMMA YieldLawful ==
    ASSUME StepInv, current # None, NEW r \in Frame, r.from = current, r.mr0 = Own, Yield(r)
    PROVE  Lawful
<1>1. PICK queue, contexts :
         queue = PushBack(ready, current) /\ contexts = [ctx EXCEPT ![current] = r]
  OBVIOUS
<1>2. PICK next : next = Head(queue)
  OBVIOUS
<1>3. current \in TCB /\ tstate[current] = Running
  BY CurrentRuns DEF StepInv
<1>4. /\ tstate' = [MarkReady(tstate, current) EXCEPT ![next] = Running]
      /\ ctx' = contexts /\ current' = next
      /\ active' = IF conf[next].vspace = None THEN active ELSE conf[next].vspace
      /\ frame' = Success(contexts[next])
      /\ UNCHANGED <<conf, replyTo, endpoint, signals, waiters, cnode>>
  <2>1. Enqueue(tstate, ready, current) = queue
    BY <1>1, <1>3 DEF Enqueue, Ready, Running
  <2> QED
    BY <2>1, <1>1, <1>2 DEF Yield, Handover, ipcVars
<1>5. next \in TCB /\ next \in ReadyThreads \cup {current}
  <2>1. PICK S : S = ReadyThreads \cup {current}
    OBVIOUS
  <2>2. ready \in Seq(TCB) /\ Lists(ready, ReadyThreads) /\ current \notin ReadyThreads
    BY <1>3 DEF StepInv, Inv, TypeOK, SchedulerExact, ReadyThreads, Ready, Running
  <2>3. queue \in Seq(TCB) /\ queue # <<>> /\ Lists(queue, S)
    BY <1>1, <1>3, <2>1, <2>2, PushLists
  <2>4. Head(queue) \in TCB /\ Head(queue) \in S
    BY <2>3, TailLists
  <2> QED
    BY <1>2, <2>1, <2>4
<1>6. \A t \in TCB : \/ tstate'[t] = tstate[t]
                     \/ tstate[t] \in {Ready, Running} /\ tstate'[t] \in {Ready, Running}
  BY <1>3, <1>4, <1>5 DEF MarkReady, ReadyThreads, StepInv, Inv, TypeOK
<1>7. \A t \in TCB : contexts[t] = IF t = current THEN r ELSE ctx[t]
  BY <1>1 DEF StepInv, Inv, TypeOK
<1>8. NobodyMoves(Peers) /\ SleepersWake
  BY <1>6 DEF NobodyMoves, Peers, SleepersWake, Ready, Running
<1>9. \A t \in TCB : tstate[t].kind = "BlockedSend" => ctx'[t] = ctx[t]
  BY <1>3, <1>4, <1>7 DEF Running
<1>10. /\ MessageIntact' /\ PartnersWake /\ LinksKept
       /\ UNCHANGED <<Calling, Awaiting>>
  BY <1>4, <1>8, <1>9, PeersStay
<1>11. SignalsKept /\ SlotsKept
  <2>1. ASSUME next = current
        PROVE  Untold
    <3>1. contexts[next] = r
      BY <1>3, <1>7, <2>1
    <3> QED
      BY <1>4, <3>1, Unbadged
  <2> QED
    BY <1>4, <2>1, NoBits DEF SlotsKept
<1>12. TranslationKept
  BY <1>4, TranslationSwitched
<1>13. UNCHANGED <<Offers, Listeners>>
  BY <1>4 DEF Offers, Listeners, Side
<1>14. \A t \in TCB : Registers(t)'.from = IF t = current THEN current ELSE Registers(t).from
  <2>1. contexts[next] \in Frame
    BY <1>5, <1>7 DEF StepInv, Inv, TypeOK
  <2>2. frame'.from = contexts[next].from
    BY <1>4, <2>1 DEF Success, Frame
  <2>3. \A t \in TCB : Registers(t)'.from = contexts[t].from
    BY <1>4, <2>2 DEF Registers
  <2> QED
    BY <1>7, <2>3 DEF Registers
<1>15. RendezvousStep
  BY <1>4, <1>10, <1>13, <1>14, MovesOn DEF StepInv
<1> QED
  BY <1>8, <1>10, <1>11, <1>12, <1>15 DEF Lawful

(***************************************************************************)
(* Every step                                                              *)
(***************************************************************************)

\* While boot admits threads and enters the first, nobody waits for anything.
LEMMA BootLawful ==
    ASSUME StepInv, Boot
    PROVE  Lawful
<1>1. PICK t \in BootThreads : BootConfigure(t) \/ BootMakeReady(t) \/ EnterFirstThread(t)
  BY DEF Boot
<1>2. /\ t \in TCB /\ current = None
      /\ \A u \in TCB : tstate[u] \in {Inactive, Ready}
  BY <1>1, ProgramsAssumption
     DEF BootConfigure, BootMakeReady, EnterFirstThread, StepInv, Inv, SchedulerExact
<1>3. /\ UNCHANGED <<ctx, replyTo, endpoint, signals, waiters, cnode>>
      /\ \/ tstate' = MarkReady(tstate, t)
         \/ tstate' = tstate
         \/ tstate' = [tstate EXCEPT ![t] = Running]
      /\ \/ current' = current
         \/ /\ current' = t /\ frame' = ctx[t] /\ conf' = conf
            /\ active' = IF conf[t].vspace = None THEN active ELSE conf[t].vspace
  BY <1>1 DEF BootConfigure, BootMakeReady, EnterFirstThread, hartVars, ipcVars
<1>4. \A u \in TCB : tstate'[u] \in {Inactive, Ready, Running}
  BY <1>2, <1>3 DEF MarkReady, StepInv, Inv, TypeOK
<1>5. \A u \in TCB : /\ tstate[u].kind \in {"Inactive", "Ready"}
                     /\ tstate'[u].kind \in {"Inactive", "Ready", "Running"}
  BY <1>2, <1>4 DEF Inactive, Ready, Running
<1>6. MessageIntact' /\ PartnersWake /\ SleepersWake
  BY <1>5 DEF MessageIntact, PartnersWake, SleepersWake
<1>7. SignalsKept /\ SlotsKept /\ LinksKept
  BY <1>2, <1>3, NoBits DEF SlotsKept, LinksKept
<1>8. TranslationKept
  <2>1. CASE current' = current
    BY <1>2, <2>1 DEF TranslationKept, Translated
  <2>2. CASE current' # current
    BY <1>3, <2>2, TranslationSwitched
  <2> QED
    BY <2>1, <2>2
<1>9. UNCHANGED <<Offers, Listeners, Calling, Awaiting>>
  <2>1. UNCHANGED <<Offers, Listeners>>
    BY <1>3 DEF Offers, Listeners, Side
  <2>2. UNCHANGED <<Calling, Awaiting>>
    BY <1>5 DEF Calling, Awaiting
  <2> QED
    BY <2>1, <2>2
<1>10. Heard' = Heard
  <2>1. \A u \in TCB : Registers(u) = ctx[u]
    BY <1>2, NoneAssumption DEF Registers
  <2>2. \A u \in TCB : Registers(u)' = ctx[u]
    BY <1>2, <1>3, NoneAssumption DEF Registers
  <2> QED
    BY <2>1, <2>2 DEF Heard
<1>11. RendezvousStep
  BY <1>3, <1>9, <1>10 DEF RendezvousStep
<1> QED
  BY <1>6, <1>7, <1>8, <1>11 DEF Lawful

\* Every step of the kernel keeps what it is to keep.
LEMMA NextLawful == StepInv /\ Next => Lawful
<1> SUFFICES ASSUME StepInv, Next
             PROVE  Lawful
  OBVIOUS
<1>1. CASE Boot
  BY <1>1, BootLawful
<1>2. CASE Trap
  <2>1. PICK xc \in ExtraCaps, err \in Flags : Dispatch(Request(current, xc, err))
    BY <1>2 DEF Trap
  <2>2. PICK r : r = Request(current, xc, err)
    OBVIOUS
  <2>3. current # None /\ r \in Frame /\ r.from = current /\ r.mr0 = Own
    <3>1. current # None /\ current \in TCB
      BY <1>2, CurrentRuns DEF Trap, StepInv
    <3>2. Request(current, xc, err) \in Frame
      BY <3>1, RequestType, ProgramsAssumption
    <3> QED
      BY <2>2, <3>1, <3>2 DEF Request
  <2>4. SlotWords(r) \subseteq Nat /\ Dispatch(r)
    BY <2>1, <2>2, ProgramsAssumption DEF SlotWords
  <2>5. ASSUME NEW c \in CPtrs, NEW m \in SlotWords(r), EndpointSyscall(c, m, r)
        PROVE  Lawful
    BY <2>3, <2>4, <2>5, EndpointLawful
  <2>6. ASSUME NEW m \in SlotWords(r), Reply(m, r)
        PROVE  Lawful
    BY <2>3, <2>6, ReplyLawful
  <2>7. ASSUME NEW c \in CPtrs, NotificationSyscall(c, r) \/ CNodeSyscall(c, r)
        PROVE  Lawful
    BY <2>3, <2>7, NotificationLawful, CNodeLawful
  <2>8. ASSUME NEW w \in Configures, TCBConfigure(w[1], w[2], w[3], w[4], r)
        PROVE  Lawful
    BY <2>3, <2>8, ConfigureLawful
  <2>9. CASE Yield(r)
    BY <2>3, <2>9, YieldLawful
  <2>10. CASE UnknownSyscall(r)
    BY <2>3, <2>10, RefusedLawful DEF UnknownSyscall
  <2> QED
    BY <2>4, <2>5, <2>6, <2>7, <2>8, <2>9, <2>10 DEF Dispatch
<1> QED
  BY <1>1, <1>2 DEF Next

\* Where nothing happens, no message is touched.
LEMMA StutterLawful ==
    ASSUME StepInv, UNCHANGED vars
    PROVE  MessageIntact' /\ UNCHANGED <<Offers, Listeners, Calling, Awaiting, replyTo, Heard>>
<1>1. UNCHANGED <<tstate, ctx, replyTo, current, frame, endpoint>>
  BY DEF vars
<1>2. MessageIntact'
  BY <1>1, IntactKept DEF StepInv
<1>3. UNCHANGED <<Offers, Listeners, Calling, Awaiting, replyTo, Heard>>
  BY <1>1 DEF Offers, Listeners, Side, Calling, Awaiting, Heard, Registers
<1> QED
  BY <1>2, <1>3

\* At the start nobody has sent, and the promise is fresh.
LEMMA InitLawful == Init => StepInv /\ Promise!Init
<1> SUFFICES ASSUME Init
             PROVE  StepInv /\ Promise!Init
  OBVIOUS
<1>1. Inv
  BY InitInv
<1>2. \A t \in TCB : tstate[t].kind = "Inactive"
  BY DEF Init, Inactive
<1>3. MessageIntact
  BY <1>2 DEF MessageIntact
<1>4. Offers = [e \in ENDPOINT |-> <<>>] /\ Listeners = [e \in ENDPOINT |-> <<>>]
  BY DEF Init, EmptyQueue, Offers, Listeners, Side
<1>5. Calling = {} /\ Awaiting = {}
  BY <1>2 DEF Calling, Awaiting
<1>6. Heard = [t \in TCB |-> t]
  <2>1. \A t \in TCB : Registers(t).from = t
    BY NoneAssumption DEF Init, Registers, Zeroed
  <2> QED
    BY <2>1 DEF Heard
<1>7. Promise!Init
  BY <1>4, <1>5, <1>6 DEF Init, Promise!Init, Offers, Listeners, Calling, Awaiting, Heard
<1> QED
  BY <1>1, <1>3, <1>7 DEF StepInv

\* A queued sender's message stays what it was when the sender queued.
THEOREM MessagesIntact == Spec => []StepInv
<1>1. Init => StepInv
  BY InitLawful
<1>2. StepInv /\ [Next]_vars => StepInv'
  <2>1. StepInv => Inv
    BY DEF StepInv
  <2>2. StepInv /\ [Next]_vars => MessageIntact'
    BY NextLawful, StutterLawful DEF Lawful
  <2>3. Inv' /\ MessageIntact' => StepInv'
    BY DEF StepInv
  <2> QED
    BY <2>1, <2>2, <2>3, NextInv
<1> QED
  BY <1>1, <1>2, PTL DEF Spec

\* Nobody leaves Recv, Send or Call but by what it waits for: the receiver gets
\* the badge of a capability its sender holds and the capability that was counted;
\* the sender is taken whole; the caller is answered by the thread that owes it.
THEOREM WokenCorrect == Spec => WokenByPartner
<1>1. StepInv /\ [Next]_vars => [PartnersWake]_vars
  BY NextLawful DEF Lawful
<1> QED
  BY <1>1, MessagesIntact, PTL DEF Spec, WokenByPartner

\* A thread leaves Wait only with the bits that were pending and the signaller's.
THEOREM SleepersCorrect == Spec => SleepersWoken
<1>1. StepInv /\ [Next]_vars => [SleepersWake]_vars
  BY NextLawful DEF Lawful
<1> QED
  BY <1>1, MessagesIntact, PTL DEF Spec, SleepersWoken

\* However the hart changes hands, the translation goes with it.
THEOREM TranslationCorrect == Spec => TranslationFollows
<1>1. StepInv /\ [Next]_vars => [TranslationKept]_vars
  BY NextLawful DEF Lawful
<1> QED
  BY <1>1, MessagesIntact, PTL DEF Spec, TranslationFollows

\* Pending bits are taken whole by the one thread that asked for them, come from the
\* badge of a signaller, and are shown to nobody while they stay pending.
THEOREM SignalsCorrect == Spec => SignalsConserved
<1>1. StepInv /\ [Next]_vars => [SignalsKept]_vars
  BY NextLawful DEF Lawful
<1> QED
  BY <1>1, MessagesIntact, PTL DEF Spec, SignalsConserved

\* No step replaces a capability: it changes one slot, or moves one capability to an
\* empty slot and changes nothing else.
THEOREM SlotsCorrect == Spec => SlotsNeverReplaced
<1>1. StepInv /\ [Next]_vars => [SlotsKept]_vars
  BY NextLawful DEF Lawful
<1> QED
  BY <1>1, MessagesIntact, PTL DEF Spec, SlotsNeverReplaced

\* A reply link is spent only by the resumption of the caller it names.
THEOREM LinksCorrect == Spec => LinksNotDropped
<1>1. StepInv /\ [Next]_vars => [LinksKept]_vars
  BY NextLawful DEF Lawful
<1> QED
  BY <1>1, MessagesIntact, PTL DEF Spec, LinksNotDropped

\* Whatever syscalls the threads make, their messages are a behaviour of the
\* abstract Rendezvous, for any number of threads, endpoints and capabilities.
THEOREM RendezvousCorrect == Spec => RendezvousKept
<1>1. Init => Promise!Init
  BY InitLawful
<1>2. StepInv /\ [Next]_vars => [Promise!Next]_(Promise!rendezvousVars)
  BY NextLawful, StutterLawful
     DEF Lawful, RendezvousStep, Promise!rendezvousVars, Offers, Listeners, Calling, Awaiting, Heard
<1> QED
  BY <1>1, <1>2, MessagesIntact, PTL DEF Spec, RendezvousKept, Promise!Spec
===============================================================================
