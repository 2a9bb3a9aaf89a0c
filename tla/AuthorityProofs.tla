--------------------------- MODULE AuthorityProofs --------------------------
(***************************************************************************)
(* Proof that authority is confined: no sequence of mints, copies, moves   *)
(* and transfers gives a protection domain more than it started with, plus *)
(* what others could grant.  The argument: a capability derived from a     *)
(* confined one is confined; a CNode capability never carries GRANT, so it *)
(* never leaves its domain and only opens CNodes of that domain; and what  *)
(* crosses domains carries GRANT, which its origin must have carried.      *)
(* Then, that authority is needed: nothing is done to an object but by a   *)
(* thread that names it with the right to.                                 *)
(***************************************************************************)
EXTENDS KernelProofs

(***************************************************************************)
(* The argument is made for any family of sets may, of the capabilities    *)
(* that each CNode may hold, that the kernel's operations cannot lead out  *)
(* of: an attenuated copy may be where its source is, what carries GRANT   *)
(* may be anywhere, and a CNode capability only opens CNodes that may hold *)
(* the same.                                                               *)
(***************************************************************************)
Closed(may) ==
    /\ \A k \in CNODE, cap \in Capability : \A source \in may[k] :
          DerivedFrom(cap, source) => cap \in may[k]
    /\ \A j, k \in CNODE : \A cap \in may[k] : "GRANT" \in cap.rights => cap \in may[j]
    /\ \A k \in CNODE : \A cap \in may[k] : cap.type = "CNode" => may[cap.id] = may[k]

SlotsWithin(may, tables) ==
    \A k \in CNODE, s \in Slot : tables[k][s] = Null \/ tables[k][s] \in may[k]

FlightWithin(may, states) ==
    \A t \in TCB :
       states[t].kind = "BlockedSend" /\ states[t].extra_cap # None =>
          /\ "GRANT" \in states[t].extra_cap.rights
          /\ \A k \in CNODE : states[t].extra_cap \in may[k]

Within(may) == SlotsWithin(may, cnode) /\ FlightWithin(may, tstate)

\* What a lookup answers is confined to the domain of the thread's CSpace.
LEMMA CapAtConfined ==
    ASSUME Inv, NEW may, Closed(may), SlotsWithin(may, cnode),
           NEW t \in TCB, NEW c, CapAt(t, c) # Null
    PROVE  /\ conf[t].cspace \in CNODE
           /\ CapAt(t, c) \in may[conf[t].cspace]
<1>1. conf[t].cspace # None /\ c \in Slot /\ CapAt(t, c) = cnode[conf[t].cspace][c]
  BY DEF CapAt
<1>2. conf[t].cspace \in CNODE
  BY <1>1 DEF Inv, TypeOK, Config
<1> QED
  BY <1>1, <1>2 DEF SlotsWithin

(***************************************************************************)
(* Transfers                                                               *)
(***************************************************************************)

\* A confined capability put into one slot leaves the slots confined.
LEMMA SlotFilled ==
    ASSUME Inv, NEW may, Closed(may), SlotsWithin(may, cnode),
           NEW k \in CNODE, NEW s \in Slot, NEW cap,
           cap = Null \/ cap \in may[k]
    PROVE  SlotsWithin(may, [cnode EXCEPT ![k][s] = cap])
<1> DEFINE tables == [cnode EXCEPT ![k][s] = cap]
<1>1. \A j \in CNODE, d \in Slot :
         tables[j][d] = IF j = k /\ d = s THEN cap ELSE cnode[j][d]
  BY DEF Inv, TypeOK, CNodeTable
<1> QED
  BY <1>1 DEF SlotsWithin

\* A transfer that is accepted leaves the slots confined.
LEMMA PlaceConfined ==
    ASSUME Inv, NEW may, Closed(may), SlotsWithin(may, cnode),
           NEW t \in TCB, NEW dest, NEW cap,
           PlaceError(t, dest, cap) = Ok,
           cap = None \/ \A k \in CNODE : cap \in may[k]
    PROVE  SlotsWithin(may, Place(t, dest, cap))
<1>1. CASE cap = None
  BY <1>1 DEF Place
<1>2. CASE cap # None
  <2>1. conf[t].cspace \in CNODE /\ dest \in Slot
    BY <1>2 DEF PlaceError, Inv, TypeOK, Config, Ok
  <2> QED
    BY <1>2, <2>1, SlotFilled DEF Place
<1> QED
  BY <1>1, <1>2

\* The capability a sender attaches carries GRANT, and so may go anywhere.
LEMMA ExtraCapConfined ==
    ASSUME Inv, NEW may, Closed(may), SlotsWithin(may, cnode),
           current # None, NEW m, NEW r, ExtraCapError(m, r) = Ok
    PROVE  \/ ExtraCap(m, r) = None
           \/ /\ "GRANT" \in ExtraCap(m, r).rights
              /\ \A k \in CNODE : ExtraCap(m, r) \in may[k]
<1>1. CASE r.xc # 1
  BY <1>1 DEF ExtraCap
<1>2. CASE r.xc = 1
  <2>1. /\ ExtraCap(m, r) = CapAt(current, m) /\ CapAt(current, m) # Null
        /\ "GRANT" \in CapAt(current, m).rights
    BY <1>2 DEF ExtraCapError, ExtraCap, LookupError, Ok
  <2>2. CapAt(current, m) \in may[conf[current].cspace]
    BY <2>1, CurrentRuns, CapAtConfined
  <2>3. conf[current].cspace \in CNODE
    BY <2>1, CurrentRuns, CapAtConfined
  <2> QED
    BY <2>1, <2>2, <2>3 DEF Closed
<1> QED
  BY <1>1, <1>2

\* Nobody but a thread that queues on an endpoint as a sender sets a capability
\* on its way.
LEMMA FlightKept ==
    ASSUME NEW may, FlightWithin(may, tstate), NEW mine, mine.kind # "BlockedSend",
           \A t \in TCB : tstate'[t] \in {tstate[t], Ready, Running, mine}
    PROVE  FlightWithin(may, tstate')
  BY DEF FlightWithin, Ready, Running

\* Send and NBSend to a waiting receiver keep authority confined (ipc::send).
LEMMA SendToReceiverConfined ==
    ASSUME Inv, NEW may, Closed(may), Within(may),
           current # None, NEW m, NEW r, NEW cap, cap.id \in ENDPOINT,
           ExtraCapError(m, r) = Ok,
           SendToReceiver(cap, m, r) \/ CallReceiver(cap, m, r)
    PROVE  SlotsWithin(may, cnode') /\ FlightWithin(may, tstate')
<1> DEFINE t == Head(endpoint[cap.id].q)
<1> DEFINE mine == BlockedReply(IF r.xc = 2 THEN m ELSE None)
<1> DEFINE checks == <<PlaceError(t, RecvDest(t), ExtraCap(m, r))>>
<1>1. SlotsWithin(may, cnode) /\ FlightWithin(may, tstate)
  BY DEF Within
<1>2. CASE Refused(checks, r)
  BY <1>1, <1>2 DEF Refused, threadVars
<1>3. CASE ~Refused(checks, r)
  <2>1. /\ endpoint[cap.id].side = "Recv"
        /\ PlaceError(t, RecvDest(t), ExtraCap(m, r)) = Ok
        /\ cnode' = Place(t, RecvDest(t), ExtraCap(m, r))
        /\ \/ tstate' = [tstate EXCEPT ![t] = Ready]
           \/ tstate' = [[tstate EXCEPT ![current] = mine] EXCEPT ![t] = Running]
    <3>1. CASE SendToReceiver(cap, m, r)
      <4>1. /\ Accepted(checks) /\ endpoint[cap.id].side = "Recv"
            /\ cnode' = Place(t, RecvDest(t), ExtraCap(m, r)) /\ tstate' = MarkReady(tstate, t)
        BY <1>3, <3>1 DEF SendToReceiver
      <4> QED
        BY <4>1 DEF Accepted, MarkReady
    <3>2. CASE CallReceiver(cap, m, r)
      <4>1. /\ Accepted(checks) /\ endpoint[cap.id].side = "Recv"
            /\ cnode' = Place(t, RecvDest(t), ExtraCap(m, r))
            /\ tstate' = [[tstate EXCEPT ![current] = mine] EXCEPT ![t] = Running]
        BY <1>3, <3>2 DEF CallReceiver, SwitchTo, Handover
      <4> QED
        BY <4>1 DEF Accepted
    <3> QED
      BY <3>1, <3>2
  <2>2. t \in TCB
    BY <2>1, HeadBlocked DEF Inv
  <2>3. mine.kind # "BlockedSend"
    BY DEF BlockedReply
  <2> HIDE DEF t, mine
  <2>4. SlotsWithin(may, cnode')
    BY <1>1, <2>1, <2>2, ExtraCapConfined, PlaceConfined
  <2>5. \A u \in TCB : tstate'[u] \in {tstate[u], Ready, Running, mine}
    BY <2>1, <2>2 DEF Inv, TypeOK
  <2> QED
    BY <1>1, <2>3, <2>4, <2>5, FlightKept
<1> QED
  BY <1>2, <1>3

\* A sender that queues carries a capability it may grant (ipc::send, call).
LEMMA QueueSenderConfined ==
    ASSUME Inv, NEW may, Closed(may), Within(may),
           current # None, NEW m, NEW r, NEW cap, NEW isCall,
           ExtraCapError(m, r) = Ok, QueueSender(cap, m, r, isCall)
    PROVE  SlotsWithin(may, cnode') /\ FlightWithin(may, tstate')
<1> DEFINE e == cap.id
<1> DEFINE dest == IF isCall /\ r.xc = 2 THEN m ELSE None
<1> DEFINE mine == BlockedSend(e, cap.badge, isCall, ExtraCap(m, r), dest)
<1> DEFINE checks == <<CanBlock, RoomIn(endpoint[e].q)>>
<1>1. SlotsWithin(may, cnode) /\ FlightWithin(may, tstate)
  BY DEF Within
<1>2. CASE Refused(checks, r)
  BY <1>1, <1>2 DEF Refused, threadVars
<1>3. CASE ~Refused(checks, r)
  <2>1. /\ cnode' = cnode
        /\ tstate' = [[tstate EXCEPT ![current] = mine] EXCEPT ![Head(ready)] = Running]
    BY <1>3 DEF QueueSender, BlockCurrent, SwitchTo, Handover
  <2>2. mine.kind = "BlockedSend" /\ mine.extra_cap = ExtraCap(m, r)
    BY DEF BlockedSend
  <2>3. \/ mine.extra_cap = None
        \/ "GRANT" \in mine.extra_cap.rights /\ \A k \in CNODE : mine.extra_cap \in may[k]
    BY <1>1, <2>2, ExtraCapConfined
  <2> HIDE DEF mine
  <2>4. \A u \in TCB : tstate'[u] \in {tstate[u], Running, mine}
    BY <2>1 DEF Inv, TypeOK
  <2>5. FlightWithin(may, tstate')
    BY <1>1, <2>3, <2>4 DEF FlightWithin, Running
  <2> QED
    BY <1>1, <2>1, <2>5
<1> QED
  BY <1>2, <1>3

\* A receiver that takes a queued message gains only what was granted (ipc::recv).
LEMMA TakeMessageConfined ==
    ASSUME Inv, NEW may, Closed(may), Within(may),
           current # None, NEW m, NEW r, NEW e \in ENDPOINT,
           TakeMessage(e, m, r)
    PROVE  SlotsWithin(may, cnode') /\ FlightWithin(may, tstate')
<1> DEFINE s == Head(endpoint[e].q)
<1> DEFINE mine == BlockedReply(tstate[s].reply_dest)
<1> DEFINE checks == <<TakeError(s, RecvSlot(m, r))>>
<1>1. SlotsWithin(may, cnode) /\ FlightWithin(may, tstate)
  BY DEF Within
<1>2. CASE Refused(checks, r)
  BY <1>1, <1>2 DEF Refused, threadVars
<1>3. CASE ~Refused(checks, r)
  <2>1. /\ endpoint[e].side = "Send" /\ TakeError(s, RecvSlot(m, r)) = Ok
        /\ cnode' = Place(current, RecvSlot(m, r), tstate[s].extra_cap)
        /\ tstate' = [tstate EXCEPT ![s] = Ready] \/ tstate' = [tstate EXCEPT ![s] = mine]
    BY <1>3 DEF TakeMessage, Accepted, MarkReady, ReleaseSender
  <2>2. s \in TCB /\ tstate[s].kind = "BlockedSend"
    BY <2>1, HeadBlocked DEF Inv
  <2>3. mine.kind # "BlockedSend"
    BY DEF BlockedReply
  <2>4. PlaceError(current, RecvSlot(m, r), tstate[s].extra_cap) = Ok
    BY <2>1, <2>2 DEF TakeError
  <2> HIDE DEF s, mine
  <2>5. tstate[s].extra_cap = None \/ \A k \in CNODE : tstate[s].extra_cap \in may[k]
    BY <1>1, <2>2 DEF FlightWithin
  <2>6. SlotsWithin(may, cnode')
    BY <1>1, <2>1, <2>4, <2>5, CurrentRuns, PlaceConfined
  <2>7. \A u \in TCB : tstate'[u] \in {tstate[u], Ready, Running, mine}
    BY <2>1, <2>2 DEF Inv, TypeOK
  <2> QED
    BY <1>1, <2>3, <2>6, <2>7, FlightKept
<1> QED
  BY <1>2, <1>3

\* A Reply passes on only what its sender may grant (ipc::reply).
LEMMA AnswerCallerConfined ==
    ASSUME Inv, NEW may, Closed(may), Within(may), current # None, NEW m, NEW r,
           replyTo[current] # None, ExtraCapError(m, r) = Ok,
           AnswerCaller(replyTo[current], m, r)
    PROVE  SlotsWithin(may, cnode') /\ FlightWithin(may, tstate')
<1> DEFINE t == replyTo[current]
<1> DEFINE checks == <<PlaceError(t, ReplyDest(t), ExtraCap(m, r))>>
<1>1. SlotsWithin(may, cnode) /\ FlightWithin(may, tstate)
  BY DEF Within
<1>2. CASE Refused(checks, r)
  BY <1>1, <1>2 DEF Refused, threadVars
<1>3. CASE ~Refused(checks, r)
  <2>1. /\ PlaceError(t, ReplyDest(t), ExtraCap(m, r)) = Ok
        /\ cnode' = Place(t, ReplyDest(t), ExtraCap(m, r))
        /\ tstate' = [[tstate EXCEPT ![current] = Ready] EXCEPT ![t] = Running]
    BY <1>3 DEF AnswerCaller, Accepted, MarkReady, SwitchTo, Handover
  <2>2. t \in TCB
    BY CurrentRuns DEF Inv, TypeOK
  <2> HIDE DEF t
  <2>3. SlotsWithin(may, cnode')
    BY <1>1, <2>1, <2>2, ExtraCapConfined, PlaceConfined
  <2>4. \A u \in TCB : tstate'[u] \in {tstate[u], Ready, Running, Ready}
    BY <2>1, <2>2 DEF Inv, TypeOK
  <2> QED
    BY <1>1, <2>3, <2>4, FlightKept DEF Ready
<1> QED
  BY <1>2, <1>3

(***************************************************************************)
(* Operations on CNodes                                                    *)
(***************************************************************************)

\* The CNode a thread names is in the domain of its own CSpace.
LEMMA NamedDomain ==
    ASSUME Inv, NEW may, Closed(may), SlotsWithin(may, cnode),
           current # None, NEW c,
           TypeError(current, c, "CNode") = Ok
    PROVE  /\ CapAt(current, c).id \in CNODE
           /\ may[CapAt(current, c).id] = may[conf[current].cspace]
<1> DEFINE cap == CapAt(current, c)
<1>1. cap # Null /\ cap.type = "CNode" /\ cap.id \in CNODE
  BY NamedTable, LookupAccepted
<1>2. conf[current].cspace \in CNODE /\ cap \in may[conf[current].cspace]
  BY <1>1, CurrentRuns, CapAtConfined
<1> HIDE DEF cap
<1>3. may[cap.id] = may[conf[current].cspace]
  BY <1>1, <1>2 DEF Closed
<1> QED
  BY <1>1, <1>3 DEF cap

\* A slot that a CNode operation may read holds a capability of its domain.
LEMMA SlotOrigin ==
    ASSUME Inv, NEW may, Closed(may), SlotsWithin(may, cnode),
           NEW k \in CNODE, NEW s, SourceError(k, s) = Ok
    PROVE  SlotAt(k, s) \in may[k]
  BY SlotErrors DEF SlotAt, SlotsWithin

\* A CNode operation leaves the slots as they were, or as it means to.
LEMMA UpdateConfined ==
    ASSUME NEW may, Within(may), NEW r, NEW checks, NEW slots,
           Accepted(checks) => SlotsWithin(may, slots), Update(checks, slots, r)
    PROVE  SlotsWithin(may, cnode') /\ FlightWithin(may, tstate')
<1>1. SlotsWithin(may, cnode) /\ FlightWithin(may, tstate)
  BY DEF Within
<1>2. tstate' = tstate /\ (cnode' = cnode \/ (Accepted(checks) /\ cnode' = slots))
  BY DEF Update, Refused, threadVars
<1> QED
  BY <1>1, <1>2

\* Every CNode operation keeps authority confined (cnode::invoke).
LEMMA CNodeConfined ==
    ASSUME Inv, NEW may, Closed(may), Within(may),
           current # None, NEW c, NEW r, CNodeSyscall(c, r)
    PROVE  SlotsWithin(may, cnode') /\ FlightWithin(may, tstate')
<1> DEFINE k == CapAt(current, c).id
<1>1. SlotsWithin(may, cnode) /\ FlightWithin(may, tstate)
  BY DEF Within
<1>2. ASSUME TypeError(current, c, "CNode") = Ok
      PROVE  k \in CNODE /\ may[k] = may[conf[current].cspace]
  BY <1>1, <1>2, NamedDomain
<1>3. ASSUME NEW src, NEW dest, NEW rights \in SUBSET Right, NEW badge \in Word,
             Mint(c, src, dest, rights, badge, r)
      PROVE  SlotsWithin(may, cnode') /\ FlightWithin(may, tstate')
  <2> DEFINE source == SlotAt(k, src)
  <2> DEFINE checks == <<TypeError(current, c, "CNode"), SourceError(k, src),
                         IF rights \subseteq source.rights THEN Ok ELSE "IllegalOperation",
                         IF Mintable(source) THEN Ok ELSE "IllegalOperation",
                         FreeError(k, dest)>>
  <2> DEFINE slots == [cnode EXCEPT ![k][dest] = Attenuate(source, rights, badge)]
  <2>1. ASSUME Accepted(checks)
        PROVE  SlotsWithin(may, slots)
    <3>1. ASSUME NEW a1, NEW a2, NEW a3, NEW a4, NEW a5, Accepted(<<a1, a2, a3, a4, a5>>)
          PROVE  a1 = Ok /\ a2 = Ok /\ a3 = Ok /\ a4 = Ok /\ a5 = Ok
      BY <3>1 DEF Accepted
    <3>2. /\ TypeError(current, c, "CNode") = Ok /\ SourceError(k, src) = Ok
          /\ (IF rights \subseteq source.rights THEN Ok ELSE "IllegalOperation") = Ok
          /\ (IF Mintable(source) THEN Ok ELSE "IllegalOperation") = Ok
          /\ FreeError(k, dest) = Ok
      BY <2>1, <3>1
    <3>3. /\ k \in CNODE /\ dest \in Slot /\ rights \subseteq source.rights
          /\ source \in may[k] /\ source \in Capability /\ Mintable(source)
      BY <1>1, <1>2, <3>2, SlotErrors, SlotOrigin, SlotType DEF Ok, Inv
    <3>4. DerivedFrom(Attenuate(source, rights, badge), source)
      BY <3>3 DEF DerivedFrom, Attenuate, Capability, Null, CNodeCap, RightsOnly, Badged
    <3>5. Attenuate(source, rights, badge) \in may[k]
      BY <3>3, <3>4, AttenuateType DEF Closed
    <3> QED
      BY <1>1, <3>3, <3>5, SlotFilled
  <2>2. Update(checks, slots, r)
    BY <1>3 DEF Mint
  <2> QED
    BY <2>1, <2>2, UpdateConfined
<1>4. ASSUME NEW src, NEW dest, Copy(c, src, dest, r)
      PROVE  SlotsWithin(may, cnode') /\ FlightWithin(may, tstate')
  <2> DEFINE checks ==
         <<TypeError(current, c, "CNode"), SourceError(k, src), FreeError(k, dest)>>
  <2> DEFINE slots == [cnode EXCEPT ![k][dest] = SlotAt(k, src)]
  <2>1. ASSUME Accepted(checks)
        PROVE  SlotsWithin(may, slots)
    <3>1. /\ TypeError(current, c, "CNode") = Ok /\ SourceError(k, src) = Ok
          /\ FreeError(k, dest) = Ok
      BY <2>1 DEF Accepted
    <3> QED
      BY <1>1, <1>2, <3>1, SlotErrors, SlotOrigin, SlotFilled
  <2>2. Update(checks, slots, r)
    BY <1>4 DEF Copy
  <2> QED
    BY <2>1, <2>2, UpdateConfined
<1>5. ASSUME NEW src, NEW dest, Move(c, src, dest, r)
      PROVE  SlotsWithin(may, cnode') /\ FlightWithin(may, tstate')
  <2> DEFINE checks ==
         <<TypeError(current, c, "CNode"), SourceError(k, src), FreeError(k, dest)>>
  <2> DEFINE slots == [cnode EXCEPT ![k][dest] = SlotAt(k, src), ![k][src] = Null]
  <2>1. ASSUME Accepted(checks)
        PROVE  SlotsWithin(may, slots)
    <3>1. /\ TypeError(current, c, "CNode") = Ok /\ SourceError(k, src) = Ok
          /\ FreeError(k, dest) = Ok
      BY <2>1 DEF Accepted
    <3>2. k \in CNODE /\ dest \in Slot /\ src \in Slot /\ SlotAt(k, src) \in may[k]
      BY <1>1, <1>2, <3>1, SlotErrors, SlotOrigin
    <3>3. \A j \in CNODE, s \in Slot :
             slots[j][s] = IF j = k /\ s = src THEN Null
                           ELSE IF j = k /\ s = dest THEN SlotAt(k, src) ELSE cnode[j][s]
      BY <3>2 DEF Inv, TypeOK, CNodeTable
    <3> HIDE DEF slots, k
    <3>4. ASSUME NEW j \in CNODE, NEW s \in Slot
          PROVE  slots[j][s] = Null \/ slots[j][s] \in may[j]
      <4>1. CASE j = k /\ s = src
        BY <3>3, <4>1
      <4>2. CASE j = k /\ s = dest /\ s # src
        BY <3>2, <3>3, <4>2
      <4>3. CASE j # k \/ (s # src /\ s # dest)
        BY <1>1, <3>3, <4>3 DEF SlotsWithin
      <4> QED
        BY <4>1, <4>2, <4>3
    <3> QED
      BY <3>4 DEF SlotsWithin
  <2>2. Update(checks, slots, r)
    BY <1>5 DEF Move
  <2> QED
    BY <2>1, <2>2, UpdateConfined
<1>6. ASSUME NEW src, Delete(c, src, r)
      PROVE  SlotsWithin(may, cnode') /\ FlightWithin(may, tstate')
  <2> DEFINE checks == <<TypeError(current, c, "CNode"), SourceError(k, src)>>
  <2> DEFINE slots == [cnode EXCEPT ![k][src] = Null]
  <2>1. ASSUME Accepted(checks)
        PROVE  SlotsWithin(may, slots)
    <3>1. TypeError(current, c, "CNode") = Ok /\ SourceError(k, src) = Ok
      BY <2>1 DEF Accepted
    <3>2. k \in CNODE /\ src \in Slot
      BY <1>2, <3>1, SlotErrors
    <3> QED
      BY <1>1, <3>2, SlotFilled
  <2>2. Update(checks, slots, r)
    BY <1>6 DEF Delete
  <2> QED
    BY <2>1, <2>2, UpdateConfined
<1>7. ASSUME NEW from, NEW src, NEW dest, CopyCross(c, from, src, dest, r)
      PROVE  SlotsWithin(may, cnode') /\ FlightWithin(may, tstate')
  <2> DEFINE j == CapAt(current, from).id
  <2> DEFINE checks == <<TypeError(current, c, "CNode"), TypeError(current, from, "CNode"),
                         SourceError(j, src), FreeError(k, dest)>>
  <2> DEFINE slots == [cnode EXCEPT ![k][dest] = SlotAt(j, src)]
  <2>1. ASSUME Accepted(checks)
        PROVE  SlotsWithin(may, slots)
    <3>1. /\ TypeError(current, c, "CNode") = Ok /\ TypeError(current, from, "CNode") = Ok
          /\ SourceError(j, src) = Ok /\ FreeError(k, dest) = Ok
      BY <2>1 DEF Accepted
    <3>2. j \in CNODE /\ may[j] = may[k] /\ k \in CNODE /\ dest \in Slot
      BY <1>1, <1>2, <3>1, NamedDomain, SlotErrors
    <3>3. SlotAt(j, src) \in may[k]
      BY <1>1, <3>1, <3>2, SlotOrigin
    <3> QED
      BY <1>1, <3>2, <3>3, SlotFilled
  <2>2. Update(checks, slots, r)
    BY <1>7 DEF CopyCross
  <2> QED
    BY <2>1, <2>2, UpdateConfined
<1>8. ASSUME Revoke(c, r) \/ OtherLabel(c, r)
      PROVE  SlotsWithin(may, cnode') /\ FlightWithin(may, tstate')
  BY <1>1, <1>8 DEF Revoke, OtherLabel, Refused, threadVars
<1>9. CASE \E src, dest \in Args, mint \in Mints : Mint(c, src, dest, mint[1], mint[2], r)
  <2>1. PICK src \in Args, dest \in Args, mint \in Mints :
          Mint(c, src, dest, mint[1], mint[2], r)
    BY <1>9
  <2>2. mint[1] \in SUBSET Right /\ mint[2] \in Word
    BY ProgramsAssumption
  <2> QED
    BY <1>3, <2>1, <2>2
<1> QED
  BY <1>4, <1>5, <1>6, <1>7, <1>8, <1>9 DEF CNodeSyscall

(***************************************************************************)
(* The other steps                                                         *)
(***************************************************************************)

\* A step that fills no slot and sends nothing.
LEMMA StillConfined ==
    ASSUME Inv, NEW may, Within(may), cnode' = cnode,
           NEW mine, mine.kind # "BlockedSend",
           \A t \in TCB : tstate'[t] \in {tstate[t], Ready, Running, mine}
    PROVE  SlotsWithin(may, cnode') /\ FlightWithin(may, tstate')
<1>1. SlotsWithin(may, cnode) /\ FlightWithin(may, tstate)
  BY DEF Within
<1> QED
  BY <1>1, FlightKept

\* A step that changes no slot and no thread state keeps authority confined.
LEMMA UntouchedConfined ==
    ASSUME NEW may, Within(may), UNCHANGED <<tstate, cnode>>
    PROVE  SlotsWithin(may, cnode') /\ FlightWithin(may, tstate')
  BY DEF Within

\* A refused syscall keeps authority confined.
LEMMA RefusedConfined ==
    ASSUME NEW may, Within(may), NEW checks, NEW r, Refused(checks, r)
    PROVE  SlotsWithin(may, cnode') /\ FlightWithin(may, tstate')
  BY UntouchedConfined DEF Refused, threadVars

\* Send, NBSend, Call and Recv keep authority confined.
LEMMA EndpointConfined ==
    ASSUME Inv, NEW may, Closed(may), Within(may),
           current # None, NEW r, NEW c, NEW m, EndpointSyscall(c, m, r)
    PROVE  SlotsWithin(may, cnode') /\ FlightWithin(may, tstate')
<1> DEFINE cap == CapAt(current, c)
<1>1. ASSUME NEW most, Accepted(SendChecks(c, m, r, most))
      PROVE  cap.id \in ENDPOINT /\ ExtraCapError(m, r) = Ok
  <2>1. /\ InvokeError(current, c, "Endpoint", "WRITE") = Ok /\ ExtraCapError(m, r) = Ok
    BY <1>1 DEF SendChecks, Accepted
  <2> QED
    BY <2>1, LookedUp
<1>2. CASE Send(c, m, r)
  BY <1>1, <1>2, RefusedConfined, SendToReceiverConfined, QueueSenderConfined DEF Send
<1>3. CASE NBSend(c, m, r)
  <2>1. CASE UNCHANGED <<threadVars, cnode>>
    BY <2>1, UntouchedConfined DEF threadVars
  <2> QED
    BY <1>1, <1>3, <2>1, RefusedConfined, SendToReceiverConfined DEF NBSend
<1>4. CASE Call(c, m, r)
  BY <1>1, <1>4, RefusedConfined, SendToReceiverConfined, QueueSenderConfined DEF Call
<1>5. CASE Recv(c, m, r)
  <2>1. CASE Refused(RecvChecks(c, r), r)
    BY <2>1, RefusedConfined
  <2>2. ASSUME Accepted(RecvChecks(c, r)), TakeMessage(cap.id, m, r)
        PROVE  SlotsWithin(may, cnode') /\ FlightWithin(may, tstate')
    <3>1. cap.id \in ENDPOINT
      BY <2>2, LookedUp DEF RecvChecks, Accepted
    <3> QED
      BY <3>1, <2>2, TakeMessageConfined
  <2>3. ASSUME QueueReceiver(cap.id, m, r)
        PROVE  SlotsWithin(may, cnode') /\ FlightWithin(may, tstate')
    <3> DEFINE mine == BlockedRecv(cap.id, RecvSlot(m, r))
    <3> DEFINE checks == <<CanBlock, RoomIn(endpoint[cap.id].q)>>
    <3>1. CASE Refused(checks, r)
      BY <3>1, RefusedConfined
    <3>2. CASE ~Refused(checks, r)
      <4>1. /\ cnode' = cnode
            /\ tstate' = [[tstate EXCEPT ![current] = mine] EXCEPT ![Head(ready)] = Running]
        BY <2>3, <3>2 DEF QueueReceiver, BlockCurrent, SwitchTo, Handover
      <4>2. mine.kind # "BlockedSend"
        BY DEF BlockedRecv
      <4> HIDE DEF mine
      <4>3. \A t \in TCB : tstate'[t] \in {tstate[t], Ready, Running, mine}
        BY <4>1 DEF Inv, TypeOK
      <4> QED
        BY <4>1, <4>2, <4>3, StillConfined
    <3> QED
      BY <3>1, <3>2
  <2> QED
    BY <1>5, <2>1, <2>2, <2>3 DEF Recv
<1> QED
  BY <1>2, <1>3, <1>4, <1>5 DEF EndpointSyscall

\* Signal, Wait and Poll keep authority confined.
LEMMA NotificationConfined ==
    ASSUME Inv, NEW may, Closed(may), Within(may),
           current # None, NEW r, NEW c, NotificationSyscall(c, r)
    PROVE  SlotsWithin(may, cnode') /\ FlightWithin(may, tstate')
<1> DEFINE n == CapAt(current, c).id
<1> DEFINE mine == BlockedWait(n)
<1>1. cnode' = cnode
  BY DEF NotificationSyscall, Signal, Wait, Poll, ConsumeSignals, QueueWaiter, Refused
<1>2. \/ tstate' = tstate
      \/ tstate' = [tstate EXCEPT ![Head(waiters[n])] = Ready]
      \/ tstate' = [[tstate EXCEPT ![current] = mine] EXCEPT ![Head(ready)] = Running]
  <2>1. CASE Signal(c, r)
    BY <2>1 DEF Signal, WakeWaiter, Accumulate, Refused, MarkReady, threadVars
  <2>2. CASE Wait(c, r)
    BY <2>2 DEF Wait, ConsumeSignals, QueueWaiter, BlockCurrent, SwitchTo, Handover, Refused,
                threadVars
  <2>3. CASE Poll(c, r)
    BY <2>3 DEF Poll, ConsumeSignals, Refused, threadVars
  <2> QED
    BY <2>1, <2>2, <2>3 DEF NotificationSyscall
<1>3. mine.kind # "BlockedSend"
  BY DEF BlockedWait
<1> HIDE DEF mine
<1>4. \A t \in TCB : tstate'[t] \in {tstate[t], Ready, Running, mine}
  BY <1>2 DEF Inv, TypeOK
<1> QED
  BY <1>1, <1>3, <1>4, StillConfined

\* Every step keeps what is held, and what is on its way, within a closed family.
LEMMA NextConfined ==
    ASSUME Inv, NEW may, Closed(may), Within(may), [Next]_vars
    PROVE  SlotsWithin(may, cnode') /\ FlightWithin(may, tstate')
<1>1. CASE Boot
  <2>1. PICK t \in TCB : BootConfigure(t) \/ BootMakeReady(t) \/ EnterFirstThread(t)
    BY <1>1, ProgramsAssumption DEF Boot
  <2>2. cnode' = cnode /\ \A u \in TCB : tstate'[u] \in {tstate[u], Ready, Running, Ready}
    BY <2>1 DEF BootConfigure, BootMakeReady, EnterFirstThread, MarkReady, Inv, TypeOK
  <2> QED
    BY <2>2, StillConfined DEF Ready
<1>2. CASE Trap
  <2>1. PICK xc \in ExtraCaps, err \in Flags : Dispatch(Request(current, xc, err))
    BY <1>2 DEF Trap
  <2> DEFINE r == Request(current, xc, err)
  <2>2. current # None
    BY <1>2 DEF Trap
  <2> HIDE DEF r
  <2>3. ASSUME NEW m, Reply(m, r)
        PROVE  SlotsWithin(may, cnode') /\ FlightWithin(may, tstate')
    <3>1. CASE Refused(ReplyChecks(m, r), r)
      BY <3>1, RefusedConfined
    <3>2. CASE Accepted(ReplyChecks(m, r)) /\ AnswerCaller(replyTo[current], m, r)
      <4>1. ExtraCapError(m, r) = Ok /\ replyTo[current] # None
        BY <3>2 DEF ReplyChecks, Accepted, Ok
      <4> QED
        BY <2>2, <3>2, <4>1, AnswerCallerConfined
    <3> QED
      BY <2>3, <3>1, <3>2 DEF Reply
  <2>4. ASSUME NEW c, NEW cs, NEW sc, NEW vs, TCBConfigure(c, cs, sc, vs, r)
        PROVE  SlotsWithin(may, cnode') /\ FlightWithin(may, tstate')
    <3>1. CASE Refused(ConfigureChecks(c, cs, sc, vs), r)
      BY <3>1, RefusedConfined
    <3>2. CASE ~Refused(ConfigureChecks(c, cs, sc, vs), r)
      <4>1. /\ cnode' = cnode
            /\ \/ tstate' = tstate
               \/ tstate' = [tstate EXCEPT ![CapAt(current, c).id] = Ready]
        BY <2>4, <3>2 DEF TCBConfigure, MarkReady
      <4>2. \A t \in TCB : tstate'[t] \in {tstate[t], Ready, Running, Ready}
        BY <4>1 DEF Inv, TypeOK
      <4> QED
        BY <4>1, <4>2, StillConfined DEF Ready
    <3> QED
      BY <3>1, <3>2
  <2>5. CASE Yield(r)
    <3>1. cnode' = cnode /\ \A t \in TCB : tstate'[t] \in {tstate[t], Ready, Running, Ready}
      BY <2>5 DEF Yield, Handover, MarkReady, Inv, TypeOK
    <3> QED
      BY <3>1, StillConfined DEF Ready
  <2>6. CASE UnknownSyscall(r)
    BY <2>6, RefusedConfined DEF UnknownSyscall
  <2>7. Dispatch(r)
    BY <2>1 DEF r
  <2> QED
    BY <2>2, <2>3, <2>4, <2>5, <2>6, <2>7, EndpointConfined, NotificationConfined, CNodeConfined
       DEF Dispatch
<1>3. CASE UNCHANGED vars
  BY <1>3, UntouchedConfined DEF vars
<1> QED
  BY <1>1, <1>2, <1>3 DEF Next

(***************************************************************************)
(* What may be where, from the origins of the system                       *)
(***************************************************************************)
Origins == [k \in CNODE |-> {cap \in Capability : Origin(cap, k)}]

LEMMA OriginsClosed == Closed(Origins)
<1>1. ASSUME NEW k \in CNODE, NEW cap \in Capability, NEW source, Origin(source, k),
             DerivedFrom(cap, source)
      PROVE  Origin(cap, k)
  <2>1. PICK j \in CNODE, s \in Slot :
          /\ DerivedFrom(source, InitSlots[j][s])
          /\ Domain[j] = Domain[k] \/ "GRANT" \in InitSlots[j][s].rights
    BY <1>1 DEF Origin
  <2>2. DerivedFrom(cap, InitSlots[j][s])
    BY <1>1, <2>1 DEF DerivedFrom
  <2> QED
    BY <2>1, <2>2 DEF Origin
<1>2. ASSUME NEW k \in CNODE, NEW cap, Origin(cap, k), "GRANT" \in cap.rights
      PROVE  \A j \in CNODE : Origin(cap, j)
  BY <1>2 DEF Origin, DerivedFrom
<1>3. ASSUME NEW k \in CNODE, NEW cap \in Capability, Origin(cap, k), cap.type = "CNode"
      PROVE  Origins[cap.id] = Origins[k]
  <2>1. PICK j \in CNODE, s \in Slot :
          /\ DerivedFrom(cap, InitSlots[j][s])
          /\ Domain[j] = Domain[k] \/ "GRANT" \in InitSlots[j][s].rights
    BY <1>3 DEF Origin
  <2>2. InitSlots[j][s] \in Capability
    BY ProgramsAssumption DEF CNodeTable
  <2>3. InitSlots[j][s].type = "CNode" /\ InitSlots[j][s].id = cap.id
    BY <1>3, <2>1 DEF DerivedFrom
  <2>4. InitSlots[j][s].rights = {} /\ cap.id \in CNODE
    BY <2>2, <2>3, CapabilityFields
  <2>5. Domain[cap.id] = Domain[k]
    BY <2>1, <2>3, <2>4, DomainAssumption
  <2>6. \A x : Origin(x, cap.id) <=> Origin(x, k)
    BY <2>5 DEF Origin
  <2> QED
    BY <2>4, <2>6 DEF Origins
<1> QED
  BY <1>1, <1>2, <1>3 DEF Closed, Origins

\* Authority is confined when everything is within the origins.
LEMMA ConfinedWithin ==
    ASSUME TypeOK, AuthorityConfined
    PROVE  Within(Origins)
<1>1. \A k \in CNODE, s \in Slot : cnode[k][s] \in Capability
  BY DEF TypeOK, CNodeTable
<1>2. \A t \in TCB : tstate[t].kind = "BlockedSend" /\ tstate[t].extra_cap # None =>
                      tstate[t].extra_cap \in Capability
  BY DEF TypeOK, ThreadState, Inactive, Ready, Running
<1> QED
  BY <1>1, <1>2 DEF AuthorityConfined, Within, SlotsWithin, FlightWithin, Origins

LEMMA NextAuthority == Inv /\ AuthorityConfined /\ [Next]_vars => AuthorityConfined'
<1> SUFFICES ASSUME Inv, AuthorityConfined, [Next]_vars
             PROVE  AuthorityConfined'
  OBVIOUS
<1>1. Closed(Origins) /\ Within(Origins)
  BY OriginsClosed, ConfinedWithin DEF Inv
<1>2. PICK may : may = Origins
  OBVIOUS
<1>3. SlotsWithin(may, cnode') /\ FlightWithin(may, tstate')
  BY <1>1, <1>2, NextConfined
<1> QED
  BY <1>2, <1>3 DEF AuthorityConfined, SlotsWithin, FlightWithin, Origins

\* At boot every capability is its own origin.
LEMMA InitConfined == Init => AuthorityConfined
<1> SUFFICES ASSUME Init
             PROVE  AuthorityConfined
  OBVIOUS
<1>1. \A k \in CNODE, s \in Slot : Origin(cnode[k][s], k)
  BY DEF Init, Origin, DerivedFrom
<1>2. \A t \in TCB : tstate[t].kind # "BlockedSend"
  BY DEF Init, Inactive
<1> QED
  BY <1>1, <1>2 DEF AuthorityConfined

\* Whatever the threads invoke, no protection domain comes to hold more than it
\* started with and others could grant.
THEOREM AuthorityCorrect == Spec => []AuthorityConfined
<1>1. Init => Inv /\ AuthorityConfined
  BY InitInv, InitConfined
<1>2. Inv /\ AuthorityConfined /\ [Next]_vars => (Inv /\ AuthorityConfined)'
  BY NextInv, NextAuthority
<1> QED
  BY <1>1, <1>2, PTL DEF Spec

(***************************************************************************)
(* What a step does to an object, its thread names the object to do        *)
(***************************************************************************)

\* What InvokeError accepts, the thread wields.
LEMMA InvokedWielded ==
    ASSUME NEW c, NEW type, NEW right, InvokeError(current, c, type, right) = Ok
    PROVE  Wields(type, CapAt(current, c).id, right)
<1>1. /\ c \in Slot /\ CapAt(current, c).type = type /\ right \in CapAt(current, c).rights
  BY LookupAccepted DEF InvokeError, Ok
<1> QED
  BY <1>1 DEF Wields

LEMMA StillReached ==
    /\ endpoint' = endpoint => EndpointsReached
    /\ signals' = signals /\ waiters' = waiters => NotificationsReached
    /\ conf' = conf /\ tstate' = tstate => ThreadsReached
    /\ cnode' = cnode => TablesReached
  BY DEF EndpointsReached, NotificationsReached, ThreadsReached, TablesReached

\* A thread that queues on an endpoint needs the right of its side.
LEMMA PushReached ==
    ASSUME TypeOK, NEW e \in ENDPOINT, NEW side \in {"Send", "Recv"}, NEW t \in TCB,
           ~Full(endpoint[e].q),
           endpoint' = [endpoint EXCEPT ![e] = Waiting(side, PushBack(@.q, t))],
           Wields("Endpoint", e, IF side = "Send" THEN "WRITE" ELSE "READ")
    PROVE  EndpointsReached
<1>1. PICK q \in Seq(TCB) : q = endpoint[e].q
  BY DEF TypeOK
<1>2. endpoint'[e] = Waiting(side, Append(q, t))
  BY <1>1 DEF TypeOK, PushBack
<1>3. Append(q, t) # <<>> /\ Len(Append(q, t)) = Len(q) + 1 /\ Len(q) \in Nat
  BY <1>1
<1>4. endpoint'[e].side = side /\ endpoint'[e].q = Append(q, t)
  BY <1>2, <1>3 DEF Waiting
<1>5. Longer(endpoint'[e].q, endpoint[e].q)
  BY <1>1, <1>3, <1>4 DEF Longer
<1>6. \A d \in ENDPOINT \ {e} : endpoint'[d] = endpoint[d]
  BY DEF TypeOK
<1>7. EndpointRight(e) = IF side = "Send" THEN "WRITE" ELSE "READ"
  BY <1>4, <1>5 DEF EndpointRight
<1> QED
  BY <1>6, <1>7 DEF EndpointsReached

\* Taking the first thread off an endpoint needs the right of the other side.
LEMMA PopReached ==
    ASSUME Inv, NEW e \in ENDPOINT, NEW side \in {"Send", "Recv"}, endpoint[e].side = side,
           endpoint' = [endpoint EXCEPT ![e] = Waiting(side, Tail(@.q))],
           Wields("Endpoint", e, IF side = "Send" THEN "READ" ELSE "WRITE")
    PROVE  EndpointsReached
<1>1. PICK q \in Seq(TCB) : q = endpoint[e].q
  BY DEF Inv, TypeOK
<1>2. q # <<>>
  BY <1>1 DEF Inv, EndpointQueuesExact
<1>3. endpoint'[e].q = Tail(q)
  BY <1>1 DEF Inv, TypeOK, Waiting, EmptyQueue
<1>4. ~Longer(endpoint'[e].q, endpoint[e].q)
  <2>1. Len(Tail(q)) = Len(q) - 1 /\ Len(q) \in Nat
    BY <1>2
  <2>2. Longer(endpoint'[e].q, endpoint[e].q) <=> Len(Tail(q)) > Len(q)
    BY <1>1, <1>3 DEF Longer
  <2> QED
    BY <2>1, <2>2
<1>5. \A d \in ENDPOINT \ {e} : endpoint'[d] = endpoint[d]
  BY DEF Inv, TypeOK
<1>6. EndpointRight(e) = IF side = "Send" THEN "READ" ELSE "WRITE"
  BY <1>4 DEF EndpointRight
<1> QED
  BY <1>5, <1>6 DEF EndpointsReached

\* No thread that moves was Inactive.
LEMMA MovesReached ==
    ASSUME TypeOK, conf' = conf, NEW a, NEW b, NEW x, NEW y,
           tstate[a] # Inactive, tstate[b] # Inactive,
           tstate' = [[tstate EXCEPT ![a] = x] EXCEPT ![b] = y]
    PROVE  ThreadsReached
<1>1. \A t \in TCB \ {a, b} : tstate'[t] = tstate[t]
  BY DEF TypeOK
<1> QED
  BY <1>1 DEF ThreadsReached

LEMMA MoveReached ==
    ASSUME TypeOK, conf' = conf, NEW a, NEW x, tstate[a] # Inactive,
           tstate' = [tstate EXCEPT ![a] = x]
    PROVE  ThreadsReached
<1>1. \A t \in TCB \ {a} : tstate'[t] = tstate[t]
  BY DEF TypeOK
<1> QED
  BY <1>1 DEF ThreadsReached

\* A transfer goes to the thread that is resumed, where it asked for it, or brings the
\* running thread what the sender it releases had attached.
LEMMA PlaceReached ==
    ASSUME TypeOK, NEW t \in TCB, NEW dest, NEW cap, PlaceError(t, dest, cap) = Ok,
           cnode' = Place(t, dest, cap), NEW s \in TCB, tstate'[s] # tstate[s],
           \/ t = s /\ dest \in {RecvDest(t), ReplyDest(t)}
           \/ t = current /\ tstate[s].kind = "BlockedSend" /\ cap = tstate[s].extra_cap
    PROVE  TablesReached
<1>1. CASE cap = None
  BY <1>1, StillReached DEF Place
<1>2. CASE cap # None
  <2> DEFINE table == conf[t].cspace
  <2>1. table \in CNODE /\ dest \in Slot /\ cnode[table][dest] = Null
    BY <1>2 DEF PlaceError, TypeOK, Config, Ok
  <2>2. cnode' = [cnode EXCEPT ![table][dest] = cap]
    BY <1>2 DEF Place
  <2>3. \A k \in CNODE, d \in Slot :
           cnode'[k][d] = IF k = table /\ d = dest THEN cap ELSE cnode[k][d]
    BY <2>1, <2>2 DEF TypeOK, CNodeTable
  <2>4. GivenTo(s, table, dest) \/ TakenFrom(s, table, dest)
    BY <2>1, <2>3 DEF GivenTo, TakenFrom
  <2>5. SlotReached(table, dest)
    BY <2>1, <2>4 DEF SlotReached
  <2> HIDE DEF table
  <2> QED
    BY <2>3, <2>5 DEF TablesReached
<1> QED
  BY <1>1, <1>2

\* A thread that may block hands the hart to one that is Ready.
LEMMA NextReady ==
    ASSUME Inv, current # None, ready # <<>>
    PROVE  tstate[Head(ready)] = Ready /\ tstate[Head(ready)] # Inactive
<1>1. Head(ready) \in ReadyThreads
  BY DEF Inv, TypeOK, SchedulerExact, Lists
<1> QED
  BY <1>1 DEF ReadyThreads, Ready, Inactive

LEMMA BlockReached ==
    ASSUME Inv, current # None, ready # <<>>, conf' = conf, NEW mine, NEW r,
           BlockCurrent(ready, [tstate EXCEPT ![current] = mine], r)
    PROVE  ThreadsReached
<1>1. tstate' = [[tstate EXCEPT ![current] = mine] EXCEPT ![Head(ready)] = Running]
  BY DEF BlockCurrent, SwitchTo, Handover
<1>2. tstate[current] # Inactive
  BY CurrentRuns DEF Running, Inactive
<1> QED
  BY <1>1, <1>2, NextReady, MovesReached DEF Inv

\* A refused syscall reaches nothing.
LEMMA RefusedReached ==
    ASSUME NEW checks, NEW r, Refused(checks, r)
    PROVE  ObjectsReached
  BY StillReached DEF Refused, threadVars, ipcVars, ObjectsReached

\* A send or call that meets a receiver (ipc::send, call).
LEMMA SendReached ==
    ASSUME Inv, current # None, NEW m, NEW r, NEW cap, cap.id \in ENDPOINT,
           Wields("Endpoint", cap.id, "WRITE"), SendToReceiver(cap, m, r) \/ CallReceiver(cap, m, r)
    PROVE  ObjectsReached
<1> DEFINE e == cap.id
<1> DEFINE t == Head(endpoint[e].q)
<1> DEFINE mine == BlockedReply(IF r.xc = 2 THEN m ELSE None)
<1> DEFINE checks == <<PlaceError(t, RecvDest(t), ExtraCap(m, r))>>
<1>1. CASE Refused(checks, r)
  BY <1>1, RefusedReached
<1>2. CASE ~Refused(checks, r)
  <2>1. /\ endpoint[e].side = "Recv" /\ Accepted(checks)
        /\ cnode' = Place(t, RecvDest(t), ExtraCap(m, r))
        /\ endpoint' = [endpoint EXCEPT ![e] = Waiting("Recv", Tail(@.q))]
        /\ UNCHANGED <<conf, signals, waiters>>
        /\ \/ tstate' = [tstate EXCEPT ![t] = Ready]
           \/ tstate' = [[tstate EXCEPT ![current] = mine] EXCEPT ![t] = Running]
    BY <1>2 DEF SendToReceiver, CallReceiver, SwitchTo, Handover, MarkReady
  <2>2. PlaceError(t, RecvDest(t), ExtraCap(m, r)) = Ok
    BY <2>1 DEF Accepted
  <2>3. t \in TCB /\ tstate[t].kind = "BlockedRecv"
    BY <2>1, HeadBlocked DEF Inv
  <2>4. tstate[t] # Inactive /\ tstate[current] # Inactive
    BY <2>3, CurrentRuns DEF Inactive
  <2> HIDE DEF t, mine, checks
  <2>5. EndpointsReached
    BY <2>1, PopReached
  <2>6. NotificationsReached
    BY <2>1, StillReached
  <2>7. ThreadsReached
    BY <2>1, <2>4, MoveReached, MovesReached DEF Inv
  <2>8. tstate'[t] # tstate[t]
    <3>1. tstate'[t] \in {Ready, Running}
      BY <2>1, <2>3 DEF Inv, TypeOK
    <3> QED
      BY <2>3, <3>1 DEF Ready, Running
  <2>9. TablesReached
    BY <2>1, <2>2, <2>3, <2>8, PlaceReached DEF Inv
  <2> QED
    BY <2>5, <2>6, <2>7, <2>9 DEF ObjectsReached
<1> QED
  BY <1>1, <1>2

\* A sender or receiver that queues (ipc::send, call, recv).
LEMMA QueueReached ==
    ASSUME Inv, current # None, NEW r, NEW e \in ENDPOINT, NEW side \in {"Send", "Recv"},
           Wields("Endpoint", e, IF side = "Send" THEN "WRITE" ELSE "READ"), NEW mine,
           \/ Refused(<<CanBlock, RoomIn(endpoint[e].q)>>, r)
           \/ /\ Accepted(<<CanBlock, RoomIn(endpoint[e].q)>>)
              /\ endpoint' = [endpoint EXCEPT ![e] = Waiting(side, PushBack(@.q, current))]
              /\ BlockCurrent(ready, [tstate EXCEPT ![current] = mine], r)
              /\ UNCHANGED <<conf, signals, waiters, cnode>>
    PROVE  ObjectsReached
<1> DEFINE checks == <<CanBlock, RoomIn(endpoint[e].q)>>
<1>1. CASE Refused(checks, r)
  BY <1>1, RefusedReached
<1>2. CASE /\ Accepted(checks)
           /\ endpoint' = [endpoint EXCEPT ![e] = Waiting(side, PushBack(@.q, current))]
           /\ BlockCurrent(ready, [tstate EXCEPT ![current] = mine], r)
           /\ UNCHANGED <<conf, signals, waiters, cnode>>
  <2>1. CanBlock = Ok /\ RoomIn(endpoint[e].q) = Ok
    BY <1>2 DEF Accepted
  <2>2. ready # <<>> /\ ~Full(endpoint[e].q)
    BY <2>1 DEF CanBlock, RoomIn, Ok
  <2>3. EndpointsReached
    BY <1>2, <2>2, CurrentRuns, PushReached DEF Inv
  <2>4. ThreadsReached
    BY <1>2, <2>2, BlockReached
  <2> QED
    BY <1>2, <2>3, <2>4, StillReached DEF ObjectsReached
<1> QED
  BY <1>1, <1>2

\* A receiver that takes a queued message (ipc::recv).
LEMMA TakeReached ==
    ASSUME Inv, current # None, NEW m, NEW r, NEW e \in ENDPOINT,
           Wields("Endpoint", e, "READ"), TakeMessage(e, m, r)
    PROVE  ObjectsReached
<1> DEFINE s == Head(endpoint[e].q)
<1> DEFINE mine == BlockedReply(tstate[s].reply_dest)
<1> DEFINE dest == RecvSlot(m, r)
<1> DEFINE checks == <<TakeError(s, RecvSlot(m, r))>>
<1>1. CASE Refused(checks, r)
  BY <1>1, RefusedReached
<1>2. CASE ~Refused(checks, r)
  <2>1. /\ endpoint[e].side = "Send" /\ Accepted(checks)
        /\ cnode' = Place(current, dest, tstate[s].extra_cap)
        /\ endpoint' = [endpoint EXCEPT ![e] = Waiting("Send", Tail(@.q))]
        /\ UNCHANGED <<conf, signals, waiters>>
        /\ tstate' = [tstate EXCEPT ![s] = Ready] \/ tstate' = [tstate EXCEPT ![s] = mine]
    BY <1>2 DEF TakeMessage, ReleaseSender, MarkReady
  <2>2. TakeError(s, dest) = Ok
    BY <2>1 DEF Accepted
  <2>3. s \in TCB /\ tstate[s].kind = "BlockedSend"
    BY <2>1, HeadBlocked DEF Inv
  <2>4. PlaceError(current, dest, tstate[s].extra_cap) = Ok
    BY <2>2, <2>3 DEF TakeError
  <2>5. tstate[s] # Inactive
    BY <2>3 DEF Inactive
  <2>6. mine.kind = "BlockedReply"
    BY DEF BlockedReply
  <2> HIDE DEF s, mine, checks, dest
  <2>7. EndpointsReached /\ ThreadsReached
    BY <2>1, <2>5, PopReached, MoveReached DEF Inv
  <2>8. TablesReached
    <3>1. tstate'[s] \in {Ready, mine}
      BY <2>1, <2>3 DEF Inv, TypeOK
    <3>2. tstate'[s] # tstate[s]
      BY <2>3, <2>6, <3>1 DEF Ready
    <3> QED
      BY <2>1, <2>3, <2>4, <3>2, CurrentRuns, PlaceReached DEF Inv
  <2> QED
    BY <2>1, <2>7, <2>8, StillReached DEF ObjectsReached
<1> QED
  BY <1>1, <1>2

\* Send, NBSend, Call and Recv.
LEMMA EndpointReached ==
    ASSUME Inv, current # None, NEW r, NEW c, NEW m, EndpointSyscall(c, m, r)
    PROVE  ObjectsReached
<1>1. PICK cap : cap = CapAt(current, c)
  OBVIOUS
<1>2. ASSUME NEW most, Accepted(SendChecks(c, m, r, most))
      PROVE  cap.id \in ENDPOINT /\ Wields("Endpoint", cap.id, "WRITE")
  <2>1. InvokeError(current, c, "Endpoint", "WRITE") = Ok
    BY <1>2 DEF SendChecks, Accepted
  <2> QED
    BY <1>1, <2>1, LookedUp, InvokedWielded
<1>3. ASSUME NEW most, NEW isCall, Accepted(SendChecks(c, m, r, most)), QueueSender(cap, m, r, isCall)
      PROVE  ObjectsReached
  BY <1>2, <1>3, QueueReached DEF QueueSender
<1>4. CASE Send(c, m, r)
  BY <1>1, <1>2, <1>3, <1>4, RefusedReached, SendReached DEF Send
<1>5. CASE NBSend(c, m, r)
  <2>1. CASE UNCHANGED <<threadVars, ready, current, active, ipcVars, cnode>>
    BY <2>1, StillReached DEF threadVars, ipcVars, ObjectsReached
  <2> QED
    BY <1>1, <1>2, <1>5, <2>1, RefusedReached, SendReached DEF NBSend
<1>6. CASE Call(c, m, r)
  BY <1>1, <1>2, <1>3, <1>6, RefusedReached, SendReached DEF Call
<1>7. CASE Recv(c, m, r)
  <2>1. CASE Refused(RecvChecks(c, r), r)
    BY <2>1, RefusedReached
  <2>2. CASE Accepted(RecvChecks(c, r)) /\ (TakeMessage(cap.id, m, r) \/ QueueReceiver(cap.id, m, r))
    <3>1. InvokeError(current, c, "Endpoint", "READ") = Ok
      BY <2>2 DEF RecvChecks, Accepted
    <3>2. cap.id \in ENDPOINT /\ Wields("Endpoint", cap.id, "READ")
      BY <1>1, <3>1, LookedUp, InvokedWielded
    <3> QED
      BY <2>2, <3>2, TakeReached, QueueReached DEF QueueReceiver
  <2> QED
    BY <1>1, <1>7, <2>1, <2>2 DEF Recv
<1> QED
  BY <1>4, <1>5, <1>6, <1>7 DEF EndpointSyscall

\* Reply moves its own thread and the caller it owes an answer (ipc::reply).
LEMMA ReplyReached ==
    ASSUME Inv, current # None, NEW r, NEW m, Reply(m, r)
    PROVE  ObjectsReached
<1> DEFINE t == replyTo[current]
<1> DEFINE checks == <<PlaceError(t, ReplyDest(t), ExtraCap(m, r))>>
<1>1. CASE Refused(ReplyChecks(m, r), r) \/ Refused(checks, r)
  BY <1>1, RefusedReached
<1>2. CASE ~Refused(ReplyChecks(m, r), r) /\ ~Refused(checks, r)
  <2>1. /\ Accepted(ReplyChecks(m, r)) /\ Accepted(checks)
        /\ cnode' = Place(t, ReplyDest(t), ExtraCap(m, r))
        /\ tstate' = [[tstate EXCEPT ![current] = Ready] EXCEPT ![t] = Running]
        /\ UNCHANGED <<conf, endpoint, signals, waiters>>
    BY <1>2 DEF Reply, AnswerCaller, MarkReady, SwitchTo, Handover, ipcVars
  <2>2. t # None
    BY <2>1 DEF ReplyChecks, Accepted, Ok
  <2>3. current \in TCB /\ t \in TCB /\ tstate[t].kind = "BlockedReply"
    BY <2>2, CurrentRuns DEF Inv, TypeOK, ReplyLinksExact
  <2>4. PlaceError(t, ReplyDest(t), ExtraCap(m, r)) = Ok
    BY <2>1 DEF Accepted
  <2>5. tstate[t] # Inactive /\ tstate[current] # Inactive
    BY <2>3, CurrentRuns DEF Inactive
  <2> HIDE DEF t, checks
  <2>6. ThreadsReached
    BY <2>1, <2>5, MovesReached DEF Inv
  <2>7. TablesReached
    <3>1. tstate'[t] = Running
      BY <2>1, <2>3 DEF Inv, TypeOK
    <3>2. tstate'[t] # tstate[t]
      BY <2>3, <3>1 DEF Running
    <3> QED
      BY <2>1, <2>3, <2>4, <3>2, PlaceReached DEF Inv
  <2> QED
    BY <2>1, <2>6, <2>7, StillReached DEF ObjectsReached
<1> QED
  BY <1>1, <1>2

\* Signal: a waiter is woken, or a bit accumulates (ipc::signal).
LEMMA SignalReached ==
    ASSUME Inv, current # None, NEW n \in NTFN, Wields("Notification", n, "WRITE"),
           NEW badge \in Word, WakeWaiter(n, badge) \/ Accumulate(n, badge),
           UNCHANGED <<conf, endpoint, cnode>>
    PROVE  ObjectsReached
<1>1. waiters[n] \in Seq(TCB) /\ signals[n] \in Word
  BY DEF Inv, TypeOK
<1>2. CASE WakeWaiter(n, badge)
  <2> DEFINE t == Head(waiters[n])
  <2>1. waiters[n] # <<>> /\ tstate' = [tstate EXCEPT ![t] = Ready]
    BY <1>2 DEF WakeWaiter, MarkReady
  <2>2. signals[n] = {} /\ t \in Sleepers(n)
    BY <1>1, <2>1 DEF Inv, NotificationsExact, Lists
  <2>3. tstate[t] # Inactive
    BY <2>2 DEF Sleepers, Inactive
  <2> HIDE DEF t
  <2>4. ThreadsReached
    BY <2>1, <2>3, MoveReached DEF Inv
  <2>5. \A d \in NTFN : /\ signals'[d] = signals[d]
                        /\ d # n => waiters'[d] = waiters[d]
    BY <1>2, <2>2 DEF WakeWaiter, Inv, TypeOK
  <2>6. waiters'[n] = Tail(waiters[n])
    BY <1>2 DEF WakeWaiter, Inv, TypeOK
  <2>7. WaitersRight(n) = "WRITE"
    <3>1. Len(Tail(waiters[n])) = Len(waiters[n]) - 1 /\ Len(waiters[n]) \in Nat
      BY <1>1, <2>1
    <3> QED
      BY <2>6, <3>1 DEF WaitersRight, Longer
  <2>8. NotificationsReached
    BY <2>5, <2>7 DEF NotificationsReached
  <2> QED
    BY <2>4, <2>8, StillReached DEF ObjectsReached
<1>3. CASE Accumulate(n, badge)
  <2>1. /\ waiters' = waiters /\ tstate' = tstate
        /\ signals'[n] = signals[n] \cup badge
        /\ \A d \in NTFN \ {n} : signals'[d] = signals[d]
    BY <1>3 DEF Accumulate, Inv, TypeOK
  <2>2. signals'[n] # signals[n] => SignalsRight(n) = "WRITE"
    BY <2>1 DEF SignalsRight
  <2>3. NotificationsReached
    BY <2>1, <2>2 DEF NotificationsReached
  <2> QED
    BY <2>1, <2>3, StillReached DEF ObjectsReached
<1> QED
  BY <1>2, <1>3

\* Wait and Poll consume bits, or queue (ipc::wait, poll).
LEMMA WaitReached ==
    ASSUME Inv, current # None, NEW r, NEW n \in NTFN, Wields("Notification", n, "READ"),
           ConsumeSignals(n, r) \/ QueueWaiter(n, r)
    PROVE  ObjectsReached
<1>1. CASE ConsumeSignals(n, r)
  <2>1. /\ UNCHANGED <<tstate, conf, endpoint, waiters, cnode>>
        /\ signals'[n] = {} /\ \A d \in NTFN \ {n} : signals'[d] = signals[d]
    BY <1>1 DEF ConsumeSignals, threadVars, Inv, TypeOK
  <2>2. NotificationsReached
    BY <2>1 DEF NotificationsReached, SignalsRight
  <2> QED
    BY <2>1, <2>2, StillReached DEF ObjectsReached
<1>2. CASE QueueWaiter(n, r)
  <2> DEFINE checks == <<CanBlock, RoomIn(waiters[n])>>
  <2>1. CASE Refused(checks, r)
    BY <2>1, RefusedReached
  <2>2. CASE ~Refused(checks, r)
    <3>1. /\ Accepted(checks)
          /\ waiters' = [waiters EXCEPT ![n] = PushBack(@, current)]
          /\ BlockCurrent(ready, [tstate EXCEPT ![current] = BlockedWait(n)], r)
          /\ UNCHANGED <<conf, endpoint, signals, cnode>>
      BY <1>2, <2>2 DEF QueueWaiter
    <3>2. CanBlock = Ok /\ RoomIn(waiters[n]) = Ok
      BY <3>1 DEF Accepted
    <3>3. ready # <<>> /\ ~Full(waiters[n])
      BY <3>2 DEF CanBlock, RoomIn, Ok
    <3>4. ThreadsReached
      BY <3>1, <3>3, BlockReached
    <3>5. waiters'[n] = Append(waiters[n], current) /\ \A d \in NTFN \ {n} : waiters'[d] = waiters[d]
      BY <3>1, <3>3 DEF PushBack, Inv, TypeOK
    <3>6. WaitersRight(n) = "READ"
      <4>1. Len(Append(waiters[n], current)) = Len(waiters[n]) + 1 /\ Len(waiters[n]) \in Nat
        BY CurrentRuns DEF Inv, TypeOK
      <4> QED
        BY <3>5, <4>1 DEF WaitersRight, Longer
    <3>7. NotificationsReached
      BY <3>1, <3>5, <3>6 DEF NotificationsReached
    <3> QED
      BY <3>1, <3>4, <3>7, StillReached DEF ObjectsReached
  <2> QED
    BY <2>1, <2>2
<1> QED
  BY <1>1, <1>2

LEMMA NotificationReached ==
    ASSUME Inv, current # None, NEW r, NEW c, NotificationSyscall(c, r)
    PROVE  ObjectsReached
<1>1. PICK cap : cap = CapAt(current, c)
  OBVIOUS
<1>2. CASE Signal(c, r)
  <2>1. CASE Refused(<<InvokeError(current, c, "Notification", "WRITE")>>, r)
    BY <2>1, RefusedReached
  <2>2. CASE /\ Accepted(<<InvokeError(current, c, "Notification", "WRITE")>>)
             /\ WakeWaiter(cap.id, cap.badge) \/ Accumulate(cap.id, cap.badge)
             /\ UNCHANGED <<conf, endpoint, cnode>>
    <3>1. InvokeError(current, c, "Notification", "WRITE") = Ok
      BY <2>2 DEF Accepted
    <3>2. cap.id \in NTFN /\ cap.badge \in Word /\ Wields("Notification", cap.id, "WRITE")
      BY <1>1, <3>1, LookedUp, InvokedWielded
    <3> QED
      BY <2>2, <3>2, SignalReached
  <2> QED
    BY <1>1, <1>2, <2>1, <2>2 DEF Signal
<1>3. CASE Wait(c, r) \/ Poll(c, r)
  <2>1. CASE Refused(WaitChecks(c), r)
    BY <2>1, RefusedReached
  <2>2. CASE /\ Accepted(WaitChecks(c))
             /\ ConsumeSignals(cap.id, r) \/ QueueWaiter(cap.id, r)
    <3>1. InvokeError(current, c, "Notification", "READ") = Ok
      BY <2>2 DEF WaitChecks, Accepted
    <3>2. cap.id \in NTFN /\ Wields("Notification", cap.id, "READ")
      BY <1>1, <3>1, LookedUp, InvokedWielded
    <3> QED
      BY <2>2, <3>2, WaitReached
  <2> QED
    BY <1>1, <1>3, <2>1, <2>2 DEF Wait, Poll
<1> QED
  BY <1>2, <1>3 DEF NotificationSyscall

\* Every CNode operation writes the slots of the CNode it names (cnode::invoke).
LEMMA CNodeReached ==
    ASSUME Inv, current # None, NEW r, NEW c, CNodeSyscall(c, r)
    PROVE  ObjectsReached
<1>1. PICK k : k = CapAt(current, c).id
  OBVIOUS
<1>2. ASSUME NEW checks, NEW slots, Update(checks, slots, r),
             Accepted(checks) => TypeError(current, c, "CNode") = Ok,
             \A j \in CNODE \ {k} : slots[j] = cnode[j]
      PROVE  ObjectsReached
  <2>1. CASE Refused(checks, r)
    BY <2>1, RefusedReached
  <2>2. CASE /\ Accepted(checks) /\ cnode' = slots
             /\ UNCHANGED <<threadVars, ready, current, active, ipcVars>>
    <3>1. TypeError(current, c, "CNode") = Ok
      BY <1>2, <2>2
    <3>2. c \in Slot /\ CapAt(current, c).type = "CNode"
      BY <3>1, LookupAccepted
    <3>3. TablesReached
      BY <1>1, <1>2, <2>2, <3>2 DEF TablesReached, SlotReached
    <3> QED
      BY <2>2, <3>3, StillReached DEF ObjectsReached, threadVars, ipcVars
  <2> QED
    BY <1>2, <2>1, <2>2 DEF Update
<1>3. ASSUME NEW a1, NEW a2, NEW a3, NEW a4, NEW a5
      PROVE  /\ Accepted(<<a1, a2>>) => a1 = Ok
             /\ Accepted(<<a1, a2, a3>>) => a1 = Ok
             /\ Accepted(<<a1, a2, a3, a4>>) => a1 = Ok
             /\ Accepted(<<a1, a2, a3, a4, a5>>) => a1 = Ok
  BY DEF Accepted
<1>4. ASSUME NEW src, NEW dest, NEW rights, NEW badge, Mint(c, src, dest, rights, badge, r)
      PROVE  ObjectsReached
  <2> DEFINE source == SlotAt(k, src)
  <2> DEFINE checks == <<TypeError(current, c, "CNode"), SourceError(k, src),
                         IF rights \subseteq source.rights THEN Ok ELSE "IllegalOperation",
                         IF Mintable(source) THEN Ok ELSE "IllegalOperation",
                         FreeError(k, dest)>>
  <2> DEFINE slots == [cnode EXCEPT ![k][dest] = Attenuate(source, rights, badge)]
  <2>1. Update(checks, slots, r)
    BY <1>1, <1>4 DEF Mint
  <2>2. Accepted(checks) => TypeError(current, c, "CNode") = Ok
    BY <1>3
  <2>3. \A j \in CNODE \ {k} : slots[j] = cnode[j]
    BY DEF Inv, TypeOK
  <2> HIDE DEF checks, slots
  <2> QED
    BY <1>2, <2>1, <2>2, <2>3
<1>5. ASSUME NEW src, NEW dest, Copy(c, src, dest, r)
      PROVE  ObjectsReached
  <2> DEFINE checks == <<TypeError(current, c, "CNode"), SourceError(k, src), FreeError(k, dest)>>
  <2> DEFINE slots == [cnode EXCEPT ![k][dest] = SlotAt(k, src)]
  <2>1. Update(checks, slots, r)
    BY <1>1, <1>5 DEF Copy
  <2>2. Accepted(checks) => TypeError(current, c, "CNode") = Ok
    BY <1>3
  <2>3. \A j \in CNODE \ {k} : slots[j] = cnode[j]
    BY DEF Inv, TypeOK
  <2> HIDE DEF checks, slots
  <2> QED
    BY <1>2, <2>1, <2>2, <2>3
<1>6. ASSUME NEW src, NEW dest, Move(c, src, dest, r)
      PROVE  ObjectsReached
  <2> DEFINE checks == <<TypeError(current, c, "CNode"), SourceError(k, src), FreeError(k, dest)>>
  <2> DEFINE slots == [cnode EXCEPT ![k][dest] = SlotAt(k, src), ![k][src] = Null]
  <2>1. Update(checks, slots, r)
    BY <1>1, <1>6 DEF Move
  <2>2. Accepted(checks) => TypeError(current, c, "CNode") = Ok
    BY <1>3
  <2>3. \A j \in CNODE \ {k} : slots[j] = cnode[j]
    BY DEF Inv, TypeOK
  <2> HIDE DEF checks, slots
  <2> QED
    BY <1>2, <2>1, <2>2, <2>3
<1>7. ASSUME NEW src, Delete(c, src, r)
      PROVE  ObjectsReached
  <2> DEFINE checks == <<TypeError(current, c, "CNode"), SourceError(k, src)>>
  <2> DEFINE slots == [cnode EXCEPT ![k][src] = Null]
  <2>1. Update(checks, slots, r)
    BY <1>1, <1>7 DEF Delete
  <2>2. Accepted(checks) => TypeError(current, c, "CNode") = Ok
    BY <1>3
  <2>3. \A j \in CNODE \ {k} : slots[j] = cnode[j]
    BY DEF Inv, TypeOK
  <2> HIDE DEF checks, slots
  <2> QED
    BY <1>2, <2>1, <2>2, <2>3
<1>8. ASSUME NEW from, NEW src, NEW dest, CopyCross(c, from, src, dest, r)
       PROVE  ObjectsReached
  <2> DEFINE j == CapAt(current, from).id
  <2> DEFINE checks == <<TypeError(current, c, "CNode"), TypeError(current, from, "CNode"),
                         SourceError(j, src), FreeError(k, dest)>>
  <2> DEFINE slots == [cnode EXCEPT ![k][dest] = SlotAt(j, src)]
  <2>1. Update(checks, slots, r)
    BY <1>1, <1>8 DEF CopyCross
  <2>2. Accepted(checks) => TypeError(current, c, "CNode") = Ok
    BY <1>3
  <2>3. \A table \in CNODE \ {k} : slots[table] = cnode[table]
    BY DEF Inv, TypeOK
  <2> HIDE DEF checks, slots
  <2> QED
    BY <1>2, <2>1, <2>2, <2>3
<1>9. CASE Revoke(c, r) \/ OtherLabel(c, r)
  BY <1>9, RefusedReached DEF Revoke, OtherLabel
<1> QED
  BY <1>4, <1>5, <1>6, <1>7, <1>8, <1>9 DEF CNodeSyscall

\* TCBConfigure reconfigures, and perhaps admits, the thread it names (admin::configure).
LEMMA ConfigureReached ==
    ASSUME Inv, current # None, NEW r, NEW c, NEW cs, NEW sc, NEW vs,
           TCBConfigure(c, cs, sc, vs, r)
    PROVE  ObjectsReached
<1>1. PICK target : target = CapAt(current, c).id
  OBVIOUS
<1>2. CASE Refused(ConfigureChecks(c, cs, sc, vs), r)
  BY <1>2, RefusedReached
<1>3. CASE ~Refused(ConfigureChecks(c, cs, sc, vs), r)
  <2>1. /\ Accepted(ConfigureChecks(c, cs, sc, vs))
        /\ \E config : conf' = [conf EXCEPT ![target] = config]
        /\ tstate' = tstate \/ tstate' = [tstate EXCEPT ![target] = Ready]
        /\ UNCHANGED <<endpoint, signals, waiters, cnode>>
    BY <1>1, <1>3 DEF TCBConfigure, MarkReady, ipcVars
  <2>2. InvokeError(current, c, "Tcb", "WRITE") = Ok
    BY <2>1 DEF ConfigureChecks, Accepted
  <2>3. Wields("Tcb", target, "WRITE")
    BY <1>1, <2>2, InvokedWielded
  <2>4. \A t \in TCB \ {target} : conf'[t] = conf[t] /\ tstate'[t] = tstate[t]
    BY <2>1 DEF Inv, TypeOK
  <2>5. ThreadsReached
    BY <2>3, <2>4 DEF ThreadsReached
  <2> QED
    BY <2>1, <2>5, StillReached DEF ObjectsReached
<1> QED
  BY <1>2, <1>3

LEMMA YieldReached ==
    ASSUME Inv, current # None, NEW r, Yield(r)
    PROVE  ObjectsReached
<1> DEFINE queue == PushBack(ready, current)
<1> DEFINE next == Head(queue)
<1>1. /\ tstate' = [[tstate EXCEPT ![current] = Ready] EXCEPT ![next] = Running]
      /\ UNCHANGED <<conf, endpoint, signals, waiters, cnode>>
  <2>1. Enqueue(tstate, ready, current) = queue
    BY CurrentRuns DEF Enqueue, Ready, Running
  <2> HIDE DEF queue
  <2> QED
    BY <2>1 DEF Yield, Handover, MarkReady, ipcVars
<1>2. /\ ready \in Seq(TCB) /\ Lists(ready, ReadyThreads) /\ current \in TCB
      /\ current \notin ReadyThreads
  BY CurrentRuns DEF Inv, TypeOK, SchedulerExact, ReadyThreads, Ready, Running
<1>3. PICK S : S = ReadyThreads
  OBVIOUS
<1>4. ready \in Seq(TCB) /\ Lists(ready, S) /\ current \in TCB /\ current \notin S
  BY <1>2, <1>3
<1>5. queue \in Seq(TCB) /\ queue # <<>> /\ Lists(queue, S \cup {current})
  <2> HIDE <1>2, <1>3
  <2> QED
    BY <1>4, PushLists
<1> HIDE DEF queue
<1>6. next \in ReadyThreads \cup {current}
  <2>1. 1 \in DOMAIN queue /\ next = queue[1]
    BY <1>5
  <2> QED
    BY <1>3, <1>5, <2>1 DEF Lists
<1>7. tstate[next] # Inactive /\ tstate[current] # Inactive
  BY <1>6, CurrentRuns DEF ReadyThreads, Ready, Inactive
<1> HIDE DEF next
<1> QED
  BY <1>1, <1>7, MovesReached, StillReached DEF Inv, ObjectsReached

LEMMA NextReached == Inv /\ current # None /\ [Next]_vars => ObjectsReached
<1> SUFFICES ASSUME Inv, current # None, [Next]_vars
             PROVE  ObjectsReached
  OBVIOUS
<1>1. ~Boot
  BY DEF Boot, BootConfigure, BootMakeReady, EnterFirstThread
<1>2. CASE Trap
  <2>1. PICK xc \in ExtraCaps, err \in Flags : Dispatch(Request(current, xc, err))
    BY <1>2 DEF Trap
  <2>2. PICK r : r = Request(current, xc, err)
    OBVIOUS
  <2>3. Dispatch(r)
    BY <2>1, <2>2
  <2> QED
    BY <2>3, EndpointReached, ReplyReached, NotificationReached, CNodeReached, ConfigureReached,
       YieldReached, RefusedReached DEF Dispatch, UnknownSyscall
<1>3. CASE UNCHANGED vars
  BY <1>3, StillReached DEF vars, ObjectsReached
<1> QED
  BY <1>1, <1>2, <1>3 DEF Next

\* Nobody changes an object without a capability that names it and allows it.
THEOREM ReachCorrect == Spec => ObjectsNamed
<1>1. Inv /\ [Next]_vars => [current # None => ObjectsReached]_vars
  BY NextReached
<1> QED
  BY <1>1, Invariance, PTL DEF Spec, ObjectsNamed
=============================================================================
