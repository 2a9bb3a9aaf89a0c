----------------------------- MODULE CNodeInvoke ----------------------------
(***************************************************************************)
(* CNodeInvoke (src/cnode.rs): the operations on the slots of the CNode    *)
(* the current thread names by the CPtr c.  Holding a CNode capability is  *)
(* full access to every slot.  src and dest are the words in mr1 and mr2.  *)
(***************************************************************************)
EXTENDS KernelState

SlotAt(k, s) == IF k \in CNODE /\ s \in Slot THEN cnode[k][s] ELSE Null

SourceError(k, src) ==
    IF src \notin Slot THEN "RangeError"
    ELSE IF SlotAt(k, src) = Null THEN "InvalidCapability" ELSE Ok

\* Mutant: the destination slot may be occupied.
FreeErrorOccupied(k, dest) == IF dest \notin Slot THEN "RangeError" ELSE Ok

FreeError(k, dest) ==
    IF dest \notin Slot THEN "RangeError"
    ELSE IF SlotAt(k, dest) # Null THEN "IllegalOperation" ELSE Ok

\* What every operation does with its checks and the slots it means to leave.
Update(checks, slots, r) ==
    \/ Refused(checks, r)
    \/ /\ Accepted(checks)
       /\ cnode' = slots
       /\ frame' = Success(r)
       /\ UNCHANGED <<threadVars, ready, current, active, ipcVars>>

\* Mint: a copy with fewer rights and a badge of the caller's choice.
Mint(c, src, dest, rights, badge, r) ==
    LET k      == CapAt(current, c).id
        source == SlotAt(k, src)
        checks == <<TypeError(current, c, "CNode"), SourceError(k, src),
                    IF rights \subseteq source.rights THEN Ok ELSE "IllegalOperation",
                    IF Mintable(source) THEN Ok ELSE "IllegalOperation",
                    FreeError(k, dest)>>
    IN  Update(checks, [cnode EXCEPT ![k][dest] = Attenuate(source, rights, badge)], r)

Copy(c, src, dest, r) ==
    LET k      == CapAt(current, c).id
        checks == <<TypeError(current, c, "CNode"), SourceError(k, src), FreeError(k, dest)>>
    IN  Update(checks, [cnode EXCEPT ![k][dest] = SlotAt(k, src)], r)

\* Mutant: the capability is minted into its new slot, and loses its badge on the way.
MoveReminted(c, src, dest, r) ==
    LET k      == CapAt(current, c).id
        source == SlotAt(k, src)
        checks == <<TypeError(current, c, "CNode"), SourceError(k, src), FreeError(k, dest)>>
    IN  Update(checks, [cnode EXCEPT ![k][dest] = Attenuate(source, source.rights, {}),
                                     ![k][src] = Null], r)

Move(c, src, dest, r) ==
    LET k      == CapAt(current, c).id
        checks == <<TypeError(current, c, "CNode"), SourceError(k, src), FreeError(k, dest)>>
    IN  Update(checks, [cnode EXCEPT ![k][dest] = SlotAt(k, src), ![k][src] = Null], r)

\* Mutant: a thread may always delete from its own CSpace.
DeleteAmbient(c, src, r) ==
    LET k == IF TypeError(current, c, "CNode") = Ok
             THEN CapAt(current, c).id ELSE conf[current].cspace
    IN  Update(<<SourceError(k, src)>>, [cnode EXCEPT ![k][src] = Null], r)

\* Delete clears the slot; the object it designated stays allocated.
Delete(c, src, r) ==
    LET k      == CapAt(current, c).id
        checks == <<TypeError(current, c, "CNode"), SourceError(k, src)>>
    IN  Update(checks, [cnode EXCEPT ![k][src] = Null], r)

\* CopyCross: the source slot is in another CNode the caller also holds.
CopyCross(c, from, src, dest, r) ==
    LET k      == CapAt(current, c).id
        j      == CapAt(current, from).id
        checks == <<TypeError(current, c, "CNode"), TypeError(current, from, "CNode"),
                    SourceError(j, src), FreeError(k, dest)>>
    IN  Update(checks, [cnode EXCEPT ![k][dest] = SlotAt(j, src)], r)

\* Revoke is refused (there is no derivation tree yet), and so is any other label.
Revoke(c, r)     == Refused(<<TypeError(current, c, "CNode"), "IllegalOperation">>, r)
OtherLabel(c, r) == Refused(<<TypeError(current, c, "CNode"), "InvalidArgument">>, r)
=============================================================================
