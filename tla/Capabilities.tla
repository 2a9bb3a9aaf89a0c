---------------------------- MODULE Capabilities ----------------------------
(***************************************************************************)
(* The capability values of the kernel (src/cap.rs) and the fixed error    *)
(* enum (src/error.rs).  An object is named by an identifier, a badge is   *)
(* a machine word represented by the set of its one bits, so that the OR   *)
(* of two words is the union of two sets, and rights are a subset of       *)
(* Right.                                                                  *)
(***************************************************************************)
EXTENDS Naturals, FiniteSets

CONSTANTS
    CNODE,      \* identifiers of the CNodes (tables of capabilities)
    TCB,        \* identifiers of the thread control blocks
    ENDPOINT,   \* identifiers of the endpoints
    NTFN,       \* identifiers of the notifications
    SCHED,      \* identifiers of the scheduling contexts
    VSPACE,     \* identifiers of the address spaces
    UNTYPED,    \* identifiers of the untyped memories
    FRAME,      \* identifiers of the frames
    Bit,        \* the bits of a badge or signal word
    CNodeSlots, \* CNODE_SLOTS: capacity of a CNode
    None        \* Rust's Option::None

ASSUME SlotsAssumption == CNodeSlots \in Nat \ {0}
ASSUME NoneAssumption ==
    None \notin CNODE \cup TCB \cup ENDPOINT \cup NTFN \cup SCHED \cup VSPACE
                  \cup UNTYPED \cup FRAME \cup Nat

Slot == 0 .. CNodeSlots - 1

Right == {"READ", "WRITE", "GRANT"}

Word == SUBSET Bit

Null == [type |-> "Null", id |-> None, badge |-> {}, rights |-> {}]

\* The object types whose capability carries rights but no badge.
RightsOnly == [type : {"Tcb"}, id : TCB, badge : {{}}, rights : SUBSET Right]
         \cup [type : {"SchedContext"}, id : SCHED, badge : {{}}, rights : SUBSET Right]
         \cup [type : {"VSpace"}, id : VSPACE, badge : {{}}, rights : SUBSET Right]
         \cup [type : {"Untyped"}, id : UNTYPED, badge : {{}}, rights : SUBSET Right]
         \cup [type : {"Frame"}, id : FRAME, badge : {{}}, rights : SUBSET Right]

Badged == [type : {"Endpoint"}, id : ENDPOINT, badge : Word, rights : SUBSET Right]
     \cup [type : {"Notification"}, id : NTFN, badge : Word, rights : SUBSET Right]

\* A CNode capability has no rights of its own: holding it is full access.
CNodeCap == [type : {"CNode"}, id : CNODE, badge : {{}}, rights : {{}}]

Capability == {Null} \cup CNodeCap \cup RightsOnly \cup Badged

\* Option<Capability>
ASSUME NoCapabilityAssumption == None \notin Capability

CNodeTable == [Slot -> Capability]

SyscallError ==
    {"InvalidCapability", "InvalidArgument", "IllegalOperation", "RangeError",
     "AlignmentError", "FailedLookup", "TruncatedMessage", "NotEnoughMemory", "Timeout"}

\* What a check answers when it finds nothing wrong.
Ok == "Ok"

(***************************************************************************)
(* cnode::attenuate.  The caller has established rights \subseteq          *)
(* cap.rights; the badge of an endpoint or notification capability is      *)
(* replaced whatever it was, the other types ignore it.  A CNode           *)
(* capability cannot be minted.                                            *)
(***************************************************************************)
Mintable(cap) == cap.type \notin {"Null", "CNode"}

\* Mutant: minting an endpoint or notification capability restores its rights.
AttenuateNothing(cap, rights, badge) == [cap EXCEPT !.rights = Right, !.badge = badge]

Attenuate(cap, rights, badge) ==
    IF cap.type \in {"Endpoint", "Notification"}
    THEN [cap EXCEPT !.rights = rights, !.badge = badge]
    ELSE [cap EXCEPT !.rights = rights]

\* One capability confers no more than another: same object, fewer rights.
DerivedFrom(cap, source) ==
    /\ cap.type = source.type
    /\ cap.id = source.id
    /\ cap.rights \subseteq source.rights
=============================================================================
