---------------------------- MODULE KernelLemmas ----------------------------
(***************************************************************************)
(* What the operators of the kernel's model answer, preserve and bound:    *)
(* the queues, the checks of a syscall, the registers and the lookups.     *)
(***************************************************************************)
EXTENDS KernelProperties, TLAPS, SequenceTheorems, FiniteSetTheorems

Answer == SyscallError \cup {Ok}

(***************************************************************************)
(* Checks                                                                  *)
(***************************************************************************)

\* Every set of naturals that is not empty has a least member (FirstError and
\* Remove choose one).
LEMMA LeastMember ==
    ASSUME NEW S \in SUBSET Nat, S # {}
    PROVE  \E m \in S : \A n \in S : m <= n
<1> DEFINE T == {1 .. m : m \in S}
<1>1. T \subseteq FiniteSubsetsOf(Nat) /\ T # {}
  <2>1. \A m \in S : 1 .. m \in SUBSET Nat /\ IsFiniteSet(1 .. m)
    BY FS_Interval
  <2> QED
    BY <2>1 DEF FiniteSubsetsOf
<1>2. PICK I \in T : \A J \in T : <<J, I>> \notin StrictSubsetOrdering(Nat)
  BY <1>1, FS_StrictSubsetOrderingWellFounded, WFMin
<1>3. PICK m \in S : I = 1 .. m
  BY <1>2
<1>4. ASSUME NEW n \in S, n < m
      PROVE  FALSE
  <2>1. 1 .. n \in T
    OBVIOUS
  <2>2. 1 .. n \in SUBSET Nat /\ 1 .. m \in SUBSET Nat /\ 1 .. n \subseteq 1 .. m
    BY <1>4
  <2>3. m \in 1 .. m /\ m \notin 1 .. n
    BY <1>4
  <2>4. <<1 .. n, 1 .. m>> \in StrictSubsetOrdering(Nat)
    BY <2>2, <2>3 DEF StrictSubsetOrdering
  <2> QED
    BY <2>1, <2>4, <1>2, <1>3
<1> QED
  BY <1>4

\* A refused syscall answers an error of the fixed enum.
LEMMA FirstErrorType ==
    ASSUME NEW checks \in Seq(Answer), ~Accepted(checks)
    PROVE  FirstError(checks) \in SyscallError
<1> DEFINE bad == {i \in DOMAIN checks : checks[i] # Ok}
<1>1. DOMAIN checks = 1 .. Len(checks) /\ Len(checks) \in Nat
      /\ \A i \in DOMAIN checks : checks[i] \in Answer
  BY LenProperties, ElementOfSeq
<1>2. bad \in SUBSET Nat /\ bad # {}
  BY <1>1 DEF Accepted
<1>3. PICK i \in bad : \A j \in bad : i <= j
  BY <1>2, LeastMember
<1>4. \E k \in DOMAIN checks : checks[k] # Ok /\ \A j \in 1 .. k - 1 : checks[j] = Ok
  BY <1>1, <1>3
<1>5. FirstError(checks) \in Answer /\ FirstError(checks) # Ok
  BY <1>1, <1>4 DEF FirstError
<1> QED
  BY <1>5 DEF Answer

(***************************************************************************)
(* Queues                                                                  *)
(***************************************************************************)

\* A queue without duplicates has room for a thread that is not in it: there
\* are no more threads than MaxTcbs.
LEMMA RoomForOneMore ==
    ASSUME NEW q \in Seq(TCB), NEW S, Lists(q, S), NEW t \in TCB, t \notin S
    PROVE  ~Full(q)
<1> DEFINE n == Len(q)
<1> DEFINE f == [i \in 1 .. n |-> q[i]]
<1>1. n \in Nat /\ DOMAIN q = 1 .. n /\ \A i \in 1 .. n : q[i] \in TCB \ {t}
  BY LenProperties, ElementOfSeq DEF Lists
<1>2. f \in Injection(1 .. n, TCB \ {t})
  BY <1>1 DEF Injection, IsInjective, Lists
<1>3. IsFiniteSet(TCB \ {t}) /\ Cardinality(TCB \ {t}) = Cardinality(TCB) - 1
  BY MaxTcbsAssumption, FS_RemoveElement
<1>4. Cardinality(1 .. n) <= Cardinality(TCB \ {t}) /\ Cardinality(1 .. n) = n
  <2> HIDE DEF n, f
  <2>1. Cardinality(1 .. n) <= Cardinality(TCB \ {t})
    BY <1>2, <1>3, FS_Injection
  <2>2. Cardinality(1 .. n) = n
    BY <1>1, FS_Interval
  <2> QED
    BY <2>1, <2>2
<1>5. Cardinality(TCB) \in Nat
  BY MaxTcbsAssumption, FS_CardinalityType
<1> QED
  BY <1>1, <1>3, <1>4, <1>5, MaxTcbsAssumption DEF Full

\* push_back adds the thread and loses none.
LEMMA PushLists ==
    ASSUME NEW q \in Seq(TCB), NEW S, Lists(q, S), NEW t \in TCB, t \notin S
    PROVE  /\ PushBack(q, t) \in Seq(TCB)
           /\ PushBack(q, t) # <<>>
           /\ Lists(PushBack(q, t), S \cup {t})
<1>1. PushBack(q, t) = Append(q, t)
  BY RoomForOneMore DEF PushBack
<1>2. Len(q) \in Nat /\ DOMAIN q = 1 .. Len(q)
  BY LenProperties
<1> DEFINE p == Append(q, t)
<1>3. /\ p \in Seq(TCB) /\ p # <<>> /\ DOMAIN p = 1 .. Len(q) + 1
      /\ \A i \in 1 .. Len(q) : p[i] = q[i]
      /\ p[Len(q) + 1] = t
  BY AppendProperties, LenProperties
<1> HIDE DEF p
<1>4. Lists(p, S \cup {t})
  BY <1>2, <1>3 DEF Lists
<1> QED
  BY <1>1, <1>3, <1>4 DEF p

\* pop_front answers the first thread and leaves the others.
LEMMA TailLists ==
    ASSUME NEW q \in Seq(TCB), NEW S, Lists(q, S), q # <<>>
    PROVE  /\ Head(q) \in TCB /\ Head(q) \in S
           /\ Tail(q) \in Seq(TCB)
           /\ Lists(Tail(q), S \ {Head(q)})
<1> DEFINE p == Tail(q)
<1> DEFINE h == Head(q)
<1>1. Len(q) \in Nat /\ Len(q) # 0 /\ DOMAIN q = 1 .. Len(q)
  BY LenProperties, EmptySeq
<1>2. h = q[1]
  OBVIOUS
<1>3. /\ h \in TCB /\ p \in Seq(TCB) /\ Len(p) = Len(q) - 1
      /\ \A i \in 1 .. Len(p) : p[i] = q[i + 1]
  BY HeadTailProperties
<1>4. DOMAIN p = 1 .. Len(q) - 1 /\ \A i \in 1 .. Len(q) - 1 : p[i] = q[i + 1]
  BY <1>3, LenProperties
<1> HIDE DEF p, h
<1>5. h \in S
  BY <1>1, <1>2 DEF Lists
<1>6. \A i \in DOMAIN p : p[i] \in S /\ p[i] # h
  BY <1>1, <1>2, <1>4 DEF Lists
<1>7. ASSUME NEW u \in S, u # h
      PROVE  \E i \in DOMAIN p : p[i] = u
  <2>1. PICK k \in DOMAIN q : q[k] = u
    BY <1>7 DEF Lists
  <2>2. k - 1 \in DOMAIN p /\ p[k - 1] = u
    BY <2>1, <1>1, <1>2, <1>4, <1>7
  <2> QED
    BY <2>2
<1>8. ASSUME NEW i \in DOMAIN p, NEW j \in DOMAIN p, p[i] = p[j]
      PROVE  i = j
  <2>1. i \in 1 .. Len(q) - 1 /\ j \in 1 .. Len(q) - 1
    BY <1>4
  <2>2. i + 1 \in DOMAIN q /\ j + 1 \in DOMAIN q
    BY <2>1, <1>1
  <2>3. q[i + 1] = q[j + 1]
    BY <2>1, <1>4, <1>8
  <2>4. i + 1 = j + 1
    BY <2>2, <2>3 DEF Lists
  <2> QED
    BY <2>1, <2>4, <1>1
<1>9. Lists(p, S \ {h})
  BY <1>6, <1>7, <1>8 DEF Lists
<1> QED
  BY <1>3, <1>5, <1>9 DEF p, h

\* remove takes the thread out, and only that one.
LEMMA RemoveLists ==
    ASSUME NEW q \in Seq(TCB), NEW S, Lists(q, S), NEW t
    PROVE  Remove(q, t) \in Seq(TCB) /\ Lists(Remove(q, t), S \ {t})
<1> DEFINE found == {i \in 1 .. Len(q) : q[i] = t}
<1> DEFINE first == CHOOSE i \in found : \A j \in found : i <= j
<1>1. Len(q) \in Nat /\ DOMAIN q = 1 .. Len(q) /\ \A i \in 1 .. Len(q) : q[i] \in TCB
  BY LenProperties, ElementOfSeq
<1>2. CASE found = {}
  <2>1. Remove(q, t) = q
    BY <1>2 DEF Remove
  <2>2. t \notin S
    BY <1>1, <1>2 DEF Lists
  <2> QED
    BY <2>1, <2>2 DEF Lists
<1>3. CASE found # {}
  <2> DEFINE p == [i \in 1 .. Len(q) - 1 |-> IF i < first THEN q[i] ELSE q[i + 1]]
  <2>1. Remove(q, t) = p
    BY <1>3 DEF Remove
  <2>2. first \in 1 .. Len(q) /\ q[first] = t
    <3>1. \E i \in found : \A j \in found : i <= j
      <4>1. found \in SUBSET Nat
        BY <1>1
      <4> HIDE DEF found
      <4> QED
        BY <4>1, <1>3, LeastMember
    <3>2. first \in found
      BY <3>1
    <3> QED
      BY <3>2
  <2> HIDE DEF first
  <2>3. Len(q) - 1 \in Nat /\ \A i \in 1 .. Len(q) - 1 : p[i] \in TCB
    BY <1>1, <2>2
  <2>4. p \in Seq(TCB)
    BY <2>3, SeqDef
  <2>5. DOMAIN p = 1 .. Len(q) - 1
    OBVIOUS
  <2>6. \A i \in 1 .. Len(q) - 1 : p[i] = IF i < first THEN q[i] ELSE q[i + 1]
    OBVIOUS
  <2> HIDE DEF p
  <2>7. \A i \in DOMAIN p : p[i] \in S \ {t}
    BY <1>1, <2>2, <2>5, <2>6 DEF Lists
  <2>8. ASSUME NEW u \in S \ {t}
        PROVE  \E i \in DOMAIN p : p[i] = u
    <3>1. PICK k \in 1 .. Len(q) : q[k] = u
      BY <1>1 DEF Lists
    <3>2. CASE k < first
      BY <3>1, <3>2, <1>1, <2>2, <2>5, <2>6
    <3>3. CASE k > first
      <4>1. k - 1 \in DOMAIN p /\ p[k - 1] = u
        BY <3>1, <3>3, <1>1, <2>2, <2>5, <2>6
      <4> QED
        BY <4>1
    <3> QED
      BY <3>1, <3>2, <3>3, <2>2
  <2>9. ASSUME NEW i \in DOMAIN p, NEW j \in DOMAIN p, p[i] = p[j]
        PROVE  i = j
    <3>1. PICK k \in DOMAIN q : p[i] = q[k] /\ k = IF i < first THEN i ELSE i + 1
      BY <1>1, <2>2, <2>5, <2>6
    <3>2. PICK l \in DOMAIN q : p[j] = q[l] /\ l = IF j < first THEN j ELSE j + 1
      BY <1>1, <2>2, <2>5, <2>6
    <3>3. k = l
      BY <2>9, <3>1, <3>2 DEF Lists
    <3> QED
      BY <3>1, <3>2, <3>3, <1>1, <2>2, <2>5
  <2> QED
    BY <2>1, <2>4, <2>7, <2>8, <2>9 DEF Lists
<1> QED
  BY <1>2, <1>3

(***************************************************************************)
(* Registers and lookups                                                   *)
(***************************************************************************)

\* A refused request is a frame.
LEMMA FailureType ==
    ASSUME NEW f \in Frame, NEW e \in SyscallError
    PROVE  Failure(f, e) \in Frame
  BY DEF Frame, Failure

\* An answered request is a frame.
LEMMA SuccessType ==
    ASSUME NEW f \in Frame
    PROVE  Success(f) \in Frame
  BY DEF Frame, Success

\* The registers a thread traps with are a frame.
LEMMA RequestType ==
    ASSUME NEW t \in TCB, NEW xc \in 0 .. 3, NEW err \in BOOLEAN
    PROVE  Request(t, xc, err) \in Frame
  BY DEF Frame, Request

\* A delivered message is a frame, its badge a word.
LEMMA DeliveredType ==
    ASSUME NEW r \in Frame, NEW b \in Word
    PROVE  Delivered(r, b) \in Frame
  BY DEF Frame, Delivered

\* A frame whose mr0 is set to a badge is a frame.
LEMMA BadgedType ==
    ASSUME NEW r \in Frame, NEW b \in Word
    PROVE  [r EXCEPT !.mr0 = Badge(b)] \in Frame
  BY DEF Frame

\* What a lookup answers is a capability, and an error is one of the enum.
LEMMA CapAtType ==
    ASSUME TypeOK, NEW t \in TCB, NEW c
    PROVE  CapAt(t, c) \in Capability
  BY DEF TypeOK, Config, CNodeTable, CapAt, Capability

\* A check answers Ok or an error of the syscall interface.
LEMMA InvokeErrorType ==
    ASSUME NEW t, NEW c, NEW type, NEW right
    PROVE  /\ LookupError(t, c) \in Answer
           /\ TypeError(t, c, type) \in Answer
           /\ InvokeError(t, c, type, right) \in Answer
  BY DEF LookupError, TypeError, InvokeError, Answer, SyscallError, Ok

\* An accepted lookup answers a capability of the type asked for.
LEMMA LookupAccepted ==
    ASSUME NEW t, NEW c, NEW type, NEW right
    PROVE  /\ TypeError(t, c, type) = Ok =>
                 /\ CapAt(t, c) # Null
                 /\ CapAt(t, c).type = type
                 /\ conf[t].cspace # None
                 /\ c \in Slot
           /\ InvokeError(t, c, type, right) = Ok =>
                 /\ TypeError(t, c, type) = Ok
                 /\ right \in CapAt(t, c).rights
  BY DEF LookupError, TypeError, InvokeError, CapAt, Ok

\* The fields of a capability have the types of the object it names.
LEMMA CapabilityFields ==
    ASSUME NEW cap \in Capability
    PROVE  /\ cap.badge \in Word /\ cap.rights \in SUBSET Right
           /\ cap.type = "Endpoint" => cap.id \in ENDPOINT
           /\ cap.type = "Notification" => cap.id \in NTFN
           /\ cap.type = "CNode" => cap.id \in CNODE /\ cap.rights = {}
           /\ cap.type = "Tcb" => cap.id \in TCB
           /\ cap.type = "SchedContext" => cap.id \in SCHED
           /\ cap.type = "VSpace" => cap.id \in VSPACE
  BY DEF Capability, Null, CNodeCap, RightsOnly, Badged, Word

\* Minting yields a capability (cnode::attenuate).
LEMMA AttenuateType ==
    ASSUME NEW cap \in Capability, Mintable(cap), NEW b \in Word, NEW rights \in SUBSET Right
    PROVE  Attenuate(cap, rights, b) \in Capability
<1>1. CASE cap \in Badged
  BY <1>1 DEF Capability, Badged, Attenuate
<1>2. CASE cap \in RightsOnly
  BY <1>2 DEF Capability, RightsOnly, Attenuate
<1>3. cap \in Badged \/ cap \in RightsOnly
  BY DEF Capability, Null, CNodeCap, Mintable
<1> QED
  BY <1>1, <1>2, <1>3
=============================================================================
