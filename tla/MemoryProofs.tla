---------------------------- MODULE MemoryProofs -----------------------------
(***************************************************************************)
(* What the kernel keeps when memory is among its syscalls: everything     *)
(* StepProofs and AuthorityProofs show of a step of Kernel; that whatever  *)
(* a thread can name exists; and that authority comes only from what was   *)
(* held before, or out of untyped memory that is paid for.                 *)
(***************************************************************************)
EXTENDS MemoryProperties, AuthorityProofs, StepProofs

(***************************************************************************)
(* Checks                                                                  *)
(***************************************************************************)

\* The checks of a retype are checks, and what they establish.
LEMMA RetypeChecked ==
    ASSUME NEW c, NEW word, NEW dest
    PROVE  /\ RetypeChecks(c, word, dest) \in Seq(Answer)
           /\ Accepted(RetypeChecks(c, word, dest)) =>
                 /\ InvokeError(current, c, "Untyped", "WRITE") = Ok
                 /\ BudgetError(CapAt(current, c).id) = Ok
                 /\ FreeError(conf[current].cspace, dest) = Ok
<1> DEFINE u == CapAt(current, c).id
<1> DEFINE k == conf[current].cspace
<1>1. ASSUME NEW a1 \in Answer, NEW a2 \in Answer, NEW a3 \in Answer, NEW a4 \in Answer
      PROVE  /\ <<a1, a2, a3, a4>> \in Seq(Answer)
             /\ Accepted(<<a1, a2, a3, a4>>) => a1 = Ok /\ a3 = Ok /\ a4 = Ok
  BY DEF Accepted
<1>2. /\ InvokeError(current, c, "Untyped", "WRITE") \in Answer
      /\ FreeError(k, dest) \in Answer
  BY InvokeErrorType, SlotErrors
<1>3. /\ (IF word = "None" THEN "InvalidArgument" ELSE Ok) \in Answer
      /\ BudgetError(u) \in Answer
  BY DEF BudgetError, Answer, SyscallError, Ok
<1> HIDE DEF u, k
<1> QED
  BY <1>1, <1>2, <1>3 DEF RetypeChecks, u, k

\* The rooms answer, like checks.
LEMMA RoomAnswers ==
    /\ \A type : RoomInPool(type) \in Answer
    /\ \A pages : RoomInArena(pages) \in Answer
    /\ \A u, bytes : BumpError(u, bytes) \in Answer
  BY DEF RoomInPool, RoomInArena, BumpError, Answer, SyscallError, Ok

\* The checks of Map, Unmap and FrameInvoke are checks.
LEMMA FrameChecked ==
    /\ \A f, v, vaddr : MapChecks(f, v, vaddr) \in Seq(Answer)
    /\ \A v : <<InvokeError(current, v, "VSpace", "WRITE")>> \in Seq(Answer)
    /\ \A c, label : <<InvokeError(current, c, "Frame", "WRITE"),
                       IF label \in {"Map", "Unmap"} THEN Ok ELSE "InvalidArgument">>
                     \in Seq(Answer)
<1>1. {Ok, "InvalidArgument", "IllegalOperation", "AlignmentError"} \subseteq Answer
  BY DEF Answer, SyscallError
<1>2. ASSUME NEW f, NEW v, NEW vaddr
      PROVE  MapChecks(f, v, vaddr) \in Seq(Answer)
  <2>1. ASSUME NEW a1 \in Answer, NEW a2 \in Answer, NEW a3 \in Answer, NEW a4 \in Answer
        PROVE  <<a1, a2, a3, a4>> \in Seq(Answer)
    OBVIOUS
  <2>2. InvokeError(current, v, "VSpace", "WRITE") \in Answer
    BY InvokeErrorType
  <2>3. /\ (IF FreeMappings(f) = {} THEN "IllegalOperation" ELSE Ok) \in Answer
        /\ (IF vaddr % Bytes(mapping[f].size) # 0 THEN "AlignmentError" ELSE Ok) \in Answer
        /\ TakenError(CapAt(current, v).id, vaddr) \in Answer
    BY <1>1, Zenon DEF TakenError
  <2> QED
    BY <2>1, <2>2, <2>3, Zenon DEF MapChecks
<1>3. \A v : <<InvokeError(current, v, "VSpace", "WRITE")>> \in Seq(Answer)
  BY InvokeErrorType
<1>4. ASSUME NEW c, NEW label
      PROVE  <<InvokeError(current, c, "Frame", "WRITE"),
               IF label \in {"Map", "Unmap"} THEN Ok ELSE "InvalidArgument">> \in Seq(Answer)
  <2>1. InvokeError(current, c, "Frame", "WRITE") \in Answer
    BY InvokeErrorType
  <2> QED
    BY <1>1, <2>1
<1> QED
  BY <1>2, <1>3, <1>4

(***************************************************************************)
(* What the two syscalls on memory do to the rest of the kernel's state:   *)
(* they answer, or they make one object and name it.                       *)
(***************************************************************************)
Answers ==
    /\ frame' \in Frame /\ frame'.from = current /\ Untold
    /\ UNCHANGED <<threadVars, ready, current, active, ipcVars, cnode, taken, budget>>

Makes(c, type, dest) ==
    /\ InvokeError(current, c, "Untyped", "WRITE") = Ok
    /\ BudgetError(CapAt(current, c).id) = Ok
    /\ FreeError(conf[current].cspace, dest) = Ok
    /\ Free(type) # {}
    /\ \E r \in Frame : r.from = current /\ r.mr0 = Own /\ Retyped(c, type, dest, r)

AnswersOrMakes == Answers \/ \E c, dest : \E type \in DOMAIN Pool : Makes(c, type, dest)

\* A new object's capability is one.
LEMMA NewCapType ==
    ASSUME NEW type \in DOMAIN Pool, Free(type) # {}
    PROVE  /\ Fresh(type) \in Pool[type] /\ Fresh(type) \notin taken[type]
           /\ NewCap(type) \in Capability
<1>1. Fresh(type) \in Free(type)
  BY DEF Fresh
<1>2. Fresh(type) \in Pool[type] /\ Fresh(type) \notin taken[type]
  BY <1>1 DEF Free
<1>3. {} \in Word /\ Right \in SUBSET Right
  BY DEF Word
<1>4. type \in {"CNode", "Endpoint", "Notification", "Tcb", "SchedContext", "VSpace", "Frame"}
  BY DEF Pool
<1>5. CASE type = "CNode"
  BY <1>2, <1>5 DEF Pool, NewCap, Capability, CNodeCap
<1>6. CASE type = "Endpoint"
  BY <1>2, <1>3, <1>6 DEF Pool, NewCap, Capability, Badged
<1>7. CASE type = "Notification"
  BY <1>2, <1>3, <1>7 DEF Pool, NewCap, Capability, Badged
<1>8. CASE type \in {"Tcb", "SchedContext", "VSpace", "Frame"}
  BY <1>2, <1>3, <1>8 DEF Pool, NewCap, Capability, RightsOnly
<1> QED
  BY <1>2, <1>4, <1>5, <1>6, <1>7, <1>8

\* A syscall that fails a check answers, and so does one that succeeds.
LEMMA RefusedAnswers ==
    ASSUME NEW r \in Frame, r.from = current, r.mr0 = Own, NEW checks \in Seq(Answer),
           Refused(checks, r), UNCHANGED <<taken, budget>>
    PROVE  Answers
<1>1. frame' = Failure(r, FirstError(checks)) /\ FirstError(checks) \in SyscallError
  BY FirstErrorType DEF Refused
<1>2. frame' \in Frame /\ frame'.from = current
  BY <1>1, FailureType DEF Failure, Frame
<1>3. Untold
  BY <1>1, Unbadged
<1> QED
  BY <1>2, <1>3 DEF Refused, Answers

LEMMA OneRefused ==
    ASSUME NEW r \in Frame, r.from = current, r.mr0 = Own, NEW a \in Answer,
           Refused(<<a>>, r), UNCHANGED <<taken, budget>>
    PROVE  Answers
<1>1. <<a>> \in Seq(Answer)
  OBVIOUS
<1> QED
  BY <1>1, RefusedAnswers

LEMMA SuccessAnswers ==
    ASSUME NEW r \in Frame, r.from = current, r.mr0 = Own, frame' = Success(r),
           UNCHANGED <<threadVars, ready, current, active, ipcVars, cnode, taken, budget>>
    PROVE  Answers
<1>1. frame' \in Frame /\ frame'.from = current /\ Untold
  BY SuccessType, Unbadged DEF Success, Frame
<1> QED
  BY <1>1 DEF Answers

LEMMA RetypeMakes ==
    ASSUME NEW r \in Frame, r.from = current, r.mr0 = Own, NEW c, NEW word, NEW dest,
           UntypedRetype(c, word, dest, r)
    PROVE  AnswersOrMakes
<1> DEFINE checks == RetypeChecks(c, word, dest)
<1>1. CASE Refused(checks, r) /\ UNCHANGED memVars
  BY <1>1, RetypeChecked, RefusedAnswers DEF memVars, AnswersOrMakes
<1>2. CASE Accepted(checks)
  <2>1. /\ InvokeError(current, c, "Untyped", "WRITE") = Ok
        /\ BudgetError(CapAt(current, c).id) = Ok
        /\ FreeError(conf[current].cspace, dest) = Ok
    BY <1>2, RetypeChecked
  <2>2. ASSUME NEW type \in DOMAIN Pool, Free(type) # {}, Retyped(c, type, dest, r)
        PROVE  AnswersOrMakes
    BY <2>1, <2>2 DEF Makes, AnswersOrMakes
  <2>3. ASSUME word \in DOMAIN Pool, RetypePooled(c, word, dest, r)
        PROVE  AnswersOrMakes
    BY <2>2, <2>3, RoomAnswers, OneRefused DEF RetypePooled, memVars, AnswersOrMakes
  <2>4. ASSUME RetypeVSpace(c, dest, r)
        PROVE  AnswersOrMakes
    <3>1. "VSpace" \in DOMAIN Pool
      BY DEF Pool
    <3> QED
      BY <2>2, <2>4, <3>1, RoomAnswers, OneRefused DEF RetypeVSpace, memVars, AnswersOrMakes
  <2>5. ASSUME NEW size, RetypeFrame(c, size, dest, r)
        PROVE  AnswersOrMakes
    <3>1. "Frame" \in DOMAIN Pool
      BY DEF Pool
    <3> QED
      BY <2>2, <2>5, <3>1, RoomAnswers, OneRefused DEF RetypeFrame, memVars, AnswersOrMakes
  <2>6. ASSUME Refused(<<"InvalidArgument">>, r), UNCHANGED memVars
        PROVE  AnswersOrMakes
    BY <2>6, OneRefused DEF Answer, SyscallError, memVars, AnswersOrMakes
  <2> QED
    BY <1>2, <2>3, <2>4, <2>5, <2>6 DEF UntypedRetype, Refused
<1> QED
  BY <1>1, <1>2 DEF UntypedRetype

LEMMA FrameAnswers ==
    ASSUME NEW r \in Frame, r.from = current, r.mr0 = Own, NEW c, NEW label, NEW v, NEW vaddr,
           FrameInvoke(c, label, v, vaddr, r)
    PROVE  Answers
<1> DEFINE f == CapAt(current, c).id
<1>1. ASSUME Map(f, v, vaddr, r)
      PROVE  Answers
  BY <1>1, FrameChecked, RefusedAnswers, RoomAnswers, OneRefused, SuccessAnswers DEF Map, memVars
<1>2. ASSUME Unmap(f, v, r)
      PROVE  Answers
  BY <1>2, FrameChecked, RefusedAnswers, SuccessAnswers DEF Unmap, memVars
<1> QED
  BY <1>1, <1>2, FrameChecked, RefusedAnswers DEF FrameInvoke, memVars

LEMMA MemoryTraps ==
    ASSUME Inv, MemoryTrap
    PROVE  current # None /\ AnswersOrMakes
<1>1. PICK err \in Flags :
        LET r == Request(current, 0, err)
        IN  \/ \E w \in Retypes : UntypedRetype(w[1], w[2], w[3], r)
            \/ \E w \in FrameWords : FrameInvoke(w[1], w[2], w[3], w[4], r)
  BY DEF MemoryTrap
<1> DEFINE r == Request(current, 0, err)
<1>2. current # None /\ r \in Frame /\ r.from = current /\ r.mr0 = Own
  BY CurrentRuns, RequestType, ProgramsAssumption DEF MemoryTrap, Request
<1> HIDE DEF r
<1>3. ASSUME NEW w \in Retypes, UntypedRetype(w[1], w[2], w[3], r)
      PROVE  AnswersOrMakes
  BY <1>2, <1>3, RetypeMakes
<1>4. ASSUME NEW w \in FrameWords, FrameInvoke(w[1], w[2], w[3], w[4], r)
      PROVE  AnswersOrMakes
  BY <1>2, <1>4, FrameAnswers DEF AnswersOrMakes
<1> QED
  BY <1>1, <1>2, <1>3, <1>4 DEF r

(***************************************************************************)
(* The invariants and the action properties of the kernel                  *)
(***************************************************************************)

\* What a retype does, as far as the slots and the pools go.
LEMMA ObjectMade ==
    ASSUME Inv, current # None, NEW c, NEW dest, NEW type \in DOMAIN Pool,
           Makes(c, type, dest)
    PROVE  /\ conf[current].cspace \in CNODE /\ dest \in Slot
           /\ cnode[conf[current].cspace][dest] = Null
           /\ cnode' = [cnode EXCEPT ![conf[current].cspace][dest] = NewCap(type)]
           /\ Fresh(type) \in Free(type) /\ NewCap(type) \in Capability
           /\ taken' = [taken EXCEPT ![type] = @ \cup {Fresh(type)}]
           /\ CapAt(current, c).id \in UNTYPED
           /\ Wields("Untyped", CapAt(current, c).id, "WRITE")
           /\ budget' = Paid(CapAt(current, c).id)
           /\ frame' \in Frame /\ frame'.from = current /\ Untold
           /\ UNCHANGED <<threadVars, ready, current, active, ipcVars>>
<1>1. PICK r \in Frame : r.from = current /\ r.mr0 = Own /\ Retyped(c, type, dest, r)
  BY DEF Makes
<1>2. PICK cap : cap = CapAt(current, c)
  OBVIOUS
<1>3. /\ cap \in Capability /\ cap.type = "Untyped" /\ conf[current].cspace \in CNODE
      /\ Wields("Untyped", cap.id, "WRITE")
  BY <1>2, CurrentRuns, CapAtType, LookupAccepted, InvokedWielded DEF Makes, Inv, TypeOK, Config
<1>4. cap.id \in UNTYPED
  BY <1>3 DEF Capability, Null, CNodeCap, RightsOnly, Badged
<1>5. dest \in Slot /\ cnode[conf[current].cspace][dest] = Null
  BY <1>3, FreeSlot DEF Makes
<1>6. Fresh(type) \in Free(type) /\ NewCap(type) \in Capability
  BY NewCapType DEF Makes, Free
<1>7. frame' \in Frame /\ frame'.from = current /\ Untold
  BY <1>1, SuccessType, Unbadged DEF Retyped, Success, Frame
<1> QED
  BY <1>1, <1>2, <1>3, <1>4, <1>5, <1>6, <1>7 DEF Retyped, Take

\* Memory's syscalls keep what every step of the kernel keeps.
LEMMA MemoryLawful ==
    ASSUME StepInv, current # None, AnswersOrMakes
    PROVE  Inv' /\ Lawful
<1>1. CASE Answers
  <2>1. Inv'
    BY <1>1, QuietStep DEF Answers, StepInv, Inv, TypeOK
  <2>2. SlotsKept /\ SignalsKept
    BY <1>1, NoBits DEF Answers, SlotsKept, ipcVars
  <2> QED
    BY <1>1, <2>1, <2>2, KeepsHart DEF Answers, ipcVars
<1>2. ASSUME NEW c, NEW dest, NEW type \in DOMAIN Pool, Makes(c, type, dest)
      PROVE  Inv' /\ Lawful
  <2>1. PICK k \in CNODE, s \in Slot, cap \in Capability :
          /\ cnode[k][s] = Null /\ cnode' = [cnode EXCEPT ![k][s] = cap]
          /\ frame' \in Frame /\ frame'.from = current /\ Untold
          /\ UNCHANGED <<threadVars, ready, current, active, ipcVars>>
    BY <1>2, ObjectMade DEF StepInv
  <2>2. Inv'
    BY <2>1, SlotSet, QuietStep DEF StepInv, Inv
  <2>3. SlotsKept
    BY <2>1, OneSlot DEF StepInv, Inv
  <2>4. SignalsKept
    BY <2>1, NoBits DEF ipcVars
  <2> QED
    BY <2>1, <2>2, <2>3, <2>4, KeepsHart DEF ipcVars
<1> QED
  BY <1>1, <1>2 DEF AnswersOrMakes

\* A step of either part of the kernel keeps what one of Kernel does.
LEMMA MemoryNextLawful ==
    ASSUME StepInv, MemoryNext
    PROVE  Inv' /\ Lawful
<1>1. CASE MemoryTrap
  <2>1. current # None /\ AnswersOrMakes
    BY <1>1, MemoryTraps DEF StepInv
  <2> QED
    BY <2>1, MemoryLawful
<1>2. CASE Next
  BY <1>2, NextInv, NextLawful DEF StepInv
<1> QED
  BY <1>1, <1>2 DEF MemoryNext

LEMMA MemoryNextInv == StepInv /\ [MemoryNext]_allVars => StepInv'
<1>1. CASE StepInv /\ MemoryNext
  BY <1>1, MemoryNextLawful DEF StepInv, Lawful
<1>2. CASE StepInv /\ UNCHANGED allVars
  <2>1. UNCHANGED vars
    BY <1>2 DEF allVars
  <2> QED
    BY <1>2, <2>1, StutterLawful, NextInv DEF StepInv
<1> QED
  BY <1>1, <1>2

\* With memory among the syscalls, everything Kernel promises of threads, queues,
\* reply links and queued messages still holds.
THEOREM MemoryInvariance == MemorySpec => []StepInv
<1>1. MemoryInit => StepInv
  BY InitLawful DEF MemoryInit
<1> QED
  BY <1>1, MemoryNextInv, PTL DEF MemorySpec

\* What the kernel promises of every step, it promises with memory among its syscalls.
THEOREM MemoryStepsLawful ==
    MemorySpec => /\ WokenByPartner /\ SleepersWoken /\ SignalsConserved /\ RendezvousKept
                  /\ SlotsNeverReplaced /\ LinksNotDropped /\ TranslationFollows
<1>1. StepInv /\ [MemoryNext]_allVars =>
         /\ [PartnersWake]_vars /\ [SleepersWake]_vars /\ [SignalsKept]_vars
         /\ [SlotsKept]_vars /\ [LinksKept]_vars /\ [TranslationKept]_vars
  BY MemoryNextLawful DEF Lawful, allVars
<1>2. StepInv /\ [MemoryNext]_allVars => [Promise!Next]_(Promise!rendezvousVars)
  <2>1. CASE StepInv /\ MemoryNext
    BY <2>1, MemoryNextLawful
       DEF Lawful, RendezvousStep, Promise!rendezvousVars, Offers, Listeners, Calling, Awaiting, Heard
  <2>2. CASE StepInv /\ UNCHANGED allVars
    <3>1. UNCHANGED vars
      BY <2>2 DEF allVars
    <3> QED
      BY <2>2, <3>1, StutterLawful
         DEF Promise!rendezvousVars, Offers, Listeners, Calling, Awaiting, Heard
  <2> QED
    BY <2>1, <2>2
<1>3. MemoryInit => Promise!Init
  BY InitLawful DEF MemoryInit
<1> QED
  BY <1>1, <1>2, <1>3, MemoryInvariance, PTL
     DEF MemorySpec, WokenByPartner, SleepersWoken, SignalsConserved, RendezvousKept, Promise!Spec,
         SlotsNeverReplaced, LinksNotDropped, TranslationFollows

(***************************************************************************)
(* Nothing names an object that is not there                               *)
(***************************************************************************)

\* A thread's configuration is kept, or it becomes what the running thread's
\* capabilities name.
Reconfigured(t) ==
    /\ \E c \in Slot : /\ CapAt(current, c).type = "CNode"
                       /\ conf'[t].cspace = CapAt(current, c).id
    /\ \/ conf'[t].vspace = None
       \/ \E c \in Slot : /\ CapAt(current, c).type = "VSpace"
                          /\ conf'[t].vspace = CapAt(current, c).id

LEMMA ConfigureNamed ==
    ASSUME Inv, current # None, NEW r, NEW c, NEW cs, NEW sc, NEW vs,
           TCBConfigure(c, cs, sc, vs, r)
    PROVE  \A t \in TCB : conf'[t] = conf[t] \/ Reconfigured(t)
<1>1. CASE Refused(ConfigureChecks(c, cs, sc, vs), r)
  BY <1>1 DEF Refused, threadVars
<1>2. CASE ~Refused(ConfigureChecks(c, cs, sc, vs), r)
  <2>1. PICK target : target = CapAt(current, c).id
    OBVIOUS
  <2>2. PICK config :
          /\ config = [cspace |-> CapAt(current, cs).id, sched |-> CapAt(current, sc).id,
                       vspace |-> IF vs = 0 THEN None ELSE CapAt(current, vs).id]
          /\ Accepted(ConfigureChecks(c, cs, sc, vs)) /\ conf' = [conf EXCEPT ![target] = config]
    BY <1>2, <2>1 DEF TCBConfigure
  <2>3. /\ TypeError(current, cs, "CNode") = Ok
        /\ vs = 0 \/ TypeError(current, vs, "VSpace") = Ok
    <3>1. ASSUME NEW a1, NEW a2, NEW a3, NEW a4, Accepted(<<a1, a2, a3, a4>>)
          PROVE  a2 = Ok /\ a4 = Ok
      BY <3>1 DEF Accepted
    <3>2. /\ TypeError(current, cs, "CNode") = Ok
          /\ (IF vs = 0 THEN Ok ELSE InvokeError(current, vs, "VSpace", "WRITE")) = Ok
      BY <2>2, <3>1 DEF ConfigureChecks
    <3> QED
      BY <3>2, LookupAccepted
  <2>4. /\ cs \in Slot /\ CapAt(current, cs).type = "CNode"
        /\ vs = 0 \/ (vs \in Slot /\ CapAt(current, vs).type = "VSpace")
    BY <2>3, LookupAccepted
  <2>5. \A t \in TCB : conf'[t] = conf[t] \/ conf'[t] = config
    BY <2>2 DEF Inv, TypeOK
  <2> QED
    BY <2>2, <2>4, <2>5 DEF Reconfigured
<1> QED
  BY <1>1, <1>2

LEMMA NextConfigures ==
    ASSUME Inv, current # None, [Next]_vars
    PROVE  \A t \in TCB : conf'[t] = conf[t] \/ Reconfigured(t)
<1>1. ~Boot
  BY DEF Boot, BootConfigure, BootMakeReady, EnterFirstThread
<1>2. CASE Trap
  <2>1. PICK xc \in ExtraCaps, err \in Flags : Dispatch(Request(current, xc, err))
    BY <1>2 DEF Trap
  <2>2. PICK r : r = Request(current, xc, err)
    OBVIOUS
  <2>3. Dispatch(r)
    BY <2>1, <2>2
  <2>4. \A checks : Refused(checks, r) => conf' = conf
    BY DEF Refused, threadVars
  <2>5. ASSUME NEW c, NEW m, EndpointSyscall(c, m, r)
        PROVE  conf' = conf
    BY <2>4, <2>5 DEF EndpointSyscall, Send, NBSend, Call, Recv, SendToReceiver, QueueSender,
                      CallReceiver, TakeMessage, QueueReceiver, threadVars
  <2>6. ASSUME NEW m, Reply(m, r)
        PROVE  conf' = conf
    BY <2>4, <2>6 DEF Reply, AnswerCaller
  <2>7. ASSUME NEW c, NotificationSyscall(c, r)
        PROVE  conf' = conf
    BY <2>4, <2>7 DEF NotificationSyscall, Signal, Wait, Poll, ConsumeSignals, QueueWaiter,
                      threadVars
  <2>8. ASSUME NEW c, CNodeSyscall(c, r)
        PROVE  conf' = conf
    BY <2>4, <2>8 DEF CNodeSyscall, Mint, Copy, Move, Delete, CopyCross, Revoke, OtherLabel,
                      Update, threadVars
  <2>9. Yield(r) \/ UnknownSyscall(r) => conf' = conf
    BY <2>4 DEF Yield, UnknownSyscall
  <2> QED
    BY <2>3, <2>5, <2>6, <2>7, <2>8, <2>9, ConfigureNamed DEF Dispatch
<1>3. CASE UNCHANGED vars
  BY <1>3 DEF vars
<1> QED
  BY <1>1, <1>2, <1>3 DEF Next

\* The pools only ever hold what they are made of, and an Untyped's budget is a number.
PoolsCounted ==
    /\ DOMAIN taken = DOMAIN Pool
    /\ \A type \in DOMAIN Pool : BootObjects[type] \subseteq taken[type]
                                 /\ taken[type] \subseteq Pool[type]
    /\ budget \in [UNTYPED -> Nat]

ObjectInv == StepInv /\ PoolsCounted /\ NothingNamesTheFree

\* What a retype may take from.
PoolTypes == {"CNode", "Endpoint", "Notification", "Tcb", "SchedContext", "VSpace", "Frame"}

LEMMA PoolDomain == DOMAIN Pool = PoolTypes
  BY DEF Pool, PoolTypes

\* What a thread's capabilities name is in use.
LEMMA NamedInUse ==
    ASSUME ObjectInv, NEW t \in TCB, NEW c
    PROVE  InUse(CapAt(t, c))
<1>1. InUse(Null)
  BY PoolDomain DEF InUse, Null, PoolTypes
<1>2. conf[t].cspace \in CNODE \cup {None}
  BY DEF ObjectInv, StepInv, Inv, TypeOK, Config
<1> QED
  BY <1>1, <1>2 DEF CapAt, ObjectInv, NothingNamesTheFree

LEMMA WieldedInUse ==
    ASSUME ObjectInv, current # None, NEW type \in PoolTypes, NEW id, NEW right,
           Wields(type, id, right)
    PROVE  id \in taken[type]
<1>1. PICK c \in Slot : CapAt(current, c).type = type /\ CapAt(current, c).id = id
  BY DEF Wields
<1>2. current \in TCB
  BY CurrentRuns DEF ObjectInv, StepInv
<1> QED
  BY <1>1, <1>2, NamedInUse, PoolDomain DEF InUse

\* Capabilities to objects in use are closed under what the kernel does to them.
InUseEverywhere == [k \in CNODE |-> {cap \in Capability : InUse(cap)}]

LEMMA InUseClosed == Closed(InUseEverywhere)
<1>1. \A cap, source : DerivedFrom(cap, source) /\ InUse(source) => InUse(cap)
  BY DEF DerivedFrom, InUse
<1>2. \A cap \in Capability : cap.type = "CNode" => cap.id \in CNODE
  BY CapabilityFields
<1> QED
  BY <1>1, <1>2 DEF Closed, InUseEverywhere

LEMMA InUseWithin ==
    ASSUME ObjectInv
    PROVE  Within(InUseEverywhere)
<1>1. \A k \in CNODE, s \in Slot : cnode[k][s] \in Capability /\ InUse(cnode[k][s])
  BY DEF ObjectInv, NothingNamesTheFree, StepInv, Inv, TypeOK, CNodeTable
<1>2. ASSUME NEW t \in TCB, tstate[t].kind = "BlockedSend", tstate[t].extra_cap # None
      PROVE  /\ tstate[t].extra_cap \in Capability /\ InUse(tstate[t].extra_cap)
             /\ "GRANT" \in tstate[t].extra_cap.rights
  <2>1. tstate[t].extra_cap \in Capability
    BY <1>2 DEF ObjectInv, StepInv, Inv, TypeOK, ThreadState, Inactive, Ready, Running
  <2>2. InUse(tstate[t].extra_cap)
    BY <1>2 DEF ObjectInv, NothingNamesTheFree
  <2>3. "GRANT" \in tstate[t].extra_cap.rights
    BY <1>2 DEF ObjectInv, StepInv, MessageIntact
  <2> QED
    BY <2>1, <2>2, <2>3
<1> QED
  BY <1>1, <1>2 DEF Within, SlotsWithin, FlightWithin, InUseEverywhere

\* The other syscalls take nothing from a pool, so what they name, they name still.
LEMMA SlotsStayInUse ==
    ASSUME ObjectInv, [Next]_vars, taken' = taken
    PROVE  /\ \A k \in CNODE, s \in Slot : InUse(cnode[k][s])'
           /\ \A t \in TCB : tstate'[t].kind = "BlockedSend" /\ tstate'[t].extra_cap # None =>
                                InUse(tstate[t].extra_cap)'
<1>1. PICK may : may = InUseEverywhere
  OBVIOUS
<1>2. SlotsWithin(may, cnode') /\ FlightWithin(may, tstate')
  BY <1>1, InUseClosed, InUseWithin, NextConfined DEF ObjectInv, StepInv
<1>3. /\ \A k \in CNODE, s \in Slot : InUse(cnode[k][s])' <=> InUse(cnode'[k][s])
      /\ \A t \in TCB : InUse(tstate[t].extra_cap)' <=> InUse(tstate'[t].extra_cap)
  BY DEF InUse
<1>4. InUse(Null)
  BY PoolDomain DEF InUse, Null, PoolTypes
<1>5. \A k \in CNODE, s \in Slot : InUse(cnode'[k][s])
  BY <1>1, <1>2, <1>4 DEF SlotsWithin, InUseEverywhere
<1>6. ASSUME NEW t \in TCB, tstate'[t].kind = "BlockedSend", tstate'[t].extra_cap # None
      PROVE  InUse(tstate'[t].extra_cap)
  <2>1. \A k \in CNODE : tstate'[t].extra_cap \in may[k]
    BY <1>2, <1>6 DEF FlightWithin
  <2>2. CNODE # {}
    BY ProgramsAssumption, <1>6 DEF Config
  <2> QED
    BY <1>1, <2>1, <2>2 DEF InUseEverywhere
<1> QED
  BY <1>3, <1>5, <1>6

\* Boot admits only threads that exist, each with a configuration that does.
LEMMA BootNamesExisting ==
    ASSUME ObjectInv, Boot, taken' = taken
    PROVE  /\ \A t \in TCB : /\ conf'[t].cspace \in taken.CNode \cup {None}
                             /\ conf'[t].vspace \in AddressSpaces \cup {None}
           /\ \A t \in Free("Tcb") : tstate'[t] = Inactive /\ conf'[t].cspace = None
           /\ UNCHANGED <<ipcVars, cnode>>
<1>1. PICK t \in BootThreads : BootConfigure(t) \/ BootMakeReady(t) \/ EnterFirstThread(t)
  BY DEF Boot
<1>2. /\ conf' = conf \/ conf' = [conf EXCEPT ![t] = Home[t]]
      /\ \E state : tstate' = tstate \/ tstate' = [tstate EXCEPT ![t] = state]
      /\ UNCHANGED <<ipcVars, cnode>>
  BY <1>1 DEF BootConfigure, BootMakeReady, EnterFirstThread, MarkReady
<1>3. BootObjects.Tcb \subseteq taken.Tcb /\ BootObjects.CNode \subseteq taken.CNode
      /\ BootObjects.VSpace \subseteq AddressSpaces
  BY PoolDomain DEF ObjectInv, PoolsCounted, PoolTypes, AddressSpaces
<1>4. /\ t \in TCB /\ t \in taken.Tcb
      /\ Home[t].cspace \in taken.CNode /\ Home[t].vspace \in AddressSpaces \cup {None}
  BY <1>3, ProgramsAssumption, MemoryAssumption
<1>5. \A u \in TCB : conf'[u] = conf[u] \/ (u = t /\ conf'[u] = Home[t])
  BY <1>2 DEF ObjectInv, StepInv, Inv, TypeOK
<1>6. \A u \in TCB : u # t => tstate'[u] = tstate[u]
  BY <1>2 DEF ObjectInv, StepInv, Inv, TypeOK
<1>7. \A u \in Free("Tcb") : u \in TCB /\ u # t
  BY <1>4 DEF Free, Pool
<1>8. \A u \in TCB : /\ conf[u].cspace \in taken.CNode \cup {None}
                     /\ conf[u].vspace \in AddressSpaces \cup {None}
  BY DEF ObjectInv, NothingNamesTheFree
<1>9. \A u \in Free("Tcb") : tstate[u] = Inactive /\ conf[u].cspace = None
  BY DEF ObjectInv, NothingNamesTheFree
<1> QED
  BY <1>2, <1>4, <1>5, <1>6, <1>7, <1>8, <1>9

\* Nobody can do anything to an object that is not there.
LEMMA FreeUntouched ==
    ASSUME ObjectInv, current # None, ObjectsReached
    PROVE  /\ \A t \in Free("Tcb") : tstate'[t] = Inactive /\ conf'[t].cspace = None
           /\ \A k \in Free("CNode"), s \in Slot : cnode'[k][s] = cnode[k][s]
           /\ \A e \in Free("Endpoint") : endpoint'[e] = EmptyQueue
           /\ \A n \in Free("Notification") : signals'[n] = {} /\ waiters'[n] = <<>>
<1>1. \A id, right : /\ Wields("Tcb", id, right) => id \in taken.Tcb
                     /\ Wields("Endpoint", id, right) => id \in taken.Endpoint
                     /\ Wields("Notification", id, right) => id \in taken.Notification
  BY WieldedInUse DEF PoolTypes
<1>2. \A t \in Free("Tcb") : t \in TCB /\ t \notin taken.Tcb
  BY DEF Free, Pool
<1>3. \A k \in Free("CNode") : k \in CNODE /\ k \notin taken.CNode
  BY DEF Free, Pool
<1>4. \A e \in Free("Endpoint") : e \in ENDPOINT /\ e \notin taken.Endpoint
  BY DEF Free, Pool
<1>5. \A n \in Free("Notification") : n \in NTFN /\ n \notin taken.Notification
  BY DEF Free, Pool
<1>6. ThreadsReached /\ EndpointsReached /\ NotificationsReached /\ TablesReached
  BY DEF ObjectsReached
<1>7. /\ \A t \in Free("Tcb") : tstate[t] = Inactive /\ conf[t].cspace = None
      /\ \A e \in Free("Endpoint") : endpoint[e] = EmptyQueue
      /\ \A n \in Free("Notification") : signals[n] = {} /\ waiters[n] = <<>>
  BY DEF ObjectInv, NothingNamesTheFree
<1>8. \A t \in Free("Tcb") : tstate'[t] = Inactive /\ conf'[t].cspace = None
  BY <1>1, <1>2, <1>6, <1>7 DEF ThreadsReached
<1>9. \A e \in Free("Endpoint") : endpoint'[e] = EmptyQueue
  BY <1>1, <1>4, <1>6, <1>7 DEF EndpointsReached
<1>10. \A n \in Free("Notification") : signals'[n] = {} /\ waiters'[n] = <<>>
  BY <1>1, <1>5, <1>6, <1>7 DEF NotificationsReached
<1>11. ASSUME NEW k \in Free("CNode"), NEW s \in Slot
       PROVE  cnode'[k][s] = cnode[k][s]
  <2>1. k \in CNODE /\ k \notin taken.CNode /\ k # None
    BY <1>3, NoneAssumption
  <2>2. ASSUME NEW c \in Slot, CapAt(current, c).type = "CNode", CapAt(current, c).id = k
        PROVE  FALSE
    <3>1. InUse(CapAt(current, c))
      BY NamedInUse, CurrentRuns DEF ObjectInv, StepInv
    <3> QED
      BY <2>1, <2>2, <3>1, PoolDomain DEF InUse, PoolTypes
  <2>3. current \in TCB /\ \A t \in TCB : conf[t].cspace # k
    BY <2>1, CurrentRuns DEF ObjectInv, StepInv, NothingNamesTheFree
  <2> QED
    BY <1>6, <2>1, <2>2, <2>3 DEF TablesReached, SlotReached, GivenTo, TakenFrom
<1> QED
  BY <1>8, <1>9, <1>10, <1>11

\* A thread is only ever configured with what is there.
LEMMA ConfiguredInUse ==
    ASSUME ObjectInv, current # None, NEW t \in TCB, conf'[t] = conf[t] \/ Reconfigured(t)
    PROVE  /\ conf'[t].cspace \in taken.CNode \cup {None}
           /\ conf'[t].vspace \in AddressSpaces \cup {None}
<1>1. /\ conf[t].cspace \in taken.CNode \cup {None}
      /\ conf[t].vspace \in AddressSpaces \cup {None}
  BY DEF ObjectInv, NothingNamesTheFree
<1>2. \A c : InUse(CapAt(current, c))
  BY NamedInUse, CurrentRuns DEF ObjectInv, StepInv
<1>3. \A c : /\ CapAt(current, c).type = "CNode" => CapAt(current, c).id \in taken.CNode
             /\ CapAt(current, c).type = "VSpace" => CapAt(current, c).id \in AddressSpaces
  BY <1>2, PoolDomain DEF InUse, PoolTypes, AddressSpaces
<1> QED
  BY <1>1, <1>3 DEF Reconfigured

\* The syscalls of Kernel leave it so.
LEMMA NextObjects ==
    ASSUME ObjectInv, [Next]_vars, taken' = taken
    PROVE  NothingNamesTheFree'
<1>1. /\ \A k \in CNODE, s \in Slot : InUse(cnode[k][s])'
      /\ \A t \in TCB : tstate'[t].kind = "BlockedSend" /\ tstate'[t].extra_cap # None =>
                           InUse(tstate[t].extra_cap)'
  BY SlotsStayInUse
<1>2. \A k \in Free("CNode"), s \in Slot : cnode[k][s] = Null
  BY DEF ObjectInv, NothingNamesTheFree
<1>3. /\ \A e \in Free("Endpoint") : endpoint[e] = EmptyQueue
      /\ \A n \in Free("Notification") : signals[n] = {} /\ waiters[n] = <<>>
  BY DEF ObjectInv, NothingNamesTheFree
<1>4. /\ \A t \in TCB : /\ conf'[t].cspace \in taken.CNode \cup {None}
                        /\ conf'[t].vspace \in AddressSpaces \cup {None}
      /\ \A t \in Free("Tcb") : tstate'[t] = Inactive /\ conf'[t].cspace = None
      /\ \A k \in Free("CNode"), s \in Slot : cnode'[k][s] = cnode[k][s]
      /\ \A e \in Free("Endpoint") : endpoint'[e] = EmptyQueue
      /\ \A n \in Free("Notification") : signals'[n] = {} /\ waiters'[n] = <<>>
  <2>1. CASE current # None
    <3>1. Inv
      BY DEF ObjectInv, StepInv
    <3>2. ObjectsReached
      BY <2>1, <3>1, NextReached
    <3>3. \A t \in TCB : conf'[t] = conf[t] \/ Reconfigured(t)
      BY <2>1, <3>1, NextConfigures
    <3> QED
      BY <2>1, <3>2, <3>3, FreeUntouched, ConfiguredInUse
  <2>2. CASE Boot
    BY <1>3, <2>2, BootNamesExisting DEF ipcVars
  <2>3. CASE UNCHANGED vars
    BY <1>3, <2>3 DEF vars, ObjectInv, NothingNamesTheFree
  <2> QED
    BY <2>1, <2>2, <2>3 DEF Next, Trap
<1>5. \A type : Free(type)' = Free(type)
  BY DEF Free
<1>6. AddressSpaces' = AddressSpaces
  BY DEF AddressSpaces
<1> QED
  BY <1>1, <1>2, <1>4, <1>5, <1>6 DEF NothingNamesTheFree

\* An Untyped that pays has something left to pay with.
LEMMA BudgetPaid ==
    ASSUME PoolsCounted, NEW u \in UNTYPED, BudgetError(u) = Ok, budget' = Paid(u)
    PROVE  budget' \in [UNTYPED -> Nat] /\ budget'[u] = budget[u] - 1
<1>1. budget[u] \in Nat /\ budget[u] # 0
  BY DEF PoolsCounted, BudgetError, Ok
<1>2. budget' = [budget EXCEPT ![u] = budget[u] - 1] /\ budget[u] - 1 \in Nat
  BY <1>1 DEF Paid
<1> QED
  BY <1>2 DEF PoolsCounted

\* A retype adds one entry to one pool.
LEMMA PoolGrows ==
    ASSUME PoolsCounted, NEW type \in DOMAIN Pool, NEW id \in Free(type),
           taken' = [taken EXCEPT ![type] = @ \cup {id}]
    PROVE  /\ DOMAIN taken' = DOMAIN Pool /\ id \in taken'[type]
           /\ \A other \in DOMAIN Pool : /\ taken[other] \subseteq taken'[other]
                                         /\ taken'[other] \subseteq Pool[other]
                                         /\ Free(other)' \subseteq Free(other)
<1>1. id \in Pool[type]
  BY DEF Free
<1>2. /\ DOMAIN taken' = DOMAIN Pool /\ taken'[type] = taken[type] \cup {id}
      /\ \A other \in DOMAIN Pool \ {type} : taken'[other] = taken[other]
  BY DEF PoolsCounted
<1>3. \A other \in DOMAIN Pool : /\ taken[other] \subseteq taken'[other]
                                 /\ taken'[other] \subseteq Pool[other]
  BY <1>1, <1>2 DEF PoolsCounted
<1> QED
  BY <1>2, <1>3 DEF Free

\* The object a retype makes is in use before anything names it.
LEMMA MakesObjects ==
    ASSUME ObjectInv, current # None, NEW c, NEW dest, NEW type \in DOMAIN Pool,
           Makes(c, type, dest)
    PROVE  PoolsCounted' /\ NothingNamesTheFree'
<1>1. PICK k \in CNODE, s \in Slot, u \in UNTYPED, id \in Free(type), cap \in Capability :
        /\ k = conf[current].cspace /\ BudgetError(u) = Ok
        /\ cap.type = type /\ cap.id = id
        /\ cnode' = [cnode EXCEPT ![k][s] = cap]
        /\ taken' = [taken EXCEPT ![type] = @ \cup {id}]
        /\ budget' = Paid(u)
        /\ UNCHANGED <<threadVars, ipcVars>>
  <2>1. NewCap(type).type = type /\ NewCap(type).id = Fresh(type)
    BY DEF NewCap
  <2>2. BudgetError(CapAt(current, c).id) = Ok
    BY DEF Makes
  <2>3. /\ conf[current].cspace \in CNODE /\ dest \in Slot
        /\ CapAt(current, c).id \in UNTYPED
        /\ Fresh(type) \in Free(type) /\ NewCap(type) \in Capability
        /\ cnode' = [cnode EXCEPT ![conf[current].cspace][dest] = NewCap(type)]
        /\ taken' = [taken EXCEPT ![type] = @ \cup {Fresh(type)}]
        /\ budget' = Paid(CapAt(current, c).id)
        /\ UNCHANGED <<threadVars, ipcVars>>
    <3>1. Inv
      BY DEF ObjectInv, StepInv
    <3>2. /\ cnode' = [cnode EXCEPT ![conf[current].cspace][dest] = NewCap(type)]
          /\ taken' = [taken EXCEPT ![type] = @ \cup {Fresh(type)}]
          /\ budget' = Paid(CapAt(current, c).id)
          /\ UNCHANGED <<threadVars, ipcVars>>
      BY DEF Makes, Retyped, Take
    <3>3. /\ conf[current].cspace \in CNODE /\ dest \in Slot
          /\ CapAt(current, c).id \in UNTYPED
          /\ Fresh(type) \in Free(type) /\ NewCap(type) \in Capability
      BY <3>1, ObjectMade
    <3> QED
      BY <3>2, <3>3
  <2> QED
    BY <2>1, <2>2, <2>3, Zenon
<1>2. current \in TCB /\ k \in taken.CNode
  BY <1>1, CurrentRuns, NoneAssumption DEF ObjectInv, StepInv, NothingNamesTheFree
<1>3. /\ DOMAIN taken' = DOMAIN Pool /\ id \in taken'[type]
      /\ \A other \in DOMAIN Pool : /\ taken[other] \subseteq taken'[other]
                                    /\ taken'[other] \subseteq Pool[other]
                                    /\ Free(other)' \subseteq Free(other)
  BY <1>1, PoolGrows DEF ObjectInv
<1>4. PoolsCounted'
  BY <1>1, <1>3, BudgetPaid DEF ObjectInv, PoolsCounted
<1>5. \A x : InUse(x) /\ x.type \in DOMAIN Pool => x.id \in taken'[x.type]
  BY <1>3 DEF InUse
<1>6. ASSUME NEW j \in CNODE, NEW d \in Slot
      PROVE  InUse(cnode[j][d])'
  <2>1. cnode'[j][d] = IF j = k /\ d = s THEN cap ELSE cnode[j][d]
    BY <1>1 DEF ObjectInv, StepInv, Inv, TypeOK, CNodeTable
  <2>2. InUse(cnode[j][d])
    BY DEF ObjectInv, NothingNamesTheFree
  <2> QED
    BY <1>1, <1>3, <1>5, <2>1, <2>2 DEF InUse
<1>7. ASSUME NEW t \in TCB
      PROVE  /\ tstate'[t].kind = "BlockedSend" /\ tstate'[t].extra_cap # None =>
                   InUse(tstate[t].extra_cap)'
             /\ conf'[t].cspace \in taken'.CNode \cup {None}
             /\ conf'[t].vspace \in AddressSpaces' \cup {None}
  <2>1. /\ tstate' = tstate /\ conf' = conf
        /\ taken.CNode \subseteq taken'.CNode /\ AddressSpaces \subseteq AddressSpaces'
    BY <1>1, <1>3, PoolDomain DEF threadVars, AddressSpaces, PoolTypes
  <2>2. /\ tstate[t].kind = "BlockedSend" /\ tstate[t].extra_cap # None =>
              InUse(tstate[t].extra_cap)
        /\ conf[t].cspace \in taken.CNode \cup {None}
        /\ conf[t].vspace \in AddressSpaces \cup {None}
    BY DEF ObjectInv, NothingNamesTheFree
  <2> QED
    BY <1>5, <2>1, <2>2 DEF InUse
<1>8. /\ Free("Tcb")' \subseteq Free("Tcb") /\ Free("CNode")' \subseteq Free("CNode")
      /\ Free("Endpoint")' \subseteq Free("Endpoint")
      /\ Free("Notification")' \subseteq Free("Notification")
  BY <1>3, PoolDomain DEF PoolTypes
<1>9. \A j \in Free("CNode")', d \in Slot : cnode'[j][d] = Null
  <2>1. ASSUME NEW j \in Free("CNode")', NEW d \in Slot
        PROVE  cnode'[j][d] = Null
    <3>1. j \in Free("CNode") /\ j \in CNODE /\ j # k
      BY <1>2, <1>8 DEF Free, Pool
    <3>2. cnode'[j] = cnode[j]
      BY <1>1, <3>1 DEF ObjectInv, StepInv, Inv, TypeOK
    <3> QED
      BY <3>1, <3>2 DEF ObjectInv, NothingNamesTheFree
  <2> QED
    BY <2>1
<1>10. /\ \A t \in Free("Tcb")' : tstate'[t] = Inactive /\ conf'[t].cspace = None
       /\ \A e \in Free("Endpoint")' : endpoint'[e] = EmptyQueue
       /\ \A n \in Free("Notification")' : signals'[n] = {} /\ waiters'[n] = <<>>
  BY <1>1, <1>8 DEF threadVars, ipcVars, ObjectInv, NothingNamesTheFree
<1>11. NothingNamesTheFree'
  BY <1>6, <1>7, <1>9, <1>10 DEF NothingNamesTheFree
<1> QED
  BY <1>4, <1>11

\* A step of memory's syscalls, or of the others, leaves it so.
LEMMA MemoryObjects ==
    ASSUME ObjectInv, [MemoryNext]_allVars
    PROVE  ObjectInv'
<1>1. StepInv'
  BY MemoryNextInv DEF ObjectInv
<1>2. ASSUME current # None, Answers
      PROVE  PoolsCounted' /\ NothingNamesTheFree'
  <2>1. UNCHANGED <<tstate, conf, endpoint, signals, waiters, cnode, taken, budget>>
    BY <1>2 DEF Answers, threadVars, ipcVars
  <2>2. PoolsCounted'
    BY <2>1 DEF ObjectInv, PoolsCounted
  <2>3. NothingNamesTheFree'
    BY <2>1 DEF ObjectInv, NothingNamesTheFree, InUse, AddressSpaces, Free
  <2> QED
    BY <2>2, <2>3
<1>3. CASE MemoryTrap
  <2>1. current # None /\ AnswersOrMakes
    BY <1>3, MemoryTraps DEF ObjectInv, StepInv
  <2> QED
    BY <1>1, <1>2, <2>1, MakesObjects DEF AnswersOrMakes, ObjectInv
<1>4. CASE [Next]_vars /\ UNCHANGED memVars
  <2>1. taken' = taken /\ budget' = budget
    BY <1>4 DEF memVars
  <2>2. PoolsCounted'
    BY <2>1 DEF ObjectInv, PoolsCounted
  <2> QED
    BY <1>1, <1>4, <2>1, <2>2, NextObjects DEF ObjectInv
<1> QED
  BY <1>3, <1>4 DEF MemoryNext, allVars

LEMMA InitObjects == MemoryInit => ObjectInv
<1> SUFFICES ASSUME MemoryInit
             PROVE  ObjectInv
  OBVIOUS
<1>1. StepInv
  BY InitLawful DEF MemoryInit
<1>2. PoolsCounted
  BY MemoryAssumption DEF MemoryInit, PoolsCounted
<1>3. \A k \in CNODE, s \in Slot : InUse(cnode[k][s])
  BY MemoryAssumption DEF MemoryInit, Init, InUse
<1>4. /\ \A t \in TCB : tstate[t] = Inactive /\ conf[t].cspace = None /\ conf[t].vspace = None
      /\ \A e \in ENDPOINT : endpoint[e] = EmptyQueue
      /\ \A n \in NTFN : signals[n] = {} /\ waiters[n] = <<>>
  BY DEF MemoryInit, Init
<1>5. \A k \in Free("CNode"), s \in Slot : cnode[k][s] = Null
  BY MemoryAssumption DEF MemoryInit, Init, Free, Pool
<1>6. /\ \A t \in Free("Tcb") : t \in TCB
      /\ \A e \in Free("Endpoint") : e \in ENDPOINT
      /\ \A n \in Free("Notification") : n \in NTFN
  BY DEF Free, Pool
<1>7. NothingNamesTheFree
  BY <1>3, <1>4, <1>5, <1>6 DEF NothingNamesTheFree, Inactive
<1> QED
  BY <1>1, <1>2, <1>7 DEF ObjectInv

\* In every reachable state, what any slot, thread or message names is an object in use.
THEOREM ObjectsInvariance == MemorySpec => []ObjectInv
  BY InitObjects, MemoryObjects, PTL DEF MemorySpec

\* However objects are made, named, handed around and configured into threads, no
\* capability and no thread ever names an object that is not there.
THEOREM ObjectsCorrect == MemorySpec => []NothingNamesTheFree
<1>1. ObjectInv => NothingNamesTheFree
  BY DEF ObjectInv
<1> QED
  BY <1>1, ObjectsInvariance, PTL

\* The only slot a retype changes is one of its thread's own CSpace.
LEMMA MemoryReached ==
    ASSUME Inv, PoolsCounted, current # None, AnswersOrMakes
    PROVE  MemoryObjectsReached
<1>1. CASE Answers
  BY <1>1, StillReached DEF Answers, threadVars, ipcVars, MemoryObjectsReached
<1>2. ASSUME NEW c, NEW dest, NEW type \in DOMAIN Pool, Makes(c, type, dest)
      PROVE  MemoryObjectsReached
  <2> DEFINE cap == NewCap(type)
  <2> DEFINE u == CapAt(current, c).id
  <2>1. /\ cnode' = [cnode EXCEPT ![conf[current].cspace][dest] = cap]
        /\ cnode[conf[current].cspace][dest] = Null
        /\ cap.type = type /\ cap.id = Fresh(type) /\ Fresh(type) \in Free(type)
        /\ u \in UNTYPED /\ Wields("Untyped", u, "WRITE")
        /\ BudgetError(u) = Ok /\ budget' = Paid(u)
        /\ UNCHANGED <<threadVars, ipcVars>>
    <3>1. cap.type = type /\ cap.id = Fresh(type)
      BY DEF NewCap
    <3>2. BudgetError(u) = Ok
      BY <1>2 DEF Makes
    <3>3. /\ cnode' = [cnode EXCEPT ![conf[current].cspace][dest] = cap]
          /\ budget' = Paid(u)
          /\ UNCHANGED <<threadVars, ipcVars>>
      BY <1>2 DEF Makes, Retyped
    <3>4. /\ cnode[conf[current].cspace][dest] = Null /\ Fresh(type) \in Free(type)
          /\ u \in UNTYPED /\ Wields("Untyped", u, "WRITE")
      BY <1>2, ObjectMade
    <3> HIDE DEF cap, u
    <3> QED
      BY <3>1, <3>2, <3>3, <3>4
  <2> HIDE DEF cap, u
  <2>2. budget'[u] = budget[u] - 1
    BY <2>1, BudgetPaid
  <2>3. Created(cap)
    BY <2>1, <2>2 DEF Created
  <2>4. \A j \in CNODE, s \in Slot : cnode'[j][s] # cnode[j][s] =>
           /\ j = conf[current].cspace /\ s = dest /\ cnode'[j][s] = cap
    BY <2>1 DEF Inv, TypeOK, CNodeTable
  <2>5. \A j \in CNODE, s \in Slot : cnode'[j][s] # cnode[j][s] => SlotMade(j, s)
    BY <2>1, <2>3, <2>4 DEF SlotMade
  <2> QED
    BY <2>1, <2>5, StillReached DEF threadVars, ipcVars, MemoryObjectsReached
<1> QED
  BY <1>1, <1>2 DEF AnswersOrMakes

LEMMA MemoryNextReached ==
    ASSUME Inv, PoolsCounted, current # None, [MemoryNext]_allVars
    PROVE  MemoryObjectsReached
<1>1. CASE MemoryTrap
  BY <1>1, MemoryTraps, MemoryReached
<1>2. CASE [Next]_vars
  BY <1>2, NextReached DEF ObjectsReached, TablesReached, MemoryObjectsReached
<1> QED
  BY <1>1, <1>2 DEF MemoryNext, allVars

\* In the whole kernel, no thread reaches an object that it cannot name: what Kernel's
\* syscalls reach, they reach by capabilities or with an awaited message, and a retype
\* fills only an empty slot of its thread's own CSpace, with what it has paid for.
THEOREM MemoryReachCorrect == MemorySpec => MemoryObjectsNamed
<1>1. ObjectInv /\ [MemoryNext]_allVars => [current # None => MemoryObjectsReached]_allVars
  BY MemoryNextReached DEF ObjectInv, StepInv
<1> QED
  BY <1>1, ObjectsInvariance, PTL DEF MemorySpec, MemoryObjectsNamed

(***************************************************************************)
(* Authority is only made out of untyped memory                            *)
(***************************************************************************)
Heritage == [k \in CNODE |-> {cap \in Capability : Inherited(cap)}]

LEMMA HeritageClosed == Closed(Heritage)
<1>1. \A a, b, c : DerivedFrom(a, b) /\ DerivedFrom(b, c) => DerivedFrom(a, c)
  BY DEF DerivedFrom
<1>2. \A cap, source : DerivedFrom(cap, source) /\ Inherited(source) => Inherited(cap)
  BY <1>1 DEF Inherited
<1>3. \A cap \in Capability : cap.type = "CNode" => cap.id \in CNODE
  BY CapabilityFields
<1> QED
  BY <1>2, <1>3 DEF Closed, Heritage

LEMMA HeritageWithin ==
    ASSUME StepInv
    PROVE  Within(Heritage)
<1>1. \A cap : DerivedFrom(cap, cap)
  BY DEF DerivedFrom
<1>2. \A k \in CNODE, s \in Slot :
         cnode[k][s] \in Capability /\ (cnode[k][s] # Null => Inherited(cnode[k][s]))
  BY <1>1 DEF StepInv, Inv, TypeOK, CNodeTable, Inherited
<1>3. ASSUME NEW t \in TCB, tstate[t].kind = "BlockedSend", tstate[t].extra_cap # None
      PROVE  /\ tstate[t].extra_cap \in Capability /\ Inherited(tstate[t].extra_cap)
             /\ "GRANT" \in tstate[t].extra_cap.rights
  <2>1. tstate[t].extra_cap \in Capability
    BY <1>3 DEF StepInv, Inv, TypeOK, ThreadState, Inactive, Ready, Running
  <2> QED
    BY <1>1, <1>3, <2>1 DEF StepInv, MessageIntact, Inherited
<1> QED
  BY <1>2, <1>3 DEF Within, SlotsWithin, FlightWithin, Heritage

\* What a slot gains in a step.
AuthorityStep ==
    \A k \in CNODE, s \in Slot :
       cnode'[k][s] # cnode[k][s] /\ cnode'[k][s] # Null =>
          Inherited(cnode'[k][s]) \/ Created(cnode'[k][s])

LEMMA AuthorityKept == ObjectInv /\ [MemoryNext]_allVars => AuthorityStep
<1> SUFFICES ASSUME ObjectInv, [MemoryNext]_allVars
             PROVE  AuthorityStep
  OBVIOUS
<1>1. CASE [Next]_vars
  <2>1. PICK may : may = Heritage
    OBVIOUS
  <2>2. SlotsWithin(may, cnode')
    BY <1>1, <2>1, HeritageClosed, HeritageWithin, NextConfined DEF ObjectInv, StepInv
  <2> QED
    BY <2>1, <2>2 DEF SlotsWithin, Heritage, AuthorityStep
<1>2. CASE MemoryTrap
  <2>1. current # None /\ AnswersOrMakes
    BY <1>2, MemoryTraps DEF ObjectInv, StepInv
  <2>2. CASE Answers
    BY <2>2 DEF Answers, AuthorityStep
  <2>3. ASSUME NEW c, NEW dest, NEW type \in DOMAIN Pool, Makes(c, type, dest)
        PROVE  AuthorityStep
    <3>1. PICK j : j = conf[current].cspace
      OBVIOUS
    <3>2. cnode' = [cnode EXCEPT ![j][dest] = NewCap(type)]
      BY <2>3, <3>1 DEF Makes, Retyped
    <3>3. \A k \in CNODE, s \in Slot :
             cnode'[k][s] # cnode[k][s] => cnode'[k][s] = NewCap(type)
      BY <3>2 DEF ObjectInv, StepInv, Inv, TypeOK, CNodeTable
    <3>4. NewCap(type).type = type /\ NewCap(type).id = Fresh(type)
      BY DEF NewCap
    <3>5. PICK u \in UNTYPED : u = CapAt(current, c).id /\ Wields("Untyped", u, "WRITE")
                               /\ budget' = Paid(u) /\ BudgetError(u) = Ok
      BY <2>1, <2>3, ObjectMade DEF ObjectInv, StepInv, Makes
    <3>6. Fresh(type) \in Free(type)
      BY <2>1, <2>3, ObjectMade DEF ObjectInv, StepInv
    <3>7. Created(NewCap(type))
      BY <3>4, <3>5, <3>6, BudgetPaid DEF Created, ObjectInv
    <3> QED
      BY <3>3, <3>7 DEF AuthorityStep
  <2> QED
    BY <2>1, <2>2, <2>3 DEF AnswersOrMakes
<1>3. MemoryTrap \/ [Next]_vars
  BY DEF MemoryNext, allVars
<1> QED
  BY <1>1, <1>2, <1>3

\* No slot gains more than some slot held, or a sender had attached, but a capability
\* to an object just made, which the thread that names it paid an Untyped for.
THEOREM AuthorityMadeCorrect == MemorySpec => AuthorityMade
<1>1. ObjectInv /\ [MemoryNext]_allVars => [AuthorityStep]_allVars
  BY AuthorityKept
<1> QED
  BY <1>1, ObjectsInvariance, PTL DEF MemorySpec, AuthorityMade, AuthorityStep

(***************************************************************************)
(* Budgets: the units of budget that are gone and the objects made since   *)
(* boot are finite sets that grow by one element each, in the same step.   *)
(***************************************************************************)
BudgetInv ==
    /\ ObjectInv /\ BudgetsSpent
    /\ IsFiniteSet(UnitsSpent) /\ IsFiniteSet(MadeSinceBoot)

\* Paying spends the unit that was the budget.
LEMMA UnitSpent ==
    ASSUME PoolsCounted, BudgetsSpent, NEW u \in UNTYPED, BudgetError(u) = Ok, budget' = Paid(u)
    PROVE  /\ UnitsSpent' = UnitsSpent \cup {<<u, budget[u]>>}
           /\ <<u, budget[u]>> \notin UnitsSpent
           /\ \A w \in UNTYPED : budget'[w] <= BootBudget[w]
<1>1. /\ \A w \in UNTYPED : budget[w] \in Nat /\ BootBudget[w] \in Nat /\ budget[w] <= BootBudget[w]
      /\ budget' \in [UNTYPED -> Nat] /\ budget'[u] = budget[u] - 1
      /\ budget[u] # 0
  BY BudgetPaid, MemoryAssumption DEF PoolsCounted, BudgetsSpent, BudgetError, Ok
<1>2. \A w \in UNTYPED : w # u => budget'[w] = budget[w]
  BY DEF Paid, PoolsCounted
<1>3. budget'[u] + 1 .. BootBudget[u] = (budget[u] + 1 .. BootBudget[u]) \cup {budget[u]}
  BY <1>1
<1>4. \A w \in UNTYPED : budget'[w] <= BootBudget[w]
  BY <1>1, <1>2
<1>5. ASSUME NEW x
      PROVE  x \in UnitsSpent' <=> x \in UnitsSpent \cup {<<u, budget[u]>>}
  <2>1. x \in UnitsSpent <=> \E w \in UNTYPED : x \in {w} \X (budget[w] + 1 .. BootBudget[w])
    BY DEF UnitsSpent
  <2>2. x \in UnitsSpent' <=> \E w \in UNTYPED : x \in {w} \X (budget'[w] + 1 .. BootBudget[w])
    BY DEF UnitsSpent
  <2>3. x \in {u} \X (budget'[u] + 1 .. BootBudget[u])
          <=> x \in {u} \X (budget[u] + 1 .. BootBudget[u]) \/ x = <<u, budget[u]>>
    BY <1>3
  <2> QED
    BY <1>2, <2>1, <2>2, <2>3
<1>6. <<u, budget[u]>> \notin UnitsSpent
  <2>1. \A w \in UNTYPED : <<u, budget[u]>> \in {w} \X (budget[w] + 1 .. BootBudget[w]) => w = u
    OBVIOUS
  <2>2. budget[u] \notin budget[u] + 1 .. BootBudget[u]
    BY <1>1
  <2> QED
    BY <2>1, <2>2 DEF UnitsSpent
<1> QED
  BY <1>4, <1>5, <1>6

\* The object made is one more.
LEMMA ObjectCounted ==
    ASSUME PoolsCounted, NEW type \in DOMAIN Pool, NEW id \in Free(type),
           taken' = [taken EXCEPT ![type] = @ \cup {id}]
    PROVE  /\ MadeSinceBoot' = MadeSinceBoot \cup {<<type, id>>}
           /\ <<type, id>> \notin MadeSinceBoot
<1>1. id \notin taken[type] /\ id \notin BootObjects[type]
  BY DEF Free, PoolsCounted
<1>2. taken'[type] \ BootObjects[type] = (taken[type] \ BootObjects[type]) \cup {id}
  BY <1>1 DEF PoolsCounted
<1>3. \A other \in DOMAIN Pool : other # type => taken'[other] = taken[other]
  BY DEF PoolsCounted
<1>4. ASSUME NEW x
      PROVE  x \in MadeSinceBoot' <=> x \in MadeSinceBoot \cup {<<type, id>>}
  <2>1. x \in MadeSinceBoot
          <=> \E other \in DOMAIN Pool : x \in {other} \X (taken[other] \ BootObjects[other])
    BY DEF MadeSinceBoot
  <2>2. x \in MadeSinceBoot'
          <=> \E other \in DOMAIN Pool : x \in {other} \X (taken'[other] \ BootObjects[other])
    BY DEF MadeSinceBoot
  <2>3. x \in {type} \X (taken'[type] \ BootObjects[type])
          <=> x \in {type} \X (taken[type] \ BootObjects[type]) \/ x = <<type, id>>
    BY <1>2
  <2> QED
    BY <1>3, <2>1, <2>2, <2>3
<1>5. <<type, id>> \notin MadeSinceBoot
  BY <1>1 DEF MadeSinceBoot
<1> QED
  BY <1>4, <1>5

LEMMA NextBudgets == BudgetInv /\ [MemoryNext]_allVars => BudgetInv'
<1> SUFFICES ASSUME BudgetInv, [MemoryNext]_allVars
             PROVE  BudgetInv'
  OBVIOUS
<1>1. ObjectInv'
  BY MemoryObjects DEF BudgetInv
<1>2. CASE taken' = taken /\ budget' = budget
  BY <1>1, <1>2 DEF BudgetInv, BudgetsSpent, UnitsSpent, MadeSinceBoot
<1>3. ASSUME current # None, NEW c, NEW dest, NEW type \in DOMAIN Pool, Makes(c, type, dest)
      PROVE  BudgetInv'
  <2>1. PICK u \in UNTYPED, id \in Free(type) :
          /\ BudgetError(u) = Ok /\ budget' = Paid(u)
          /\ taken' = [taken EXCEPT ![type] = @ \cup {id}]
    <3>1. /\ CapAt(current, c).id \in UNTYPED /\ Fresh(type) \in Free(type)
          /\ budget' = Paid(CapAt(current, c).id)
          /\ taken' = [taken EXCEPT ![type] = @ \cup {Fresh(type)}]
      BY <1>3, ObjectMade DEF BudgetInv, ObjectInv, StepInv
    <3>2. BudgetError(CapAt(current, c).id) = Ok
      BY <1>3 DEF Makes
    <3> QED
      BY <3>1, <3>2
  <2>2. /\ UnitsSpent' = UnitsSpent \cup {<<u, budget[u]>>}
        /\ <<u, budget[u]>> \notin UnitsSpent
        /\ \A w \in UNTYPED : budget'[w] <= BootBudget[w]
    BY <2>1, UnitSpent DEF BudgetInv, ObjectInv
  <2>3. /\ MadeSinceBoot' = MadeSinceBoot \cup {<<type, id>>}
        /\ <<type, id>> \notin MadeSinceBoot
    BY <2>1, ObjectCounted DEF BudgetInv, ObjectInv
  <2>4. /\ IsFiniteSet(UnitsSpent') /\ Cardinality(UnitsSpent') = Cardinality(UnitsSpent) + 1
    BY <2>2, FS_AddElement DEF BudgetInv
  <2>5. /\ IsFiniteSet(MadeSinceBoot')
        /\ Cardinality(MadeSinceBoot') = Cardinality(MadeSinceBoot) + 1
    BY <2>3, FS_AddElement DEF BudgetInv
  <2>6. BudgetsSpent'
    BY <2>2, <2>4, <2>5 DEF BudgetInv, BudgetsSpent
  <2> QED
    BY <1>1, <2>4, <2>5, <2>6 DEF BudgetInv
<1>4. CASE MemoryTrap
  <2>1. current # None /\ AnswersOrMakes
    BY <1>4, MemoryTraps DEF BudgetInv, ObjectInv, StepInv
  <2> QED
    BY <1>2, <1>3, <2>1 DEF AnswersOrMakes, Answers
<1> QED
  BY <1>2, <1>4 DEF MemoryNext, allVars, memVars

LEMMA InitBudgets == MemoryInit => BudgetInv
<1> SUFFICES ASSUME MemoryInit
             PROVE  BudgetInv
  OBVIOUS
<1>1. \A u \in UNTYPED : BootBudget[u] \in Nat /\ budget[u] = BootBudget[u]
  BY MemoryAssumption DEF MemoryInit
<1>2. \A u \in UNTYPED : budget[u] + 1 .. BootBudget[u] = {}
  BY <1>1
<1>3. UnitsSpent = {}
  BY <1>2 DEF UnitsSpent
<1>4. MadeSinceBoot = {}
  BY DEF MemoryInit, MadeSinceBoot
<1> QED
  BY <1>1, <1>3, <1>4, InitObjects, FS_EmptySet DEF BudgetInv, BudgetsSpent

\* In any number of retypes out of any number of Untypeds, no object is had for nothing
\* and no unit of budget is lost to a retype that fails.
THEOREM BudgetsCorrect == MemorySpec => []BudgetsSpent
<1>1. BudgetInv => BudgetsSpent
  BY DEF BudgetInv
<1> QED
  BY <1>1, InitBudgets, NextBudgets, PTL DEF MemorySpec
=============================================================================
