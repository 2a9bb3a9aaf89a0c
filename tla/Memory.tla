------------------------------- MODULE Memory --------------------------------
(***************************************************************************)
(* The kernel with the objects that memory is made of: the object pools    *)
(* (pool.rs), untyped memory, the page-table arena, address spaces and     *)
(* frames (object.rs), and the two syscalls on them, UntypedRetype         *)
(* (admin.rs) and FrameInvoke (frame.rs).  Pool::free has no caller: an    *)
(* object, once taken, stays taken.  A pool entry that is not taken stands *)
(* in the state the code writes into a fresh one.                          *)
(***************************************************************************)
EXTENDS Kernel, PageTables

CONSTANTS
    BootObjects, \* the pool entries in use when boot hands over
    BootBudget,  \* the budget of each Untyped then
    BootRange,   \* and the physical range it is backed by, if any
    ArenaPages,  \* MAX_KERNEL_PAGE_TABLES
    BootArena,   \* KernelPageTables::next then, in pages
    BootRoot,    \* the root page of each address space in use then
    KernelTable, \* and the page of its table with the kernel's megapage
    KernelBase,  \* where that megapage starts, as an address of either kind
    WordSize,    \* the number of values of a machine word
    \* The programs of an instance, as in Kernel.
    Retypes,     \* <<CPtr, object type, destination>> of an UntypedRetype
    FrameWords   \* <<CPtr, label, CPtr of a VSpace, vaddr>> of a FrameInvoke

\* MAX_FRAME_MAPPINGS
MaxFrameMappings == 2

\* The pools that UntypedRetype takes from; their sizes are the limits of limits.rs.
Pool == [CNode |-> CNODE, Endpoint |-> ENDPOINT, Notification |-> NTFN, Tcb |-> TCB,
         SchedContext |-> SCHED, VSpace |-> VSPACE, Frame |-> FRAME]

Page == 0 .. ArenaPages - 1

Backing == [next : Nat, end : Nat]

\* The ranges the loader hands over do not reach the end of the address space, and
\* no two of them overlap; it names, and fills the slots of, objects it has made.
\* What frames it makes and maps, as calls of the handlers before the first thread
\* enters, this model leaves to that thread. A virtual address is a natural number.
ASSUME MemoryAssumption ==
    /\ ArenaPages \in Nat /\ WordSize \in Nat
    /\ BootBudget \in [UNTYPED -> Nat]
    /\ BootRange \in [UNTYPED -> Backing \cup {None}]
    /\ \A u \in UNTYPED : BootRange[u] # None => BootRange[u].next <= BootRange[u].end
    /\ \A u \in UNTYPED : BootRange[u] # None => BootRange[u].end + MegaSize < WordSize
    /\ \A u, w \in UNTYPED :
          u # w /\ BootRange[u] # None /\ BootRange[w] # None =>
             \/ BootRange[u].end <= BootRange[w].next
             \/ BootRange[w].end <= BootRange[u].next
    /\ DOMAIN BootObjects = DOMAIN Pool
    /\ \A type \in DOMAIN Pool : BootObjects[type] \subseteq Pool[type]
    /\ BootObjects.Frame = {}
    /\ BootThreads \subseteq BootObjects.Tcb
    /\ \A t \in BootThreads : /\ Home[t].cspace \in BootObjects.CNode
                             /\ Home[t].vspace \in BootObjects.VSpace \cup {None}
    /\ \A k \in CNODE, s \in Slot :
          LET cap == InitSlots[k][s]
          IN  /\ cap.type \in DOMAIN Pool => cap.id \in BootObjects[cap.type]
              /\ k \notin BootObjects.CNode => cap = Null
    /\ \A w \in FrameWords : w[4] \in Nat

\* The loader maps the kernel's own megapage, at its physical address and recorded by
\* no frame, into every address space it makes (map_kernel_shared, object.rs:349-353);
\* it needs a root and one table for that, and all of these are pages of their own.
ASSUME KernelAssumption ==
    /\ BootArena \in 0 .. ArenaPages
    /\ BootRoot \in [BootObjects.VSpace -> 0 .. BootArena - 1]
    /\ KernelTable \in [BootObjects.VSpace -> 0 .. BootArena - 1]
    /\ \A v, w \in BootObjects.VSpace :
          /\ BootRoot[v] # KernelTable[w]
          /\ BootRoot[v] = BootRoot[w] \/ KernelTable[v] = KernelTable[w] => v = w
    /\ KernelBase \in Nat /\ KernelBase % MegaSize = 0 /\ KernelBase + MegaSize <= Reach

\* A mapping that a frame records is never mistaken for none.
ASSUME NoMappingAssumption == None \notin VSPACE \X Nat

VARIABLES
    taken,   \* the entries of each pool that are in use
    budget,  \* Untyped::remaining
    range,   \* Untyped::memory
    arena,   \* KernelPageTables::next, in pages
    root,    \* VSpace::root, a page of the arena
    table,   \* the contents of the arena's pages
    mapping  \* Frame: paddr, size and mapped_at

memVars == <<taken, budget, range, arena, root, table, mapping>>
allVars == <<vars, memVars>>

FrameObject ==
    [paddr : Nat, size : {"Small", "Mega"},
     mapped_at : [1 .. MaxFrameMappings -> {None} \cup (VSPACE \X Nat)]]

Entry == {Invalid} \cup {Branch(p) : p \in Page} \cup [kind : {"Leaf"}, to : Nat]

MemoryTypeOK ==
    /\ TypeOK
    /\ DOMAIN taken = DOMAIN Pool
    /\ \A type \in DOMAIN Pool : taken[type] \subseteq Pool[type]
    /\ budget \in [UNTYPED -> Nat]
    /\ range \in [UNTYPED -> Backing \cup {None}]
    /\ arena \in 0 .. ArenaPages
    /\ root \in [VSPACE -> Page \cup {None}]
    /\ table \in [Page -> [Index -> Entry]]
    /\ mapping \in [FRAME -> FrameObject \cup {None}]

\* The tables of the address spaces that the loader has made.
BootEntry(p, i) ==
    IF \E v \in BootObjects.VSpace : p = BootRoot[v] /\ i = RootIndex(KernelBase)
    THEN Branch(KernelTable[CHOOSE v \in BootObjects.VSpace : p = BootRoot[v]])
    ELSE IF \E v \in BootObjects.VSpace : p = KernelTable[v] /\ i = MegaIndex(KernelBase)
    THEN Leaf(KernelBase)
    ELSE Invalid

MemoryInit ==
    /\ Init
    /\ taken = BootObjects
    /\ budget = BootBudget
    /\ range = BootRange
    /\ arena = BootArena
    /\ root = [v \in VSPACE |-> IF v \in BootObjects.VSpace THEN BootRoot[v] ELSE None]
    /\ table = [p \in Page |-> [i \in Index |-> BootEntry(p, i)]]
    /\ mapping = [f \in FRAME |-> None]

(***************************************************************************)
(* Pool::alloc takes the first entry that is free.  Nothing is ever freed, *)
(* so which one is first does not matter beyond its being fresh.           *)
(***************************************************************************)
Free(type) == Pool[type] \ taken[type]

\* Mutant: the first entry, free or not.
FreshAny(type) == CHOOSE id \in Pool[type] : TRUE

Fresh(type) == CHOOSE id \in Free(type) : TRUE

\* Mutant: the entry is not marked as in use.
TakeUnmarked(type) == UNCHANGED taken

Take(type) == taken' = [taken EXCEPT ![type] = @ \cup {Fresh(type)}]

RoomInPool(type) == IF Free(type) = {} THEN "NotEnoughMemory" ELSE Ok

(***************************************************************************)
(* Untyped::bump.  The rounding is not a checked addition; the addition of *)
(* the size is.                                                            *)
(***************************************************************************)
Bytes(size) == IF size = "Small" THEN PageSize ELSE MegaSize

\* Mutant: the chunk starts where the last one ended, whatever its alignment.
AlignedAsIs(next, align) == next

Aligned(next, align) == (((next + align - 1) % WordSize) \div align) * align

BumpError(u, bytes) ==
    IF range[u] = None THEN "NotEnoughMemory"
    ELSE LET end == Aligned(range[u].next, bytes) + bytes
         IN  IF end >= WordSize \/ end > range[u].end THEN "NotEnoughMemory" ELSE Ok

Bumped(u, bytes) == [range EXCEPT ![u].next = Aligned(@, bytes) + bytes]

(***************************************************************************)
(* UntypedRetype: checks first, then one object is taken from its pool and *)
(* named, with every right, by a capability in the caller's slot dest.     *)
(* word is the type mr1 asks for ("None" when it decodes to none).         *)
(***************************************************************************)
BudgetError(u) == IF u \in UNTYPED /\ budget[u] = 0 THEN "NotEnoughMemory" ELSE Ok

RetypeChecks(c, word, dest) ==
    <<InvokeError(current, c, "Untyped", "WRITE"),
      IF word = "None" THEN "InvalidArgument" ELSE Ok,
      BudgetError(CapAt(current, c).id),
      FreeError(conf[current].cspace, dest)>>

NewCap(type) ==
    [type |-> type, id |-> Fresh(type), badge |-> {},
     rights |-> IF type = "CNode" THEN {} ELSE Right]

\* Mutant: the budget is only ever looked at.
PaidNever(u) == budget

Paid(u) == [budget EXCEPT ![u] = @ - 1]

\* The object is taken, named and paid for.
Retyped(c, type, dest, r) ==
    /\ Take(type)
    /\ cnode' = [cnode EXCEPT ![conf[current].cspace][dest] = NewCap(type)]
    /\ budget' = Paid(CapAt(current, c).id)
    /\ frame' = Success(r)
    /\ UNCHANGED <<threadVars, ready, current, active, ipcVars>>

\* A kernel object without memory of its own.
RetypePooled(c, type, dest, r) ==
    \/ Refused(<<RoomInPool(type)>>, r) /\ UNCHANGED memVars
    \/ /\ Free(type) # {}
       /\ Retyped(c, type, dest, r)
       /\ UNCHANGED <<range, arena, root, table, mapping>>

\* Mutant: the bound is tested before the pages are added.
RoomInArenaBefore(pages) == IF arena > ArenaPages THEN "NotEnoughMemory" ELSE Ok

RoomInArena(pages) == IF arena + pages > ArenaPages THEN "NotEnoughMemory" ELSE Ok

\* An address space: a page for its root comes from the arena, whether or not
\* the pool then has room for it.
RetypeVSpace(c, dest, r) ==
    \/ Refused(<<RoomInArena(1)>>, r) /\ UNCHANGED memVars
    \/ /\ RoomInArena(1) = Ok
       /\ arena' = arena + 1
       /\ \/ /\ Refused(<<RoomInPool("VSpace")>>, r)
             /\ UNCHANGED <<taken, budget, range, root, table, mapping>>
          \/ /\ Free("VSpace") # {}
             /\ Retyped(c, "VSpace", dest, r)
             /\ root' = [root EXCEPT ![Fresh("VSpace")] = arena]
             /\ UNCHANGED <<range, table, mapping>>

Unmapped == [i \in 1 .. MaxFrameMappings |-> None]

\* A frame: its memory is bumped off the Untyped, whether or not the pool then
\* has room for it.
RetypeFrame(c, size, dest, r) ==
    LET u == CapAt(current, c).id
    IN  \/ Refused(<<BumpError(u, Bytes(size))>>, r) /\ UNCHANGED memVars
        \/ /\ BumpError(u, Bytes(size)) = Ok
           /\ range' = Bumped(u, Bytes(size))
           /\ \/ /\ Refused(<<RoomInPool("Frame")>>, r)
                 /\ UNCHANGED <<taken, budget, arena, root, table, mapping>>
              \/ /\ Free("Frame") # {}
                 /\ Retyped(c, "Frame", dest, r)
                 /\ mapping' = [mapping EXCEPT ![Fresh("Frame")] =
                        [paddr |-> Aligned(range[u].next, Bytes(size)), size |-> size,
                         mapped_at |-> Unmapped]]
                 /\ UNCHANGED <<arena, root, table>>

UntypedRetype(c, word, dest, r) ==
    LET checks == RetypeChecks(c, word, dest)
    IN  \/ Refused(checks, r) /\ UNCHANGED memVars
        \/ /\ Accepted(checks)
           /\ \/ word \in DOMAIN Pool \ {"VSpace", "Frame"} /\ RetypePooled(c, word, dest, r)
              \/ word = "VSpace" /\ RetypeVSpace(c, dest, r)
              \/ word = "FrameSmall" /\ RetypeFrame(c, "Small", dest, r)
              \/ word = "FrameMega" /\ RetypeFrame(c, "Mega", dest, r)
              \* Untyped is never a retype target.
              \/ word = "Untyped" /\ Refused(<<"InvalidArgument">>, r) /\ UNCHANGED memVars

(***************************************************************************)
(* FrameInvoke Map.  Programs are assumed to ask, in mr3, for a mapping    *)
(* that can be read, written or executed: frame.rs:96 takes any bits, but  *)
(* to the three levels an entry with none of these is a branch, no leaf.   *)
(***************************************************************************)
Lowest(S) == CHOOSE i \in S : \A j \in S : i <= j

FreeMappings(f) == {i \in 1 .. MaxFrameMappings : mapping[f].mapped_at[i] = None}

\* Mutant: an address that is translated already may be mapped again.
TakenErrorNever(space, vaddr) == Ok

TakenError(space, vaddr) ==
    IF space \in VSPACE /\ Translate(table, root[space], vaddr) # Invalid
    THEN "IllegalOperation" ELSE Ok

\* Mutant: the address need not be a multiple of the frame's size.
MapChecksUnaligned(f, v, vaddr) ==
    <<InvokeError(current, v, "VSpace", "WRITE"),
      IF FreeMappings(f) = {} THEN "IllegalOperation" ELSE Ok,
      TakenError(CapAt(current, v).id, vaddr)>>

MapChecks(f, v, vaddr) ==
    <<InvokeError(current, v, "VSpace", "WRITE"),
      IF FreeMappings(f) = {} THEN "IllegalOperation" ELSE Ok,
      IF vaddr % Bytes(mapping[f].size) # 0 THEN "AlignmentError" ELSE Ok,
      TakenError(CapAt(current, v).id, vaddr)>>

\* The most pages a walk can need, all taken before it starts.
Spares(size) == IF size = "Small" THEN 2 ELSE 1

\* Mutants: every page goes back, used or not; none does.
KeptNone(size, used) == arena
KeptAll(size, used)  == arena + Spares(size)

\* The pages left over go back: they were the last ones taken.
Kept(size, used) == arena + used

Map(f, v, vaddr, r) ==
    LET size   == mapping[f].size
        space  == CapAt(current, v).id
        walk   == IF size = "Small"
                  THEN MapPage(table, root[space], vaddr, mapping[f].paddr, arena)
                  ELSE MapMegapage(table, root[space], vaddr, mapping[f].paddr, arena)
        checks == MapChecks(f, v, vaddr)
    IN  \/ Refused(checks, r) /\ UNCHANGED memVars
        \* The pages taken before one could not be had are not given back.
        \/ /\ Accepted(checks)
           /\ Refused(<<RoomInArena(Spares(size))>>, r)
           /\ arena' = ArenaPages
           /\ UNCHANGED <<taken, budget, range, root, table, mapping>>
        \/ /\ Accepted(checks)
           /\ RoomInArena(Spares(size)) = Ok
           /\ table' = walk.tb
           /\ arena' = Kept(size, walk.used)
           /\ mapping' = [mapping EXCEPT
                  ![f].mapped_at[Lowest(FreeMappings(f))] = <<space, vaddr>>]
           /\ frame' = Success(r)
           /\ UNCHANGED <<threadVars, ready, current, active, ipcVars, cnode,
                          taken, budget, range, root>>

(***************************************************************************)
(* FrameInvoke Unmap: the first recorded mapping into the named address    *)
(* space is undone; without one, nothing happens and that is success.      *)
(***************************************************************************)
MappingsInto(f, space) ==
    {i \in 1 .. MaxFrameMappings :
        mapping[f].mapped_at[i] # None /\ mapping[f].mapped_at[i][1] = space}

Unmap(f, v, r) ==
    LET space  == CapAt(current, v).id
        checks == <<InvokeError(current, v, "VSpace", "WRITE")>>
        i      == Lowest(MappingsInto(f, space))
    IN  \/ Refused(checks, r) /\ UNCHANGED memVars
        \/ /\ Accepted(checks)
           /\ \/ MappingsInto(f, space) = {} /\ UNCHANGED memVars
              \/ /\ MappingsInto(f, space) # {}
                 /\ table' = UnmapLeaf(table, root[space], mapping[f].mapped_at[i][2])
                 /\ mapping' = [mapping EXCEPT ![f].mapped_at[i] = None]
                 /\ UNCHANGED <<taken, budget, range, arena, root>>
           /\ frame' = Success(r)
           /\ UNCHANGED <<threadVars, ready, current, active, ipcVars, cnode>>

\* frame::invoke: the frame, then the operation the tag's label names.
FrameInvoke(c, label, v, vaddr, r) ==
    LET checks == <<InvokeError(current, c, "Frame", "WRITE"),
                    IF label \in {"Map", "Unmap"} THEN Ok ELSE "InvalidArgument">>
        f      == CapAt(current, c).id
    IN  \/ Refused(checks, r) /\ UNCHANGED memVars
        \/ Accepted(checks) /\ label = "Map" /\ Map(f, v, vaddr, r)
        \/ Accepted(checks) /\ label = "Unmap" /\ Unmap(f, v, r)

(***************************************************************************)
(* The two syscalls among the others                                       *)
(***************************************************************************)
MemoryTrap ==
    /\ current # None
    /\ \E err \in Flags :
          LET r == Request(current, 0, err)
          IN  \/ \E w \in Retypes : UntypedRetype(w[1], w[2], w[3], r)
              \/ \E w \in FrameWords : FrameInvoke(w[1], w[2], w[3], w[4], r)

MemoryNext == MemoryTrap \/ (Next /\ UNCHANGED memVars)

MemorySpec == MemoryInit /\ [][MemoryNext]_allVars
=============================================================================
