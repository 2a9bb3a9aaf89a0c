-------------------------- MODULE MemoryProperties ---------------------------
(***************************************************************************)
(* What the kernel promises about objects and memory: invariants and       *)
(* action properties of the specification in Memory, and the claims of its *)
(* comments and tests that the code does not keep.                         *)
(***************************************************************************)
EXTENDS Memory, KernelProperties

\* The address spaces whose programs keep to what MapsApart, below, says of a Map.
CONSTANT Careful

ASSUME CarefulAssumption == Careful \subseteq VSPACE

AddressSpaces == taken.VSpace
Frames        == taken.Frame

\* The page addresses that the three levels can tell apart.
PageAddress == {PageSize * n : n \in 0 .. TableEntries * TableEntries * TableEntries - 1}

Translation(v, vaddr) == Translate(table, root[v], vaddr)

\* Where the kernel itself is in each address space that the loader has made.
KernelPlace(v, vaddr) ==
    v \in BootObjects.VSpace /\ vaddr \in KernelBase .. KernelBase + MegaSize - 1

(***************************************************************************)
(* Invariants                                                              *)
(***************************************************************************)

\* The physical chunks two frames stand for never share a byte; each is aligned to
\* its size and lies in memory some Untyped has handed out (object.rs bump).
Chunk(f) == mapping[f].paddr .. mapping[f].paddr + Bytes(mapping[f].size) - 1

HandedOut(f, u) ==
    /\ BootRange[u] # None
    /\ BootRange[u].next <= mapping[f].paddr
    /\ mapping[f].paddr + Bytes(mapping[f].size) <= range[u].next

FramesDisjoint ==
    /\ \A f \in Frames : /\ mapping[f].paddr % Bytes(mapping[f].size) = 0
                         /\ \E u \in UNTYPED : HandedOut(f, u)
    /\ \A f, g \in Frames : f # g => Chunk(f) \cap Chunk(g) = {}

\* The page tables of all address spaces together are a forest: every root and every
\* branch names a page of its own, one that the arena has handed out, and what it
\* has not is blank, as alloc promises (object.rs release_last, frame.rs map).
Branches == {b \in Page \X Index : table[b[1]][b[2]].kind = "Branch"}
Target(b) == table[b[1]][b[2]].to

TablesDistinct ==
    /\ \A v \in AddressSpaces : root[v] < arena
    /\ \A v, w \in AddressSpaces : root[v] = root[w] => v = w
    /\ \A b \in Branches : /\ b[1] < arena /\ Target(b) < arena
                           /\ \A v \in AddressSpaces : root[v] # Target(b)
    /\ \A b, d \in Branches : Target(b) = Target(d) => b = d
    /\ \A p \in Page : p >= arena => table[p] = EmptyTable

\* The kernel stays where the loader put it: whatever is mapped and unmapped since,
\* every address space it made translates the kernel's megapage to itself, so that a
\* handler finds its code, its state and the page tables under whichever of these is
\* active (object.rs:349-353, frame.rs map, unmap).
KernelMapped ==
    \A v \in BootObjects.VSpace, vaddr \in PageAddress :
       KernelPlace(v, vaddr) => Translation(v, vaddr) = Leaf(vaddr)

\* What the frames record and what the page tables of a careful program's address space
\* translate agree: a recorded mapping translates every page of its frame, and but for
\* the kernel nothing is translated that no frame records, which Unmap could then never
\* remove (frame.rs map, unmap).
Recorded(f, v, vaddr) ==
    \E i \in MappingsInto(f, v) :
        LET start == mapping[f].mapped_at[i][2]
        IN  vaddr \in start .. start + Bytes(mapping[f].size) - 1
            /\ Translation(v, vaddr) = Leaf(mapping[f].paddr + (vaddr - start))

MappingsAgree ==
    /\ \A f \in Frames, v \in AddressSpaces \cap Careful : \A i \in MappingsInto(f, v) :
          \A vaddr \in PageAddress :
             LET start == mapping[f].mapped_at[i][2]
             IN  vaddr \in start .. start + Bytes(mapping[f].size) - 1 => Recorded(f, v, vaddr)
    /\ \A v \in AddressSpaces \cap Careful, vaddr \in PageAddress :
          Translation(v, vaddr) # Invalid /\ ~KernelPlace(v, vaddr) =>
             \E f \in Frames : Recorded(f, v, vaddr)

\* Whatever is mapped over what, by careful programs or not, but for the kernel nothing
\* is translated that no frame records: where an address is translated, some frame
\* records a mapping in its place, the page or the megapage that a walk finds there,
\* and the translation is into that frame. So no step forgets a mapping and leaves its
\* translation behind (frame.rs map, unmap).
SamePlace(size, a, b) ==
    /\ RootIndex(a) = RootIndex(b) /\ MegaIndex(a) = MegaIndex(b)
    /\ size = "Small" => PageIndex(a) = PageIndex(b)

NothingUnrecorded ==
    \A v \in AddressSpaces, vaddr \in PageAddress :
       Translation(v, vaddr) # Invalid /\ ~KernelPlace(v, vaddr) =>
          \E f \in Frames : \E i \in MappingsInto(f, v) :
             /\ SamePlace(mapping[f].size, mapping[f].mapped_at[i][2], vaddr)
             /\ Translation(v, vaddr) = Leaf(mapping[f].paddr + (vaddr % Bytes(mapping[f].size)))

\* Whatever a thread can name exists: every capability, in a slot or attached by a
\* blocked sender, and every thread's configuration names an object in use, so the
\* handlers' lookups in the pools cannot fail; and an entry not in use is as fresh
\* as the code makes a new one (pool.rs, admin.rs).
InUse(cap) == cap.type \in DOMAIN Pool => cap.id \in taken[cap.type]

NothingNamesTheFree ==
    /\ \A k \in CNODE, s \in Slot : InUse(cnode[k][s])
    /\ \A t \in TCB : /\ tstate[t].kind = "BlockedSend" /\ tstate[t].extra_cap # None =>
                            InUse(tstate[t].extra_cap)
                      /\ conf[t].cspace \in taken.CNode \cup {None}
                      /\ conf[t].vspace \in AddressSpaces \cup {None}
    /\ \A t \in Free("Tcb") : tstate[t] = Inactive /\ conf[t].cspace = None
    /\ \A k \in Free("CNode"), s \in Slot : cnode[k][s] = Null
    /\ \A e \in Free("Endpoint") : endpoint[e] = EmptyQueue
    /\ \A n \in Free("Notification") : signals[n] = {} /\ waiters[n] = <<>>

\* Every object made since boot was paid for by the budget of an Untyped, once, and
\* a refused retype costs none of it: as many units of budget are gone as there are
\* objects (admin.rs).
UnitsSpent     == UNION {{u} \X (budget[u] + 1 .. BootBudget[u]) : u \in UNTYPED}
MadeSinceBoot  == UNION {{type} \X (taken[type] \ BootObjects[type]) : type \in DOMAIN Pool}

BudgetsSpent ==
    /\ \A u \in UNTYPED : budget[u] <= BootBudget[u]
    /\ Cardinality(UnitsSpent) = Cardinality(MadeSinceBoot)

(***************************************************************************)
(* Action properties                                                       *)
(***************************************************************************)

\* Authority is only ever made out of untyped memory: a slot is filled with no more
\* than some slot held before the step, or a blocked sender had attached, or with a
\* capability to an object that was free, by a thread that may spend an Untyped, and
\* that pays for it (admin.rs, cnode.rs, ipc.rs).
Inherited(cap) ==
    \/ \E k \in CNODE, s \in Slot : cnode[k][s] # Null /\ DerivedFrom(cap, cnode[k][s])
    \/ \E t \in TCB : /\ tstate[t].kind = "BlockedSend" /\ tstate[t].extra_cap # None
                      /\ DerivedFrom(cap, tstate[t].extra_cap)

Created(cap) ==
    /\ cap.type \in DOMAIN Pool
    /\ cap.id \in Free(cap.type)
    /\ \E u \in UNTYPED : Wields("Untyped", u, "WRITE") /\ budget'[u] = budget[u] - 1

AuthorityMade ==
    [][\A k \in CNODE, s \in Slot :
          cnode'[k][s] # cnode[k][s] /\ cnode'[k][s] # Null =>
             Inherited(cnode'[k][s]) \/ Created(cnode'[k][s])]_allVars

\* With memory among the syscalls too, nothing is done to an object but by a thread that
\* names it with the right to. A retype adds one way to fill a slot: it names the object
\* it has made, and paid for, in an empty slot of its thread's own CSpace (admin.rs).
SlotMade(k, s) ==
    k = conf[current].cspace /\ cnode[k][s] = Null /\ Created(cnode'[k][s])

MemoryObjectsReached ==
    /\ EndpointsReached /\ NotificationsReached /\ ThreadsReached
    /\ \A k \in CNODE, s \in Slot :
          cnode'[k][s] # cnode[k][s] => SlotReached(k, s) \/ SlotMade(k, s)

MemoryObjectsNamed == [][current # None => MemoryObjectsReached]_allVars

\* What the check before a Map leaves to the programs: a megapage goes where no page
\* has been mapped before, so that there is no table of pages in its place, and nothing
\* goes beyond the addresses that the three levels can tell apart (frame.rs:116). The
\* kernel does not see to it; it is assumed of those who map into a careful program's
\* address space, and of nobody else.
MegaEntry(tb, r, vaddr) ==
    LET upper == tb[r][RootIndex(vaddr)]
    IN  IF upper.kind = "Branch" THEN tb[upper.to][MegaIndex(vaddr)] ELSE Invalid

MapsApart ==
    \A f \in Frames : \A i \in 1 .. MaxFrameMappings :
       LET at == mapping'[f].mapped_at[i]
       IN  at # mapping[f].mapped_at[i] /\ at # None /\ at[1] \in Careful =>
              /\ at[2] + Bytes(mapping[f].size) <= Reach
              /\ mapping[f].size = "Mega" =>
                    MegaEntry(table, root[at[1]], at[2]).kind # "Branch"

CarefulSpec == MemoryInit /\ [][MemoryNext /\ MapsApart]_allVars

\* No operation on one address space shows in another, though they are built of pages
\* of one arena: what an address stands for changes in one address space at a time, and
\* the running thread has WRITE on it and on some frame (frame.rs map, unmap).
Changed(v) == \E vaddr \in PageAddress : Translation(v, vaddr)' # Translation(v, vaddr)

SpacesIsolated ==
    [][\A v \in AddressSpaces : Changed(v) =>
          /\ Wields("VSpace", v, "WRITE")
          /\ \E f \in Frames : Wields("Frame", f, "WRITE")
          /\ \A w \in AddressSpaces \ {v} : ~Changed(w)]_allVars

\* And in a careful program's address space it changes only with what that frame records:
\* none undoes or replaces the mapping of a frame the thread has no authority over
\* (frame.rs map, unmap).
Turned(v, vaddr) == {f \in Frames : Recorded(f, v, vaddr) # Recorded(f, v, vaddr)'}

TranslationAuthorised ==
    [][\A v \in AddressSpaces \cap Careful, vaddr \in PageAddress :
          Translation(v, vaddr)' # Translation(v, vaddr) =>
             /\ Turned(v, vaddr) # {}
             /\ \A f \in Turned(v, vaddr) : Wields("Frame", f, "WRITE")]_allVars

\* An operation that succeeds takes exactly the arena pages that become a root or a
\* branch table, and never one that was: a Map whose walk finds its branches there
\* costs none (frame.rs:160).
LinkedPages == {root[v] : v \in AddressSpaces} \cup {Target(b) : b \in Branches}

PagesNotWasted ==
    [][LinkedPages' \ LinkedPages = arena .. arena' - 1 \/ frame'.err]_allVars

(***************************************************************************)
(* Claims of the comments and tests that the code does not keep; each is   *)
(* refuted by a run of its own.                                            *)
(***************************************************************************)

\* frame.rs:128-130: whatever a Map's walk did not take goes straight back, so that
\* mapping again and again does not drain the arena: pages leave it only for good.
MapDrainsNothing ==
    [][arena' # arena => taken' # taken \/ table' # table]_allVars

\* admin.rs:55-56: a retype validates everything before it allocates anything; so
\* memory leaves an Untyped or the arena only when an object comes of it.
RefusedRetypeTakesNothing ==
    [][range' # range \/ arena' # arena => taken' # taken]_allVars
=============================================================================
