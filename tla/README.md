# lantern-kernel in TLA+

A model of the LanternOS microkernel (`src/src/*.rs`): what its threads can do
to each other through scheduling, IPC and capabilities, the properties that
must survive every interleaving of their syscalls, TLC runs that check them on
small instances, and proofs for every instance.

The kernel runs on one hart, on one stack, to completion
(`src/src/lib.rs`, "single-stack, non-reentrant"). A trap is therefore atomic
and is one step of the model; what interleaves is whole syscalls of different
threads. What makes this code hard is that a thread's half-finished business
(a place in a wait queue, a snapshot of a capability, a reply link, a saved
register file) is read by *other* threads' syscalls, arbitrarily later.

## Inventory

| Part | Source | State it keeps | Operations | Interacts with |
|---|---|---|---|---|
| Capabilities | `cap.rs`, `error.rs` | the slots of a CNode | `get`, `slot_mut`, `rights` | every syscall looks one up |
| CNode operations | `cnode.rs` | CNodes | Mint, Copy, Move, Delete, CopyCross, Revoke (refused) | the slots that lookups and transfers read |
| IPC | `ipc.rs`, `abi.rs` | endpoint queues, signal words, waiters, reply links, states and saved registers of threads | Send, NBSend, Call, Recv, Reply, Signal, Wait, Poll | scheduler, CNodes (capability transfer) |
| Scheduling | `state.rs`, `scheduler.rs` | ready queue, current thread, thread states, the trap frame | `make_ready`, `block_current`, `switch_to`, `lookup_cap` | used by every syscall that wakes or blocks |
| Queues | `queue.rs` | ring buffer | `push_back`, `pop_front`, `front`, `remove` | ready queue, endpoint and notification queues |
| Threads and objects | `object.rs` | Tcb, Endpoint, Notification | - | held in the pools, reached by index |
| Memory objects | `object.rs` | Untyped budget and bump range, kernel page-table arena, Frames, VSpaces | `bump`, `alloc`, `release_last` | `admin.rs`, `frame.rs` |
| Administration | `admin.rs` | pools, Tcb configuration | TCBConfigure, UntypedRetype | scheduler, pools, CNodes |
| Frames | `frame.rs` | mappings of a frame, page tables | Map, Unmap | page-table arena |
| Pools, limits | `pool.rs`, `limits.rs` | `[Option<T>; N]` and a length | `alloc`, `get`, `free` | every object |
| Dispatch and boot entry | `syscall.rs`, `lib.rs` | - | `dispatch`, `yield_now`, `kernel_trap_handler`, `enter_first_thread` | calls all of the above |
| Hardware | lantern-hal, not in the repository | trap frame, active page table | trap entry, page-table walks | every switch |

Hard behaviours, and what makes the part correct:

- **Scheduling.** A stale or duplicate queue entry resumes a thread that is
  blocked, long after the mistake (the comments on `make_ready` and
  `enter_first_thread` record two such bugs). Correct: Ready means queued exactly
  once, Running means current, and the hart translates through the running
  thread's address space.
- **Rendezvous.** One queue serves senders and receivers in turn; either side may
  come first, and the message of the one that came first is read later out of its
  blocked state. Correct: an endpoint queues exactly the threads blocked on it, on
  one side; nobody resumes but by its partner, and sees that partner's message.
- **Reply links.** `reply_to` is recorded at Call time and used any number of
  syscalls later. Correct: it names a thread still waiting for a reply, and only
  one thread owes it.
- **Capability transfer.** A transfer may fail after both parties have been found;
  nothing may have been consumed then. Correct: it fills an empty slot that was
  registered for it, with a capability that carries GRANT, or changes nothing.
- **Notifications.** Correct: no wakeup is lost, and pending bits go to one thread.
- **Authority.** Correct: no chain of mints, copies, moves and transfers makes a
  capability that the system did not start with, or moves one out of its domain
  without GRANT.
- **Liveness.** There is no timer and no idle thread. A thread that would leave
  the hart with nothing to run gets `Timeout`; a ready thread runs only when the
  running ones give up the hart.
- **Memory.** Multi-step allocations that fail half-way, records of mappings that go
  out of step with the page tables, alignment arithmetic, four resources (pool,
  budget, physical range, arena) that run out each on its own. Correct: the memory of
  two frames and the pages of two tables never overlap; the kernel stays mapped, and
  nothing else is translated that no frame records; a frame's records and the
  translations agree, where programs see to what the check does not; authority is only
  made out of untyped memory, and paid for; what an operation is refused it has not
  taken (two places in the code where it has).

## Modules

| Module | Stands for |
|---|---|
| `Capabilities` | capability values, rights, badges, `cnode::attenuate`, the error enum |
| `Queues` | a queue as a bounded sequence: `push_back` that drops when full, `remove` of the first occurrence |
| `KernelState` | the variables; registers, thread states, queues, lookup, `make_ready`, `switch_to`, `block_current`; what a refused syscall leaves behind |
| `Ipc` | the eight IPC syscalls, each a whole handler |
| `CNodeInvoke` | the CNode operations |
| `Kernel` | boot, `TCBConfigure`, Yield, dispatch; `Init`, `Next`, `Spec` |
| `PageTables` | what lantern-hal's translate, map and unmap do to three levels of tables (external: the crate is not in the repository) |
| `Memory` | composes `Kernel` and `PageTables`: pools, Untyped, the page-table arena, address spaces, frames; `UntypedRetype`, `FrameInvoke`; `MemorySpec` |
| `Rendezvous` | abstract specification of IPC over endpoints: messages, callers, answers; nothing of scheduling, registers or capabilities |
| `KernelProperties` | invariants, action properties, the refinement of `Rendezvous`, liveness, and the claims of comments the code does not keep |
| `MemoryProperties` | the same for objects and memory; `Careful` and `CarefulSpec`, what a program has to see to |
| `MCKernel` + `MCKernel_*.cfg` | up to three threads with a CNode each, and what a run puts in their slots |
| `MCMemory` + `MCMemory_*.cfg` | one thread at boot, one to be retyped, an Untyped with a small range |
| `KernelLemmas` | proofs about the operators: checks, queues, messages, lookup, minting |
| `KernelSteps` | the inductive invariant `Inv`, and what waking, blocking, handing over, queueing and owing do to it |
| `KernelProofs` | one lemma per syscall, and the invariants as theorems of `Spec` |
| `AuthorityProofs` | `AuthorityConfined` and `ObjectsNamed`, on top of `Inv` |
| `StepProofs` | the action properties, and the refinement of `Rendezvous`, on top of `Inv` |
| `MemoryProofs` | all of the above holds of `MemorySpec` too; whatever is named exists; where new authority comes from; budgets add up |
| `FrameProofs` | frames do not overlap, page tables are a forest, address spaces are isolated; what frames record and what tables translate agree |
| `Fifo` | abstract specification of a queue: the sequence of `Queues`, and what each call answers |
| `ArrayQueue` + `ArrayQueue.cfg` | the ring buffer of `queue.rs`, and `Contract`: it implements `Fifo` |
| `ArrayQueueProofs` | its invariants, and the refinement, for every capacity |

So there are two chains of implementation: `ArrayQueue` implements `Fifo`, whose
sequence the kernel modules use for every queue; and `Kernel`, with those queues,
implements `Rendezvous`.

### How state and actions correspond to the code

`tstate`, `conf`, `ctx` and `replyTo` are the fields of `Tcb`; `ready` and
`current` are `Scheduler`; `endpoint`, `signals` and `waiters` are the object
pools of endpoints and notifications; `cnode` the slots. `frame` is the one
hardware trap frame, which holds the running thread's registers, and `active` the
page table the hart translates through. A message is reduced to what the kernel
reads or writes: `mr0` (a badge, an error code, or a word of the thread's own),
what kind of word `mr1` is, whose payload `mr2` and `mr3` are, the tag's
`extra_caps` and its error bit. A badge is the set of its one bits, so OR is
union. An object is its index in a pool, named by a model value.

A handler is a disjunction. Its checks, in the order of the code, are a sequence;
`Refused` says that the first that fails is answered and nothing else changes, and
each accepted branch is a disjunct guarded by the state it matches on. Inside an
endpoint syscall, `CanBlock` is the code's test of `has_ready` before it blocks,
and a transfer is validated (`PlaceError`) before anything is dequeued, as in the
code. `Enqueue`, `Handover`, `SwitchTo` and `BlockCurrent` take the thread states
and saved registers they are to build on, because one syscall changes them several
times (Reply makes the replier ready and then switches to the caller).

`ArrayQueue` goes below that granularity in one place. `items`, `head` and `len`
are the fields of the struct; `push_back`, `pop_front` and `front` are one step
each, but `remove` takes one step per entry it reads, with the locals of its loop
in `pass`. No other call is allowed while a `remove` is under way (`&mut self`);
the steps are there so that the claim in its comment, that the write cursor never
overtakes the read cursor, is a statement about states.

Boot is part of the behaviour: before the first thread runs, the loader may
configure its threads, make them ready again and enter one, in any order. The
loader itself (lantern-boot) is outside the repository and is modelled from how
the code and its comments use `admin::configure`, `make_ready` and
`enter_first_thread`.

In `Memory`, `taken` holds the entries of each pool that are in use. `Pool::alloc`
takes the first free slot and answers its index; an index is a model value here and
which free entry is taken is fixed but arbitrary, because no code compares indices.
An entry not in use stands in the state the code writes into a fresh one, so taking
it changes nothing else. `budget` and `range` are `Untyped::remaining` and
`Untyped::memory`; `arena` is `KernelPageTables::next` counted in pages, and `table`
the contents of those pages; `root` is `VSpace::root`, `mapping` the fields of a
`Frame`. The Tcb field `vspace` holds in the code the root page of an address space
and in the model the address space; roots are distinct (`TablesDistinct`), so each
stands for the other. A `Map` takes its spare pages, walks, and gives back what the
walk did not use, in one step like every trap; when the spares cannot all be had,
what was taken stays taken, as in the code.

What boot retypes before it hands over is in use initially (`BootObjects`). The
address spaces among it are not empty: the loader's `map_kernel_shared`, which is
outside the repository, maps the megapage of the kernel's own image, at its physical
address, into every one it makes (`object.rs:349-353`, `STATUS.md:248-251`), so that
page tables and kernel state can be reached whichever is active. No Frame records that
mapping. The model starts each with a root, one table and that leaf (`BootEntry`,
`KernelAssumption`, external), and what is said of records and translations below
exempts `KernelPlace`, the kernel's own addresses in those address spaces, and nothing
else; that the kernel *stays* there is a property of its own (`KernelMapped`). An
address space retyped later has no such leaf, in the code as in the model. Frames that
the loader retypes and maps for a program go through the same handlers as those of
syscalls, before the first thread enters; in the model that thread retypes and maps
them (`BootObjects.Frame = {}`).

A mapping is modelled as a leaf, whatever permissions it has. That is an assumption
on programs: `frame.rs:96` takes `mr3` as it is, and when it asks for none of read,
write and execute, the entry is valid but to Sv39 a branch into the frame's memory.
What `riscv64_translate` and later walks make of that is lantern-hal's; nothing below
covers programs that do it.

## Runs

The runs of `MCKernel` have two or three threads, one CNode each, and `MaxTcbs = 3`,
so that in the runs with three threads a queue has exactly the room the code gives
it: one place per thread. Three threads are enough for a running one, a
blocked one and a third that intervenes between them; a queue can hold two entries
besides the running thread, so order matters. A run narrows the syscalls, the words
and the slots to those its question needs. Deadlock is checked in every run: once
boot has entered a thread, some thread always has the hart and can trap.

| Run | Instance | Shows |
|---|---|---|
| `ipc` | three threads, two endpoints, a notification signalled under two badges and none; all eight IPC syscalls and Yield, plain messages | `TypeOK`, `SchedulerExact`, `EndpointQueuesExact`, `ReplyLinksExact`, `NotificationsExact`; `WokenByPartner`, `SleepersWoken`, `SignalsConserved`; `RendezvousKept`; `ObjectsNamed`; `NoStarvation` under `Cooperative` |
| `transfer` | one endpoint in use, tags that attach a capability, register a slot, or are outside the fast path; slot words free, occupied and out of range; slots emptied between | `AuthorityConfined`, `WokenByPartner`, `LinksNotDropped`, `SlotsNeverReplaced` |
| `admin` | Mint, Copy, Move, Delete, CopyCross and the refused labels, with Send and Recv between them, over two protection domains | `AuthorityConfined`, `SlotsNeverReplaced` |
| `service` | two clients and a server that empties slots; threads configured by boot, by each other and by themselves in every state, with and without an address space | `SchedulerExact`, `TranslationFollows`, `ObjectsNamed`; `SendersServed` under `Attentive` |
| `memory` | an Untyped with a budget of four and a range of eleven bytes that starts misaligned, an arena of six pages, an address space of the loader with the kernel in it and one that is retyped, a page and a megapage, a thread that is retyped, configured and run; `CarefulSpec` | `MemoryTypeOK`, `FramesDisjoint`, `TablesDistinct`, `KernelMapped`, `MappingsAgree`, `NothingNamesTheFree`, `BudgetsSpent`, `NothingUnrecorded`; `AuthorityMade`, `SpacesIsolated`, `TranslationAuthorised`, `PagesNotWasted`, `MemoryObjectsNamed` |
| `ring` | a ring buffer of capacity four over two values | `TypeOK`, `WriteBehindRead`, `FilledExactly`, and `Contract`, the refinement of `Fifo` |

In `memory` a page has two bytes and a table two entries, so a megapage has four
bytes and three levels reach sixteen: two regions, each of which needs branch tables
of its own. A page cut off between two megapages leaves `next` misaligned for the next
one. Of the six pages of the arena, boot has taken two, for the root of `v1` and the
table its kernel megapage (at 12) is in; four are left for a second root and tables,
fewer than the mappings of both address spaces need. Every one of the pool, the
budget, the range and the arena runs out in some order.

Two address spaces are there for two kinds of programs. In `v1`, the careful one, a
page shares a table with the kernel's megapage (at 8) and the lower region with a
megapage at 4, and the kernel's own place is asked for (and refused). In `v2` a page
at 2 and a megapage at 0 are mapped in either order: a megapage replaces a table of
pages, the page's record goes stale, and an Unmap by it can clear the other's leaf. So
`NothingUnrecorded` meets there what `MappingsAgree` does not hold for, and says
something that `MappingsAgree`, which is about `v1`, does not. `MappingsAgree` and
`TranslationAuthorised` are about address spaces in `Careful` only. What a Map into
those has to respect is `MapsApart`: no megapage over a table of pages, nothing beyond
what three levels reach. The kernel does not enforce it (`frame.rs:116` asks about the
first address only), so it is no property but an assumption of the instance, a
conjunct of the step in `CarefulSpec`; `stale_mapping` runs the same kernel without
it, and `MappingsAgree` is violated. (The words of this instance for `v1` meet it as
they stand.) `FramesDisjoint`, `TablesDistinct`, `KernelMapped`, `NothingUnrecorded`,
`SpacesIsolated` and `PagesNotWasted` are proved of `MemorySpec`, without it.

Capacity four and two values make every case of `ring` happen: the contents wrap
or not, start at every index, hold the value once, several times or not at all,
and at the front, in the middle or at the end. There is no bound on the length of
a behaviour in any run; the state spaces are finite.

Four runs (`transfer`, `admin`, `service`, `memory`) use the view `Live`, which
drops the trap frame and the running thread's saved registers from the fingerprint.
No step reads either: a trap starts from the registers the program chose
(`Request`), and both are overwritten before they are next read. The properties of
those runs read them only in the successor state, so two states the view merges
have the same successors as far as the properties can tell. The liveness property
of `service`, and the subscripts and enabling conditions of its fairness, read only
variables that the view keeps.

Six runs expect a violation. Each states what a comment of the repository says
and the code does not do.

| Run | The claim | What the code does |
|---|---|---|
| `slot_leak` | a receiver never sees a caller's reply slot as payload (`ipc.rs:314-316`) | `recv` delivers it when the caller was queued (`ipc.rs:258`) |
| `stranded_caller` | Reply answers the most recent unanswered Call (`object.rs:154-156`, `ipc.rs:361`) | a second Call overwrites the link; once it is answered, the first is the most recent unanswered one, no link names it, and its caller waits for ever |
| `attached_deleted` | a blocked sender's CSpace cannot change under the capability it attached (`object.rs:113-116`) | another holder of its CNode empties the slot while it is blocked, and the Recv that comes then delivers the capability all the same |
| `retype_leak` | a retype validates everything before it allocates anything (`admin.rs:55-56`) | it takes a page of the arena, or memory off the range, before the pool turns out to be full |
| `map_leak` | what a Map does not use goes straight back, so that mapping again and again does not drain the arena (`frame.rs:128-130`) | a Map that can have one spare page of two keeps it and fails (`frame.rs:137`); here the arena has two pages, a root and one more |
| `stale_mapping` | `mapped_at` says where a frame is mapped (`object.rs:421-422`) | the check before a Map asks about the first address only (`frame.rs:116`), so a megapage can replace the table a page is mapped in, and the page's record stays |

Smaller disagreements, which have no run:

- the comment on `lookup_cap` (`state.rs:139-141`) promises `FailedLookup` for a
  CPtr out of range; the code answers `InvalidCapability`, as for an empty slot;
- the comment on `switch_to` (`state.rs:64-66`) says Send and Signal switch straight
  to a waiting receiver; they make it ready, only Call and Reply switch;
- Yield writes its success into the trap frame after the switch (`syscall.rs:68`),
  so it clears the error bit of the thread resumed, where a test's comment says a
  switch restores exactly what was saved (`state.rs:257`);
- the comment on `Capability::VSpace` (`cap.rs:80-83`) says retyping one needs an
  Untyped with physical memory; the code takes its page from the kernel's arena.

### Fairness

The kernel is given no timer, so nothing in the code makes a running thread give
up the hart. Both fair specifications therefore state what the programs must do,
and what is checked is the code's part.

`Cooperative`: boot enters a first thread, and whoever runs keeps issuing Yield
(weak fairness of both; other syscalls are taken or not). `NoStarvation` then says
that round robin serves the ready queue in order and directed handoffs do not
overtake a ready thread for ever.

`Attentive` adds programs that serve: a thread that can again and again take a
queued message, with a slot registered for what comes with it, does so (strong
fairness of `Serve`), and empties slots that can be emptied (`Clear`), except of
capabilities it receives by. It is strong fairness because the programs get the hart
again and again, not for good. `SendersServed` then says that a queued sender leaves
the queue, unless nobody is left who could receive: a Recv without room for the
attached capability fails and leaves the sender at the head, and no order of such
failures keeps it there.

## Proofs

All theorems hold for any number of threads, objects, bits and slots, under the
named assumptions of the modules: a CNode has a slot (`SlotsAssumption`), `None`
is not an object (`NoneAssumption`) nor a capability (`NoCapabilityAssumption`), the
TCBs fit the pool whose size is also the capacity of every queue
(`MaxTcbsAssumption`; `limits.rs` and `queue.rs` use the same `MAX_TCBS`), boot gives
every thread a CSpace and programs pass natural words (`ProgramsAssumption`), and a
CNode capability present at boot stays within its domain (`DomainAssumption`, which
defines what a domain is). The theorems about memory also assume

- a page and a table of some size (`PageTableAssumption`);
- that the ranges boot hands over do not overlap and end a megapage before the end of
  the address space, as physical memory does; that the loader names, and fills the
  slots of, objects it has made, and has made no frame; and that a virtual address is a
  natural number (`MemoryAssumption`);
- that the loader's address spaces have roots and tables of their own in the part of
  the arena it has taken, and the kernel an aligned megapage that three levels reach
  (`KernelAssumption`);
- that a recorded mapping is not taken for an empty record (`NoMappingAssumption`), and
  that `Careful` is a set of address spaces (`CarefulAssumption`).

`KernelProofs` proves `Spec => []TypeOK`, `[]SchedulerExact`,
`[]EndpointQueuesExact`, `[]NotificationsExact` and `[]ReplyLinksExact`. None of
the five is inductive alone, and the invariant is their conjunction `Inv`:

- waking the head of an endpoint queue keeps the ready queue duplicate-free only
  because that head is blocked (`EndpointQueuesExact`), hence not already queued;
- Reply hands the hart to the thread its link names, which must be in no queue:
  it is `BlockedReply` (`ReplyLinksExact`), which no queue holds;
- a block hands the hart to the head of the ready queue, which is in no wait
  queue because it is `Ready` (`SchedulerExact`);
- `push_back` never drops a thread because a queue that lists distinct threads,
  not including the one about to enter, is shorter than the number of threads
  (`RoomForOneMore`). So no wakeup is lost to a full queue, for any `MaxTcbs` at
  least the number of threads, and `NotEnoughMemory` cannot be answered by IPC.

`KernelSteps` proves once what each building block does (`WakeExact`,
`HandoverExact`, `BlockExact`, `EndpointPop`, `EndpointPush`, `LinkMade`, ...), and
`KernelProofs` has one lemma per syscall that composes them.

`AuthorityProofs` proves `Spec => []AuthorityConfined`. The capability in a blocked
sender's state matters as much as those in slots, so the invariant covers both. The
argument is made once, for any family `may` of sets of capabilities, one set per
CNode, that is `Closed`: an attenuated copy may be where its source is, what carries
GRANT may be anywhere, and a CNode capability opens only CNodes that may hold the
same. `NextConfined` shows that no step leads out of a closed family. With `Origins`
(the capabilities that derive from one present at boot in the domain, or granted by
another) it gives `AuthorityConfined`; `MemoryProofs` uses it twice more.
`ReachCorrect` proves `Spec => ObjectsNamed`, the other half of what a capability
system promises: each handler changes only the queue, word, thread or slots of the
object that it looked up, with the right it checked there. A thread's own CSpace is no
exception: a slot of any CNode changes by a thread that names the CNode, or is filled,
having been empty, by a message, which resumes the thread that registered the slot
(`GivenTo`) or releases the queued sender whose attached capability is placed
(`TakenFrom`).

`StepProofs` proves the action properties (`WokenByPartner`, `SleepersWoken`,
`SignalsConserved`, `SlotsNeverReplaced`, `LinksNotDropped`, `TranslationFollows`)
and `RendezvousKept`. `SignalsConserved` ties the bits that leave a word to the thread
that asks for them (`Consumed`), those that enter it to a signaller's badge
(`Raised`), and says that nobody is told of bits that stay (`BitsTold`); what a Signal
hands straight to a waiter was never pending and is in `SleepersWoken`.
`SlotsNeverReplaced` says of every two slots that change in one step that one gave the
other its capability (`Moved`). `Lawful` is everything a step is to keep, and each handler has
one lemma that its step is lawful. `Inv` alone is not enough: what a receiver takes
from a queued sender was put into that sender's saved registers by its own syscall,
any number of steps before. `MessageIntact` says that nothing has touched them
since, and that the attached capability is there exactly when the tag counts it and
carries GRANT; the inductive invariant is `StepInv`, the two together. For the
refinement, a step of a handler maps to the one action of `Rendezvous` with the
thread that traps, or, when boot moves or only the ready queue changes, to none:
the queue operations map by `SidePushed` and `SidePopped`, what threads hold in
their registers by `RegistersStay` and `RegistersSwitched`.

`MemoryProofs` carries all of this to `MemorySpec`. To the kernel, the two syscalls of
`Memory` look like one of two steps (`AnswersOrMakes`): the thread that traps is
answered and nothing else changes, or a capability goes into an empty slot. So
`StepInv` is an invariant of `MemorySpec` (`MemoryInvariance`), and every action
property of the kernel and the refinement of `Rendezvous` hold there
(`MemoryStepsLawful`), but for `ObjectsNamed`: a retype fills a slot of its thread's
own CSpace without a capability to the CNode. `MemoryObjectsNamed` allows for that and
no more, and `MemoryReachCorrect` proves it. `ObjectsCorrect` proves
`[]NothingNamesTheFree`: `ObjectInv` adds to `StepInv` that the pools hold what boot
took and no more than they have. The closed family is here `InUseEverywhere`: a
capability to an object in use may be anywhere, and no kernel step leads out of that;
a retype takes an entry and only then names it. `AuthorityMadeCorrect` proves
`AuthorityMade` with the family `Heritage`, the capabilities inherited from what is
held before the step. `BudgetsCorrect` proves `[]BudgetsSpent` without adding anything
up: the units of budget that are gone and the objects made since boot are two finite
sets, and a retype either adds one element to each (`UnitSpent`, `ObjectCounted`) or,
when it is refused, none to either.

`FrameProofs` proves three kinds of separation, what the records say of the tables, and
where the arena's pages go, all of `MemorySpec`; and of `CarefulSpec`, that records and
translations agree.

- *Frames* (`[]FramesDisjoint`). `RangesExact` is the strengthening: `next` of a
  range only moves up and stays at most `end`. The arithmetic is in `AlignedUp`
  (rounding up to a multiple goes forward by less than the alignment and does not
  wrap, which is where the assumption about the end of the address space is used)
  and `BumpSound` (a bump that succeeds cuts an aligned chunk out of what was not
  handed out). A new frame is then apart from the frames of its own Untyped, which
  end at `next`, and from those of others, whose ranges are disjoint from this one
  (`ChunksApart`); no other operation moves a frame.
- *Page tables* (`[]TablesDistinct`, and `[]MemoryTypeOK` on the way). The
  strengthening, `TablesInv`, says that the tables are a `Forest` in the first
  `arena` pages: every page in use is the root of one address space or the target of
  one branch, and pages not handed out are empty. `BranchWritten` is the step that
  matters: a walk that needs a table takes the first free page, which the spares of
  `Map` are, so giving back the spares it did not use gives back no page of the
  forest (`ForestRoom`). Whatever a program maps, pages within megapages included.
- *Address spaces* (`SpacesIsolated`). Every table `Map` and `Unmap` write is read by
  walks from the named root or was not handed out before (`WritesWithin`), the trees
  of two roots share no page (`TreesApart`), and a translation depends only on what
  its walk reads (`TranslationReads`).
- *Records* (`[]NothingUnrecorded`, `[]KernelMapped`), whatever the programs map over
  what. The inductive invariant, `Owned`, has three parts that need each other: the leaf
  a walk meets, of either size (`LeafAt`), is the kernel's or that of a frame that
  records its place (`LeavesOwned`); the kernel's leaf is where the loader put it
  (`KernelKept`); and no record is in the kernel's place (`RecordsOffKernel`). A Map is
  refused where the kernel is because the walk finds its leaf, so no record gets there;
  an Unmap goes by a record, so it clears no leaf of the kernel. A write to one entry of
  a forest shows to the walks of one address space, through the addresses of one page
  or one megapage (`MegaReplaced`, `PageWritten`, summed up in `LeavesOver`); so `Map`
  adds the leaf together with the record (`MapOver`), a megapage over a table of pages
  makes the pages under it disappear (`MegapageOver`), and `Unmap` clears whatever leaf
  is at the address of the record it forgets (`UnmapOver`), even where that is another
  frame's.
- *Pages* (`PagesNotWasted`, also of `MemorySpec`). A walk links every page it takes
  (`MegapageLeaves`, `PageLeaves`), and giving back the unused spares leaves `arena` just
  behind the last one linked. A megapage that replaces a table unlinks that table's page,
  which is lost; so the property speaks of the pages that a step adds to the linked ones.
- *Agreement* (`[]MappingsAgree`, `TranslationAuthorised`), of `CarefulSpec`: in the
  address spaces of programs that see to what the check before a Map does not
  (`frame.rs:116`). `stale_mapping` shows that the first needs it. The invariant is
  `Owned` with `Agreed`, on careful address spaces: a record is aligned, within reach,
  and the tables hold its frame's leaf there (`RecordsPlaced`); a frame records no place
  twice (`RecordsApart`), without which forgetting one record would leave the other
  without its leaf. Where a Map is careful it changes one place and makes no other
  disappear (`CarefulOver`). A leaf names its frame, because frames do not overlap
  (`FrameAt`). From leaves to addresses takes the arithmetic of the page-table indices:
  two addresses share the indices of a place exactly when they lie in the same page or
  megapage (`IndexDigits`, `PlaceChunk`).

`ArrayQueueProofs` proves `RingSound` (`Spec => []` of the three invariants of
`ArrayQueue`, and `RingTyped`, `RingWritesBehind`, `RingFilled` for each) and
`RingImplementsFifo` (`Spec => Contract`) for every capacity above zero and every
set of values. The three invariants together are inductive: `FilledExactly` says an
entry read is never `None`, `WriteBehindRead` gives the distance between the
cursors. The arithmetic of wrapping is confined to `PlacesDiffer` (places behind the
head are different indices) and `HeadMoves` (what `pop_front` does to them). Under
the refinement mapping a removal happens at the step that drops the value, or at the
end when the value is not there; the other steps of the loop leave the mapped queue
alone. So replacing the ring buffer by a sequence in `KernelState` loses nothing.

Only model-checked:

- `NoStarvation` and `SendersServed`: liveness under fairness is out of the prover's
  reach.

Theorems with a hypothesis on the programs: `MappingsCorrect` and `TranslationsCorrect`,
which are about `CarefulSpec` and the address spaces in `Careful`. All others hold of
every instance and whatever its programs do, permissions apart (see above).

## Not modelled, and the plan

Not modelled: register contents beyond what is listed above; the numeric values of
error codes, labels and syscall numbers; trap entry and the assembly around it
(lantern-hal), and the permission bits of a page-table entry, of which at least one of
read, write and execute is assumed (see above); scheduling-context budgets, which the
code stores and never reads; `Pool::free`, which nothing calls; `Capability::Reply`,
which nothing constructs (the reply link of a Tcb does its work).

Every invariant and action property that a passing run checks is a theorem; the two
liveness properties are not. Should `Map` come to check its whole range against the
tables and against what they reach, `MapsApart` becomes a property of every step: then
`CarefulSpec` is `MemorySpec`, its two theorems lose their hypothesis, and
`stale_mapping` stops finding a violation.
