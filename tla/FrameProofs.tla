----------------------------- MODULE FrameProofs -----------------------------
(***************************************************************************)
(* Memory is kept apart.  The physical memory behind two frames never      *)
(* overlaps: a frame is cut off the range of an Untyped, behind everything *)
(* cut off it before, and the ranges boot hands over are apart, so what    *)
(* has to be shown is that the rounding of Untyped::bump never goes back,  *)
(* nor past the range's end, and no other operation moves a frame.  And    *)
(* address spaces are kept apart: their page tables are a forest in the    *)
(* pages the arena has handed out, so a write into the tree under one root *)
(* is seen by no walk from another.  Then what the frames record and what  *)
(* the tables translate agree: each leaf a walk can meet is of one frame   *)
(* that records its place, and an operation changes the leaf of one place. *)
(* That much needs megapages and pages to keep apart, where the code does  *)
(* not check it; that nothing is translated unrecorded needs nothing.      *)
(***************************************************************************)
EXTENDS MemoryProofs

\* A range's bound moves up only, and stays inside the range boot gave it.
RangesExact ==
    \A u \in UNTYPED :
        /\ range[u] # None => BootRange[u] # None
        /\ BootRange[u] # None =>
              /\ range[u] \in Backing
              /\ range[u].end = BootRange[u].end
              /\ BootRange[u].next <= range[u].next
              /\ range[u].next <= range[u].end

\* A frame in use has an address and one of the two sizes.
Made(fr) == DOMAIN fr = {"paddr", "size", "mapped_at"}
            /\ fr.paddr \in Nat /\ fr.size \in {"Small", "Mega"}

FramesMade ==
    /\ DOMAIN taken = DOMAIN Pool
    /\ DOMAIN range = UNTYPED
    /\ DOMAIN mapping = FRAME
    /\ Frames \subseteq FRAME
    /\ \A f \in Frames : Made(mapping[f])

FrameInv == ObjectInv /\ RangesExact /\ FramesMade /\ FramesDisjoint

(***************************************************************************)
(* Arithmetic                                                              *)
(***************************************************************************)

\* Division rounds down, by less than the divisor.
LEMMA Quotient ==
    ASSUME NEW x \in Nat, NEW a \in Nat \ {0}
    PROVE  a * (x \div a) <= x /\ x < a * (x \div a) + a
<1>1. a * (x \div a) <= x
  OBVIOUS
<1>2. x < a * (x \div a) + a
  OBVIOUS
<1> QED
  BY <1>1, <1>2

\* Untyped::bump rounds up, to a multiple, by less than the alignment, as long as the
\* sum fits a word.
LEMMA AlignedUp ==
    ASSUME NEW n \in Nat, NEW a \in Nat \ {0}, WordSize \in Nat, n + a <= WordSize
    PROVE  /\ Aligned(n, a) \in Nat
           /\ n <= Aligned(n, a) /\ Aligned(n, a) < n + a
           /\ Aligned(n, a) % a = 0
<1> DEFINE x == n + a - 1
<1> DEFINE q == x \div a
<1>1. x \in Nat /\ x % WordSize = x
  OBVIOUS
<1>2. q \in Nat /\ q * a <= x /\ x < q * a + a
  BY Quotient
<1>3. (q * a) % a = 0 /\ q * a \in Nat
  BY <1>2
<1>4. Aligned(n, a) = q * a
  BY <1>1 DEF Aligned
<1> HIDE DEF q
<1> QED
  BY <1>1, <1>2, <1>3, <1>4

\* Both sizes of a frame are positive, and neither is larger than a megapage.
LEMMA FrameBytes ==
    ASSUME NEW size \in {"Small", "Mega"}
    PROVE  /\ Bytes(size) \in Nat \ {0}
           /\ MegaSize \in Nat /\ Bytes(size) <= MegaSize
<1>1. \A p, n \in Nat \ {0} : p * n \in Nat \ {0} /\ p <= p * n
  OBVIOUS
<1>2. PageSize \in Nat \ {0} /\ MegaSize \in Nat \ {0} /\ PageSize <= MegaSize
  BY <1>1, PageTableAssumption DEF MegaSize
<1>3. Bytes(size) = PageSize \/ Bytes(size) = MegaSize
  BY DEF Bytes
<1> QED
  BY <1>2, <1>3

(***************************************************************************)
(* Steps that move no frame                                                *)
(***************************************************************************)

\* While the frames in use are the same ones, at the same place, and no range goes
\* back, nothing can come to overlap.
LEMMA FramesStay ==
    ASSUME FrameInv, DOMAIN taken' = DOMAIN Pool, DOMAIN range' = UNTYPED,
           DOMAIN mapping' = FRAME, taken'.Frame = taken.Frame,
           \A f \in Frames : /\ Made(mapping'[f]) /\ mapping'[f].paddr = mapping[f].paddr
                             /\ mapping'[f].size = mapping[f].size,
           RangesExact',
           \A u \in UNTYPED : BootRange[u] # None => range[u].next <= range'[u].next
    PROVE  RangesExact' /\ FramesMade' /\ FramesDisjoint'
<1>1. Frames' = Frames
  BY DEF Frames
<1>2. FramesMade'
  BY <1>1 DEF FrameInv, FramesMade
<1>3. \A f \in Frames : Chunk(f)' = Chunk(f)
  BY DEF Chunk
<1>4. ASSUME NEW f \in Frames
      PROVE  /\ (mapping[f].paddr % Bytes(mapping[f].size) = 0)'
             /\ \E u \in UNTYPED : HandedOut(f, u)'
  <2>1. mapping[f].paddr % Bytes(mapping[f].size) = 0
    BY <1>4 DEF FrameInv, FramesDisjoint
  <2>2. PICK u \in UNTYPED : HandedOut(f, u)
    BY <1>4 DEF FrameInv, FramesDisjoint
  <2>3. /\ BootRange[u] # None /\ range[u].next \in Nat /\ range'[u].next \in Nat
        /\ range[u].next <= range'[u].next
    BY <2>2 DEF HandedOut, FrameInv, RangesExact, Backing
  <2>4. mapping[f].paddr \in Nat /\ Bytes(mapping[f].size) \in Nat
    BY <1>4, FrameBytes DEF FrameInv, FramesMade, Made
  <2>5. HandedOut(f, u)'
    BY <2>2, <2>3, <2>4, <1>4 DEF HandedOut
  <2> QED
    BY <2>1, <2>5
<1>5. FramesDisjoint'
  BY <1>1, <1>3, <1>4 DEF FrameInv, FramesDisjoint
<1> QED
  BY <1>2, <1>5

\* In particular while none of it changes.
LEMMA FramesUntouched ==
    ASSUME FrameInv, DOMAIN taken' = DOMAIN Pool, taken'.Frame = taken.Frame,
           UNCHANGED <<range, mapping>>
    PROVE  RangesExact' /\ FramesMade' /\ FramesDisjoint'
<1>1. RangesExact'
  BY DEF FrameInv, RangesExact
<1>2. \A u \in UNTYPED : BootRange[u] # None => range[u].next <= range'[u].next
  BY DEF FrameInv, RangesExact, Backing
<1> QED
  BY <1>1, <1>2, FramesStay DEF FrameInv, FramesMade

\* Taking an object that is not a frame leaves the frames in use as they are.
LEMMA TakenOther ==
    ASSUME FramesMade, NEW type \in DOMAIN Pool, type # "Frame", Take(type)
    PROVE  DOMAIN taken' = DOMAIN Pool /\ taken'.Frame = taken.Frame
<1>1. "Frame" \in DOMAIN Pool
  BY DEF Pool
<1> QED
  BY <1>1 DEF FramesMade, Take

(***************************************************************************)
(* Untyped::bump                                                           *)
(***************************************************************************)

\* A bump that succeeds answers an aligned chunk behind everything cut off the range
\* before and within it, and leaves the other ranges alone.
LEMMA BumpSound ==
    ASSUME RangesExact, DOMAIN range = UNTYPED, NEW u \in UNTYPED, NEW size \in {"Small", "Mega"},
           BumpError(u, Bytes(size)) = Ok, range' = Bumped(u, Bytes(size))
    PROVE  /\ BootRange[u] # None
           /\ Aligned(range[u].next, Bytes(size)) \in Nat
           /\ Aligned(range[u].next, Bytes(size)) % Bytes(size) = 0
           /\ range[u].next <= Aligned(range[u].next, Bytes(size))
           /\ range'[u].next = Aligned(range[u].next, Bytes(size)) + Bytes(size)
           /\ range[u].next <= range'[u].next
           /\ \A w \in UNTYPED \ {u} : range'[w] = range[w]
           /\ DOMAIN range' = UNTYPED
           /\ RangesExact'
<1> DEFINE b == Bytes(size)
<1> DEFINE a == Aligned(range[u].next, b)
<1>1. range[u] # None /\ BootRange[u] # None
  BY DEF BumpError, RangesExact, Ok
<1>2. /\ range[u] \in Backing /\ range[u].end = BootRange[u].end
      /\ BootRange[u].next <= range[u].next /\ range[u].next <= range[u].end
  BY <1>1 DEF RangesExact
<1>3. /\ BootRange[u] \in Backing /\ WordSize \in Nat
      /\ BootRange[u].end + MegaSize < WordSize
  BY <1>1, MemoryAssumption
<1>4. b \in Nat \ {0} /\ MegaSize \in Nat /\ b <= MegaSize
  BY FrameBytes
<1> HIDE DEF b
<1>5. range[u].next \in Nat /\ range[u].end \in Nat /\ range[u].next + b <= WordSize
  BY <1>2, <1>3, <1>4 DEF Backing
<1>6. a \in Nat /\ range[u].next <= a /\ a % b = 0
  BY <1>3, <1>4, <1>5, AlignedUp
<1>7. ~(a + b > range[u].end)
  BY <1>1 DEF BumpError, Ok, b
<1>8. range' = [range EXCEPT ![u] = [range[u] EXCEPT !.next = a + b]]
  BY DEF Bumped, b
<1>9. range'[u] = [next |-> a + b, end |-> range[u].end]
  BY <1>2, <1>8 DEF Backing
<1>10. \A w \in UNTYPED \ {u} : range'[w] = range[w]
  BY <1>8
<1> HIDE DEF a
<1>11. RangesExact'
  <2> SUFFICES ASSUME NEW w \in UNTYPED
               PROVE  /\ range'[w] # None => BootRange[w] # None
                      /\ BootRange[w] # None =>
                            /\ range'[w] \in Backing
                            /\ range'[w].end = BootRange[w].end
                            /\ BootRange[w].next <= range'[w].next
                            /\ range'[w].next <= range'[w].end
    BY DEF RangesExact
  <2>1. CASE w = u
    <3>1. BootRange[u].next \in Nat
      BY <1>3 DEF Backing
    <3>2. range'[u].next = a + b /\ range'[u].end = range[u].end /\ range'[u] \in Backing
      BY <1>4, <1>5, <1>6, <1>9 DEF Backing
    <3> QED
      BY <2>1, <3>1, <3>2, <1>1, <1>2, <1>4, <1>5, <1>6, <1>7
  <2>2. CASE w # u
    BY <2>2, <1>10 DEF RangesExact
  <2> QED
    BY <2>1, <2>2
<1>12. range'[u].next = a + b /\ range[u].next <= range'[u].next
  BY <1>4, <1>5, <1>6, <1>9
<1>13. DOMAIN range' = UNTYPED
  BY <1>8
<1> QED
  BY <1>1, <1>6, <1>10, <1>11, <1>12, <1>13 DEF a, b

(***************************************************************************)
(* UntypedRetype of a frame                                                *)
(***************************************************************************)

\* What was cut off any range before lies clear of the chunk just cut off range u.
LEMMA ChunksApart ==
    ASSUME RangesExact, NEW u \in UNTYPED, NEW f \in Frames, Made(mapping[f]),
           NEW w \in UNTYPED, HandedOut(f, w), NEW a \in Nat, NEW b \in Nat,
           BootRange[u] # None, range[u].next <= a, a + b <= range[u].end
    PROVE  Chunk(f) \cap (a .. a + b - 1) = {}
<1> DEFINE p == mapping[f].paddr
<1> DEFINE n == Bytes(mapping[f].size)
<1>1. p \in Nat /\ n \in Nat
  BY FrameBytes DEF Made
<1>2. BootRange[w] # None /\ BootRange[w].next <= p /\ p + n <= range[w].next
  BY DEF HandedOut
<1>3. /\ range[u] \in Backing /\ range[w] \in Backing
      /\ range[u].end = BootRange[u].end /\ BootRange[u].next <= range[u].next
      /\ range[w].end = BootRange[w].end /\ range[w].next <= range[w].end
  BY <1>2 DEF RangesExact
<1>4. BootRange[u] \in Backing /\ BootRange[w] \in Backing
  BY <1>2, MemoryAssumption
<1>5. /\ u # w => BootRange[u].end <= BootRange[w].next \/ BootRange[w].end <= BootRange[u].next
  BY <1>2, MemoryAssumption
<1> HIDE DEF p, n
<1>6. p + n <= a \/ a + b <= p
  <2> DEFINE un == range[u].next
             ue == range[u].end
             wn == range[w].next
             we == range[w].end
             bu == BootRange[u].next
             bw == BootRange[w].next
  <2>1. un \in Nat /\ ue \in Nat /\ wn \in Nat /\ we \in Nat /\ bu \in Nat /\ bw \in Nat
    BY <1>3, <1>4 DEF Backing
  <2>2. un <= a /\ a + b <= ue /\ bw <= p /\ p + n <= wn /\ bu <= un /\ wn <= we
    BY <1>2, <1>3
  <2>3. u # w => ue <= bw \/ we <= bu
    BY <1>3, <1>5
  <2>4. u = w => wn = un
    OBVIOUS
  <2> HIDE DEF un, ue, wn, we, bu, bw
  <2> QED
    BY <1>1, <2>1, <2>2, <2>3, <2>4
<1>7. (p .. p + n - 1) \cap (a .. a + b - 1) = {}
  BY <1>1, <1>6
<1> QED
  BY <1>7 DEF Chunk, p, n

\* A frame made of the chunk just bumped overlaps no other.
LEMMA FrameMade ==
    ASSUME FrameInv, NEW u \in UNTYPED, NEW size \in {"Small", "Mega"},
           BumpError(u, Bytes(size)) = Ok, range' = Bumped(u, Bytes(size)),
           NEW g \in FRAME \ Frames, taken' = [taken EXCEPT !["Frame"] = @ \cup {g}],
           NEW a, a = Aligned(range[u].next, Bytes(size)),
           mapping' = [mapping EXCEPT ![g] =
               [paddr |-> a, size |-> size, mapped_at |-> Unmapped]]
    PROVE  RangesExact' /\ FramesMade' /\ FramesDisjoint'
<1> DEFINE b == Bytes(size)
<1>1. "Frame" \in DOMAIN Pool
  BY DEF Pool
<1>2. g \in FRAME /\ g \notin Frames
  OBVIOUS
<1>3. DOMAIN taken' = DOMAIN Pool /\ Frames' = Frames \cup {g}
  BY <1>1 DEF Frames, FrameInv, FramesMade
<1>4. /\ BootRange[u] # None /\ a \in Nat /\ a % b = 0 /\ range[u].next <= a
      /\ range'[u].next = a + b /\ range[u].next <= range'[u].next
      /\ \A w \in UNTYPED \ {u} : range'[w] = range[w]
      /\ DOMAIN range' = UNTYPED /\ RangesExact'
  BY BumpSound DEF FrameInv, FramesMade
<1>5. b \in Nat \ {0}
  BY FrameBytes
<1>6. /\ DOMAIN mapping' = FRAME
      /\ mapping'[g] = [paddr |-> a, size |-> size, mapped_at |-> Unmapped]
      /\ \A f \in Frames : mapping'[f] = mapping[f]
  BY <1>2 DEF FrameInv, FramesMade
<1>7. a + b <= range[u].end
  <2>1. /\ range[u].end = BootRange[u].end /\ range'[u].end = BootRange[u].end
        /\ range'[u].next <= range'[u].end
    BY <1>4 DEF FrameInv, RangesExact
  <2> QED
    BY <1>4, <2>1
<1>8. FramesMade'
  <2>1. Made(mapping'[g])
    BY <1>4, <1>6 DEF Made
  <2>2. \A f \in Frames : Made(mapping'[f])
    BY <1>6 DEF FrameInv, FramesMade
  <2> QED
    BY <1>2, <1>3, <1>4, <1>6, <2>1, <2>2 DEF FrameInv, FramesMade
<1>9. Chunk(g)' = a .. a + b - 1
  BY <1>6 DEF Chunk
<1>10. \A f \in Frames : Chunk(f)' = Chunk(f)
  BY <1>6 DEF Chunk
<1>11. (mapping[g].paddr % Bytes(mapping[g].size) = 0)' /\ HandedOut(g, u)'
  <2>1. mapping'[g].paddr = a /\ Bytes(mapping'[g].size) = b
    BY <1>6
  <2>2. BootRange[u].next \in Nat /\ range[u].next \in Nat /\ BootRange[u].next <= a
    BY <1>4, MemoryAssumption DEF FrameInv, RangesExact, Backing
  <2> QED
    BY <1>4, <1>5, <2>1, <2>2 DEF HandedOut
<1>12. ASSUME NEW f \in Frames
       PROVE  /\ (mapping[f].paddr % Bytes(mapping[f].size) = 0)'
              /\ \E w \in UNTYPED : HandedOut(f, w)'
  <2>1. mapping[f].paddr % Bytes(mapping[f].size) = 0
    BY DEF FrameInv, FramesDisjoint
  <2>2. PICK w \in UNTYPED : HandedOut(f, w)
    BY DEF FrameInv, FramesDisjoint
  <2>3. mapping[f].paddr \in Nat /\ Bytes(mapping[f].size) \in Nat
    BY FrameBytes DEF FrameInv, FramesMade, Made
  <2>4. range[w].next \in Nat /\ range'[w].next \in Nat /\ range[w].next <= range'[w].next
    BY <1>4, <2>2 DEF HandedOut, FrameInv, RangesExact, Backing
  <2>5. mapping'[f] = mapping[f]
    BY <1>6
  <2>6. HandedOut(f, w)'
    BY <2>2, <2>3, <2>4, <2>5 DEF HandedOut
  <2> QED
    BY <2>1, <2>5, <2>6
<1>13. ASSUME NEW f \in Frames
       PROVE  Chunk(f)' \cap Chunk(g)' = {}
  <2>1. PICK w \in UNTYPED : HandedOut(f, w)
    BY DEF FrameInv, FramesDisjoint
  <2>2. Chunk(f) \cap (a .. a + b - 1) = {}
    BY <1>4, <1>5, <1>7, <2>1, ChunksApart DEF FrameInv, FramesMade
  <2> QED
    BY <1>9, <1>10, <2>2
<1>14. ASSUME NEW f \in Frames, NEW h \in Frames, f # h
       PROVE  Chunk(f)' \cap Chunk(h)' = {}
  <2>1. Chunk(f) \cap Chunk(h) = {}
    BY <1>14 DEF FrameInv, FramesDisjoint
  <2>2. Chunk(f)' = Chunk(f) /\ Chunk(h)' = Chunk(h)
    BY <1>10, <1>14
  <2> QED
    BY <2>1, <2>2
<1>15. \A f, h \in Frames' : f # h => Chunk(f)' \cap Chunk(h)' = {}
  BY <1>3, <1>13, <1>14
<1>16. \A f \in Frames' : /\ (mapping[f].paddr % Bytes(mapping[f].size) = 0)'
                          /\ \E w \in UNTYPED : HandedOut(f, w)'
  BY <1>3, <1>11, <1>12
<1>17. FramesDisjoint'
  BY <1>15, <1>16 DEF FramesDisjoint
<1> QED
  BY <1>4, <1>8, <1>17

(***************************************************************************)
(* The operations                                                          *)
(***************************************************************************)
LEMMA FrameRetype ==
    ASSUME FrameInv, current # None, NEW c, NEW size \in {"Small", "Mega"}, NEW dest, NEW r,
           InvokeError(current, c, "Untyped", "WRITE") = Ok, RetypeFrame(c, size, dest, r)
    PROVE  RangesExact' /\ FramesMade' /\ FramesDisjoint'
<1>1. PICK u \in UNTYPED : u = CapAt(current, c).id
  <2>1. CapAt(current, c) \in Capability /\ CapAt(current, c).type = "Untyped"
    BY CurrentRuns, CapAtType, LookupAccepted DEF FrameInv, ObjectInv, StepInv, Inv
  <2> QED
    BY <2>1 DEF Capability, Null, CNodeCap, RightsOnly, Badged
<1>2. CASE UNCHANGED memVars
  BY <1>2, FramesUntouched DEF memVars, FrameInv, FramesMade
<1>3. ASSUME BumpError(u, Bytes(size)) = Ok, range' = Bumped(u, Bytes(size)),
             UNCHANGED <<taken, mapping>>
      PROVE  RangesExact' /\ FramesMade' /\ FramesDisjoint'
  <2>1. /\ DOMAIN range' = UNTYPED /\ RangesExact' /\ range[u].next <= range'[u].next
        /\ \A w \in UNTYPED \ {u} : range'[w] = range[w]
    BY <1>1, <1>3, BumpSound DEF FrameInv, FramesMade
  <2>2. \A w \in UNTYPED : BootRange[w] # None => range[w].next <= range'[w].next
    BY <2>1 DEF FrameInv, RangesExact, Backing
  <2> QED
    BY <1>3, <2>1, <2>2, FramesStay DEF FrameInv, FramesMade
<1>4. CASE /\ BumpError(u, Bytes(size)) = Ok /\ range' = Bumped(u, Bytes(size))
           /\ Free("Frame") # {} /\ Retyped(c, "Frame", dest, r)
           /\ mapping' = [mapping EXCEPT ![Fresh("Frame")] =
                  [paddr |-> Aligned(range[u].next, Bytes(size)), size |-> size,
                   mapped_at |-> Unmapped]]
  <2>1. PICK g \in FRAME \ Frames : g = Fresh("Frame")
    BY <1>4, NewCapType DEF Frames, Pool
  <2>2. PICK a : a = Aligned(range[u].next, Bytes(size))
    OBVIOUS
  <2>3. taken' = [taken EXCEPT !["Frame"] = @ \cup {g}]
    BY <1>4, <2>1 DEF Retyped, Take
  <2>4. mapping' = [mapping EXCEPT ![g] =
               [paddr |-> a, size |-> size, mapped_at |-> Unmapped]]
    BY <1>4, <2>1, <2>2
  <2> QED
    <3>1. /\ FrameInv /\ size \in {"Small", "Mega"} /\ u \in UNTYPED /\ g \in FRAME \ Frames
          /\ BumpError(u, Bytes(size)) = Ok /\ range' = Bumped(u, Bytes(size))
      BY <1>4
    <3> HIDE <1>1, <1>4
    <3> QED
      BY <3>1, <2>2, <2>3, <2>4, FrameMade
<1> QED
  BY <1>1, <1>2, <1>3, <1>4 DEF RetypeFrame

LEMMA RetypeFrames ==
    ASSUME FrameInv, current # None, NEW r, NEW c, NEW word, NEW dest,
           UntypedRetype(c, word, dest, r)
    PROVE  RangesExact' /\ FramesMade' /\ FramesDisjoint'
<1>1. CASE UNCHANGED memVars
  BY <1>1, FramesUntouched DEF memVars, FrameInv, FramesMade
<1>2. CASE Accepted(RetypeChecks(c, word, dest))
  <2>1. InvokeError(current, c, "Untyped", "WRITE") = Ok
    BY <1>2, RetypeChecked
  <2>2. ASSUME word \in DOMAIN Pool \ {"VSpace", "Frame"}, RetypePooled(c, word, dest, r)
        PROVE  RangesExact' /\ FramesMade' /\ FramesDisjoint'
    BY <1>1, <2>2, TakenOther, FramesUntouched DEF RetypePooled, Retyped, FrameInv
  <2>3. ASSUME RetypeVSpace(c, dest, r)
        PROVE  RangesExact' /\ FramesMade' /\ FramesDisjoint'
    <3>1. "VSpace" \in DOMAIN Pool
      BY DEF Pool
    <3>2. CASE Retyped(c, "VSpace", dest, r) /\ UNCHANGED <<range, mapping>>
      BY <3>1, <3>2, TakenOther, FramesUntouched DEF Retyped, FrameInv
    <3>3. CASE UNCHANGED <<taken, range, mapping>>
      BY <3>3, FramesUntouched DEF FrameInv, FramesMade
    <3> QED
      BY <1>1, <2>3, <3>2, <3>3 DEF RetypeVSpace
  <2>4. ASSUME NEW size \in {"Small", "Mega"}, RetypeFrame(c, size, dest, r)
        PROVE  RangesExact' /\ FramesMade' /\ FramesDisjoint'
    BY <2>1, <2>4, FrameRetype
  <2> QED
    BY <1>1, <1>2, <2>2, <2>3, <2>4 DEF UntypedRetype
<1> QED
  BY <1>1, <1>2 DEF UntypedRetype

\* Mapping and unmapping a frame do not move it.
LEMMA Remapped ==
    ASSUME FrameInv, NEW f, NEW i, NEW x, UNCHANGED <<taken, range>>,
           mapping' = [mapping EXCEPT ![f].mapped_at[i] = x]
    PROVE  RangesExact' /\ FramesMade' /\ FramesDisjoint'
<1>1. ASSUME NEW g \in Frames
      PROVE  /\ Made(mapping'[g]) /\ mapping'[g].paddr = mapping[g].paddr
             /\ mapping'[g].size = mapping[g].size
  BY DEF FrameInv, FramesMade, Made
<1>2. DOMAIN mapping' = FRAME
  BY DEF FrameInv, FramesMade
<1>3. RangesExact'
  BY DEF FrameInv, RangesExact
<1>4. \A u \in UNTYPED : BootRange[u] # None => range[u].next <= range'[u].next
  BY DEF FrameInv, RangesExact, Backing
<1> QED
  BY <1>1, <1>2, <1>3, <1>4, FramesStay DEF FrameInv, FramesMade

LEMMA FrameWordsStay ==
    ASSUME FrameInv, NEW r, NEW c, NEW label, NEW v, NEW vaddr,
           FrameInvoke(c, label, v, vaddr, r)
    PROVE  RangesExact' /\ FramesMade' /\ FramesDisjoint'
<1> DEFINE f == CapAt(current, c).id
<1>1. CASE UNCHANGED <<taken, range, mapping>>
  BY <1>1, FramesUntouched DEF FrameInv, FramesMade
<1>2. ASSUME Map(f, v, vaddr, r)
      PROVE  RangesExact' /\ FramesMade' /\ FramesDisjoint'
  <2>1. CASE UNCHANGED <<taken, range>> /\ mapping' = [mapping EXCEPT
                 ![f].mapped_at[Lowest(FreeMappings(f))] = <<CapAt(current, v).id, vaddr>>]
    BY <2>1, Remapped
  <2> QED
    BY <1>1, <1>2, <2>1 DEF Map, memVars
<1>3. ASSUME Unmap(f, v, r)
      PROVE  RangesExact' /\ FramesMade' /\ FramesDisjoint'
  <2> DEFINE i == Lowest(MappingsInto(f, CapAt(current, v).id))
  <2>1. CASE UNCHANGED <<taken, range>> /\ mapping' = [mapping EXCEPT ![f].mapped_at[i] = None]
    BY <2>1, Remapped
  <2> QED
    BY <1>1, <1>3, <2>1 DEF Unmap, memVars
<1> QED
  BY <1>1, <1>2, <1>3 DEF FrameInvoke, memVars

(***************************************************************************)
(* The theorem                                                             *)
(***************************************************************************)
LEMMA FrameInit == MemoryInit => FrameInv
<1> SUFFICES ASSUME MemoryInit
             PROVE  FrameInv
  OBVIOUS
<1>1. ObjectInv
  BY InitObjects
<1>2. RangesExact
  BY MemoryAssumption DEF MemoryInit, RangesExact, Backing
<1>3. Frames = {}
  BY MemoryAssumption DEF MemoryInit, Frames
<1>4. FramesMade
  BY <1>3, MemoryAssumption DEF MemoryInit, FramesMade
<1>5. FramesDisjoint
  BY <1>3 DEF FramesDisjoint
<1> QED
  BY <1>1, <1>2, <1>4, <1>5 DEF FrameInv

LEMMA FrameNext == FrameInv /\ [MemoryNext]_allVars => FrameInv'
<1> SUFFICES ASSUME FrameInv, [MemoryNext]_allVars
             PROVE  FrameInv'
  OBVIOUS
<1>1. ObjectInv'
  BY MemoryObjects DEF FrameInv
<1>2. CASE MemoryTrap
  <2>1. current # None
    BY <1>2 DEF MemoryTrap
  <2>2. PICK err \in Flags :
          LET r == Request(current, 0, err)
          IN  \/ \E w \in Retypes : UntypedRetype(w[1], w[2], w[3], r)
              \/ \E w \in FrameWords : FrameInvoke(w[1], w[2], w[3], w[4], r)
    BY <1>2 DEF MemoryTrap
  <2> DEFINE r == Request(current, 0, err)
  <2> HIDE DEF r
  <2>3. ASSUME NEW w \in Retypes, UntypedRetype(w[1], w[2], w[3], r)
        PROVE  RangesExact' /\ FramesMade' /\ FramesDisjoint'
    BY <2>1, <2>3, RetypeFrames
  <2>4. ASSUME NEW w \in FrameWords, FrameInvoke(w[1], w[2], w[3], w[4], r)
        PROVE  RangesExact' /\ FramesMade' /\ FramesDisjoint'
    BY <2>4, FrameWordsStay
  <2> QED
    BY <1>1, <2>2, <2>3, <2>4 DEF r, FrameInv
<1>3. CASE UNCHANGED memVars
  BY <1>1, <1>3, FramesUntouched DEF memVars, FrameInv, FramesMade
<1> QED
  BY <1>2, <1>3 DEF MemoryNext, allVars

\* In any number of retypes out of any number of Untypeds, with any sizes and pools,
\* no two frames share a byte of physical memory.
THEOREM FramesCorrect == MemorySpec => []FramesDisjoint
<1>1. FrameInv => FramesDisjoint
  BY DEF FrameInv
<1> QED
  BY <1>1, FrameInit, FrameNext, PTL DEF MemorySpec

(***************************************************************************)
(* The page tables of all address spaces are a forest.  Every operation on *)
(* them is made of two: an entry that is no branch is written, or a branch *)
(* to the first page that the arena has not handed out.                    *)
(***************************************************************************)
Linked(tb, p, i) == tb[p][i].kind = "Branch"

Forest(tb, n) ==
    /\ n \in 0 .. ArenaPages
    /\ tb \in [Page -> [Index -> Entry]]
    /\ \A v \in AddressSpaces : root[v] \in Page /\ root[v] < n
    /\ \A v, w \in AddressSpaces : root[v] = root[w] => v = w
    /\ \A p \in Page, i \in Index : Linked(tb, p, i) =>
          /\ p < n /\ tb[p][i].to < n
          /\ \A v \in AddressSpaces : root[v] # tb[p][i].to
    /\ \A p, q \in Page, i, j \in Index :
          Linked(tb, p, i) /\ Linked(tb, q, j) /\ tb[p][i].to = tb[q][j].to => p = q /\ i = j
    /\ \A p \in Page : p >= n => tb[p] = EmptyTable

LEMMA EntryKinds ==
    /\ Invalid \in Entry /\ Invalid.kind # "Branch"
    /\ \A p \in Page : Branch(p) \in Entry /\ Branch(p).kind = "Branch" /\ Branch(p).to = p
    /\ \A a \in Nat : Leaf(a) \in Entry /\ Leaf(a).kind # "Branch"
    /\ \A e \in Entry : e.kind = "Branch" => e.to \in Page
<1>1. \A e \in Entry : e.kind = "Branch" => e.to \in Page
  BY DEF Entry, Invalid, Branch
<1> QED
  BY <1>1 DEF Entry, Invalid, Branch, Leaf

\* A page that the arena has not handed out has no branches.
LEMMA BlankUnlinked == \A i \in Index : EmptyTable[i].kind # "Branch"
  BY DEF EmptyTable, Invalid

\* An address is looked up within a table, at every level.
LEMMA IndexInTable ==
    ASSUME NEW vaddr \in Nat
    PROVE  /\ RootIndex(vaddr) \in Index
           /\ MegaIndex(vaddr) \in Index
           /\ PageIndex(vaddr) \in Index
<1>1. \A x, n \in Nat \ {0} : x * n \in Nat \ {0}
  OBVIOUS
<1>2. /\ TableEntries \in Nat \ {0} /\ PageSize \in Nat \ {0} /\ MegaSize \in Nat \ {0}
      /\ MegaSize * TableEntries \in Nat \ {0}
  BY <1>1, PageTableAssumption DEF MegaSize
<1>3. ASSUME NEW d \in Nat \ {0}
      PROVE  (vaddr \div d) % TableEntries \in 0 .. TableEntries - 1
  <2>1. vaddr \div d \in Nat
    BY Quotient
  <2> QED
    BY <1>2, <2>1
<1> QED
  BY <1>2, <1>3 DEF RootIndex, MegaIndex, PageIndex, Index

\* An entry that is no branch may be written into any page handed out.
LEMMA EntryWritten ==
    ASSUME NEW tb, NEW n, Forest(tb, n), NEW p \in Page, p < n, NEW i \in Index,
           NEW e \in Entry, e.kind # "Branch"
    PROVE  Forest([tb EXCEPT ![p][i] = e], n)
<1> DEFINE new == [tb EXCEPT ![p][i] = e]
<1>1. tb \in [Page -> [Index -> Entry]] /\ n \in 0 .. ArenaPages
  BY DEF Forest
<1>2. new \in [Page -> [Index -> Entry]]
  BY <1>1
<1>3. \A q \in Page, j \in Index : new[q][j] = IF q = p /\ j = i THEN e ELSE tb[q][j]
  BY <1>1
<1>4. \A q \in Page : q # p => new[q] = tb[q]
  BY <1>1
<1> HIDE DEF new
<1>5. \A q \in Page, j \in Index : Linked(new, q, j) => Linked(tb, q, j) /\ new[q][j] = tb[q][j]
  BY <1>3 DEF Linked
<1>6. \A q \in Page : q >= n => new[q] = EmptyTable
  <2>1. ASSUME NEW q \in Page, q >= n
        PROVE  new[q] = EmptyTable
    <3>1. q # p
      BY <1>1, <2>1 DEF Page
    <3> QED
      BY <1>4, <2>1, <3>1 DEF Forest
  <2> QED
    BY <2>1
<1>7. \A q \in Page, j \in Index : Linked(new, q, j) =>
          /\ q < n /\ new[q][j].to < n
          /\ \A v \in AddressSpaces : root[v] # new[q][j].to
  BY <1>5 DEF Forest
<1>8. \A q, s \in Page, j, k \in Index :
          Linked(new, q, j) /\ Linked(new, s, k) /\ new[q][j].to = new[s][k].to => q = s /\ j = k
  BY <1>5 DEF Forest
<1> QED
  BY <1>2, <1>6, <1>7, <1>8 DEF Forest, new

\* A branch may be written into any page handed out, to the next page of the arena.
LEMMA BranchWritten ==
    ASSUME NEW tb, NEW n, Forest(tb, n), n \in Page, NEW p \in Page, p < n, NEW i \in Index
    PROVE  Forest([tb EXCEPT ![p][i] = Branch(n)], n + 1)
<1> DEFINE new == [tb EXCEPT ![p][i] = Branch(n)]
<1>1. tb \in [Page -> [Index -> Entry]] /\ n \in 0 .. ArenaPages
  BY DEF Forest
<1>2. ArenaPages \in Nat /\ n \in Nat /\ n + 1 \in 0 .. ArenaPages
  BY MemoryAssumption DEF Page
<1>3. new \in [Page -> [Index -> Entry]]
  BY <1>1, EntryKinds
<1>4. \A q \in Page, j \in Index : new[q][j] = IF q = p /\ j = i THEN Branch(n) ELSE tb[q][j]
  BY <1>1
<1>5. \A q \in Page : q # p => new[q] = tb[q]
  BY <1>1
<1> HIDE DEF new
<1>6. \A q \in Page, j \in Index : Linked(new, q, j) =>
          \/ q = p /\ j = i /\ new[q][j].to = n
          \/ Linked(tb, q, j) /\ new[q][j] = tb[q][j]
  BY <1>4, EntryKinds DEF Linked
<1>7. \A q \in Page, j \in Index : Linked(tb, q, j) => q < n /\ tb[q][j].to < n
  BY DEF Forest
<1>8. \A q \in Page, j \in Index : Linked(tb, q, j) => tb[q][j].to \in Page
  BY <1>1, EntryKinds DEF Linked
<1>9. \A q \in Page : q \in Nat /\ (q < n => q < n + 1 /\ q # n) /\ (q >= n + 1 => q >= n /\ q # p)
  BY <1>2 DEF Page
<1>10. \A v \in AddressSpaces : root[v] \in Page /\ root[v] < n + 1 /\ root[v] # n
  BY <1>9 DEF Forest
<1>11. ASSUME NEW q \in Page, NEW j \in Index, Linked(new, q, j)
       PROVE  /\ q < n + 1 /\ new[q][j].to < n + 1
              /\ \A v \in AddressSpaces : root[v] # new[q][j].to
  <2>1. CASE q = p /\ j = i /\ new[q][j].to = n
    BY <1>2, <1>9, <1>10, <2>1
  <2>2. CASE Linked(tb, q, j) /\ new[q][j] = tb[q][j]
    BY <1>7, <1>8, <1>9, <2>2 DEF Forest
  <2> QED
    BY <1>6, <1>11, <2>1, <2>2
<1>12. ASSUME NEW q \in Page, NEW s \in Page, NEW j \in Index, NEW k \in Index,
              Linked(new, q, j), Linked(new, s, k), new[q][j].to = new[s][k].to
       PROVE  q = s /\ j = k
  <2>1. CASE q = p /\ j = i /\ s = p /\ k = i
    BY <2>1
  <2>2. ASSUME NEW x \in Page, NEW y \in Index, Linked(tb, x, y), tb[x][y].to = n
        PROVE  FALSE
    BY <1>7, <1>8, <1>9, <2>2
  <2>3. CASE Linked(tb, q, j) /\ new[q][j] = tb[q][j] /\ Linked(tb, s, k) /\ new[s][k] = tb[s][k]
    BY <1>12, <2>3 DEF Forest
  <2>4. CASE q = p /\ j = i /\ new[q][j].to = n
    <3>1. ~(Linked(tb, s, k) /\ new[s][k] = tb[s][k])
      BY <1>12, <2>2, <2>4
    <3> QED
      BY <1>6, <1>12, <2>1, <2>4, <3>1
  <2>5. CASE Linked(tb, q, j) /\ new[q][j] = tb[q][j]
    <3>1. new[q][j].to # n
      BY <2>2, <2>5
    <3> QED
      BY <1>6, <1>12, <2>3, <2>5, <3>1
  <2> QED
    BY <1>6, <1>12, <2>4, <2>5
<1>13. \A q \in Page : q >= n + 1 => new[q] = EmptyTable
  BY <1>5, <1>9 DEF Forest
<1> QED
  <2>1. \A v, w \in AddressSpaces : root[v] = root[w] => v = w
    BY DEF Forest
  <2>2. \A q \in Page, j \in Index : Linked(new, q, j) =>
           /\ q < n + 1 /\ new[q][j].to < n + 1
           /\ \A v \in AddressSpaces : root[v] # new[q][j].to
    BY <1>11
  <2>3. \A q, s \in Page, j, k \in Index :
           Linked(new, q, j) /\ Linked(new, s, k) /\ new[q][j].to = new[s][k].to => q = s /\ j = k
    BY <1>12
  <2>4. Forest(new, n + 1)
    BY <1>2, <1>3, <1>10, <1>13, <2>1, <2>2, <2>3 DEF Forest
  <2> QED
    BY <1>2, <2>4 DEF new

\* The arena may hand out pages that nothing comes to use.
LEMMA ForestRoom ==
    ASSUME NEW tb, NEW n, Forest(tb, n), NEW m \in 0 .. ArenaPages, n <= m
    PROVE  Forest(tb, m)
<1>1. ArenaPages \in Nat /\ n \in Nat /\ m \in Nat /\ tb \in [Page -> [Index -> Entry]]
  BY MemoryAssumption DEF Forest
<1>2. \A x \in Nat : x < n => x < m
  BY <1>1
<1>3. \A p \in Page : p \in Nat /\ (p >= m => p >= n)
  BY <1>1 DEF Page
<1>4. \A v \in AddressSpaces : root[v] \in Page /\ root[v] < m
  BY <1>2, <1>3 DEF Forest
<1>5. \A p \in Page, i \in Index : Linked(tb, p, i) =>
         /\ p < m /\ tb[p][i].to < m
         /\ \A v \in AddressSpaces : root[v] # tb[p][i].to
  <2>1. \A p \in Page, i \in Index : Linked(tb, p, i) => tb[p][i].to \in Nat
    BY <1>1, <1>3, EntryKinds DEF Linked
  <2> QED
    BY <1>2, <1>3, <2>1 DEF Forest
<1>6. \A p \in Page : p >= m => tb[p] = EmptyTable
  BY <1>3 DEF Forest
<1> QED
  BY <1>1, <1>4, <1>5, <1>6 DEF Forest

\* One level down, through a branch that is there or a new one.
LEMMA DescendForest ==
    ASSUME NEW tb, NEW n, Forest(tb, n), n \in Page, NEW p \in Page, p < n, NEW i \in Index
    PROVE  LET d == Descend(tb, p, i, n)
           IN  /\ d.used \in {0, 1} /\ Forest(d.tb, n + d.used)
               /\ d.page \in Page /\ d.page < n + d.used
<1>1. n \in Nat
  BY DEF Page
<1>2. CASE Linked(tb, p, i)
  <2>1. Descend(tb, p, i, n) = [tb |-> tb, page |-> tb[p][i].to, used |-> 0]
    BY <1>2 DEF Descend, Linked
  <2>2. tb[p][i].to \in Page /\ tb[p][i].to < n
    BY <1>2, EntryKinds DEF Forest, Linked
  <2> QED
    BY <1>1, <2>1, <2>2
<1>3. CASE ~Linked(tb, p, i)
  <2>1. PICK new : new = [tb EXCEPT ![p][i] = Branch(n)]
    OBVIOUS
  <2>2. Descend(tb, p, i, n) = [tb |-> new, page |-> n, used |-> 1]
    BY <1>3, <2>1 DEF Descend, Linked
  <2>3. Forest(new, n + 1)
    BY <2>1, BranchWritten
  <2> QED
    BY <1>1, <2>2, <2>3
<1> QED
  BY <1>2, <1>3

\* A walk down from the root of an address space.
LEMMA MegapageForest ==
    ASSUME NEW tb, NEW n, Forest(tb, n), n \in Page, NEW v \in AddressSpaces,
           NEW vaddr \in Nat, NEW paddr \in Nat
    PROVE  LET walk == MapMegapage(tb, root[v], vaddr, paddr, n)
           IN  walk.used \in {0, 1} /\ Forest(walk.tb, n + walk.used)
<1>1. root[v] \in Page /\ root[v] < n
  BY DEF Forest
<1>2. RootIndex(vaddr) \in Index /\ MegaIndex(vaddr) \in Index
  BY IndexInTable
<1>3. PICK upper : upper = Descend(tb, root[v], RootIndex(vaddr), n)
  OBVIOUS
<1>4. /\ upper.used \in {0, 1} /\ Forest(upper.tb, n + upper.used)
      /\ upper.page \in Page /\ upper.page < n + upper.used
  BY <1>1, <1>2, <1>3, DescendForest
<1>5. PICK new : new = [upper.tb EXCEPT ![upper.page][MegaIndex(vaddr)] = Leaf(paddr)]
  OBVIOUS
<1>6. Forest(new, n + upper.used)
  BY <1>2, <1>4, <1>5, EntryWritten, EntryKinds
<1>7. MapMegapage(tb, root[v], vaddr, paddr, n) = [tb |-> new, used |-> upper.used]
  BY <1>3, <1>5 DEF MapMegapage
<1> QED
  BY <1>4, <1>6, <1>7

LEMMA PageForest ==
    ASSUME NEW tb, NEW n, Forest(tb, n), n \in Page, n + 1 \in Page, NEW v \in AddressSpaces,
           NEW vaddr \in Nat, NEW paddr \in Nat
    PROVE  LET walk == MapPage(tb, root[v], vaddr, paddr, n)
           IN  walk.used \in {0, 1, 2} /\ Forest(walk.tb, n + walk.used)
<1>1. root[v] \in Page /\ root[v] < n /\ n \in Nat
  BY DEF Forest, Page
<1>2. RootIndex(vaddr) \in Index /\ MegaIndex(vaddr) \in Index /\ PageIndex(vaddr) \in Index
  BY IndexInTable
<1>3. PICK upper : upper = Descend(tb, root[v], RootIndex(vaddr), n)
  OBVIOUS
<1>4. /\ upper.used \in {0, 1} /\ Forest(upper.tb, n + upper.used)
      /\ upper.page \in Page /\ upper.page < n + upper.used
  BY <1>1, <1>2, <1>3, DescendForest
<1>5. n + upper.used \in Page
  BY <1>1, <1>4
<1>6. PICK mega : mega = Descend(upper.tb, upper.page, MegaIndex(vaddr), n + upper.used)
  OBVIOUS
<1>7. /\ mega.used \in {0, 1} /\ Forest(mega.tb, n + upper.used + mega.used)
      /\ mega.page \in Page /\ mega.page < n + upper.used + mega.used
  BY <1>2, <1>4, <1>5, <1>6, DescendForest
<1>8. PICK new : new = [mega.tb EXCEPT ![mega.page][PageIndex(vaddr)] = Leaf(paddr)]
  OBVIOUS
<1>9. Forest(new, n + upper.used + mega.used)
  BY <1>2, <1>7, <1>8, EntryWritten, EntryKinds
<1>10. MapPage(tb, root[v], vaddr, paddr, n) = [tb |-> new, used |-> upper.used + mega.used]
  BY <1>3, <1>6, <1>8 DEF MapPage
<1>11. /\ upper.used + mega.used \in {0, 1, 2}
       /\ n + upper.used + mega.used = n + (upper.used + mega.used)
  BY <1>1, <1>4, <1>7
<1> QED
  BY <1>9, <1>10, <1>11

\* Undoing a mapping frees no table.
LEMMA UnmapForest ==
    ASSUME NEW tb, NEW n, Forest(tb, n), NEW v \in AddressSpaces, NEW vaddr \in Nat
    PROVE  Forest(UnmapLeaf(tb, root[v], vaddr), n)
<1>1. PICK upper, p : upper = tb[root[v]][RootIndex(vaddr)] /\ p = upper.to
  OBVIOUS
<1>2. PICK mega, q : mega = tb[p][MegaIndex(vaddr)] /\ q = mega.to
  OBVIOUS
<1>3. /\ RootIndex(vaddr) \in Index /\ MegaIndex(vaddr) \in Index /\ PageIndex(vaddr) \in Index
      /\ root[v] \in Page /\ root[v] < n
  BY IndexInTable DEF Forest
<1>4. \A x \in Page, i \in Index : tb[x][i].kind = "Branch" => tb[x][i].to \in Page /\ tb[x][i].to < n
  BY EntryKinds DEF Forest, Linked
<1>5. UnmapLeaf(tb, root[v], vaddr) =
         IF upper.kind # "Branch" THEN tb
         ELSE IF mega.kind = "Leaf" THEN [tb EXCEPT ![p][MegaIndex(vaddr)] = Invalid]
         ELSE IF mega.kind = "Branch" THEN [tb EXCEPT ![q][PageIndex(vaddr)] = Invalid]
         ELSE tb
  BY <1>1, <1>2 DEF UnmapLeaf
<1>6. upper.kind = "Branch" => p \in Page /\ p < n
  BY <1>1, <1>3, <1>4
<1>7. upper.kind = "Branch" /\ mega.kind = "Branch" => q \in Page /\ q < n
  BY <1>2, <1>3, <1>4, <1>6
<1>8. \A x \in Page, i \in Index : x < n => Forest([tb EXCEPT ![x][i] = Invalid], n)
  BY EntryWritten, EntryKinds
<1> QED
  BY <1>3, <1>5, <1>6, <1>7, <1>8

(***************************************************************************)
(* The operations on address spaces and frames, and their page tables      *)
(***************************************************************************)
TablesInv ==
    /\ FrameInv
    /\ range \in [UNTYPED -> Backing \cup {None}]
    /\ root \in [VSPACE -> Page \cup {None}]
    /\ mapping \in [FRAME -> FrameObject \cup {None}]
    /\ \A f \in Frames : mapping[f] \in FrameObject
    /\ Forest(table, arena)

\* What a step has to keep of it.
TablesKept ==
    /\ root' \in [VSPACE -> Page \cup {None}]
    /\ mapping' \in [FRAME -> FrameObject \cup {None}]
    /\ \A f \in Frames' : mapping'[f] \in FrameObject
    /\ Forest(table, arena)'

\* The pools of address spaces and frames hold no more than there is.
LEMMA SpacesInPool ==
    ASSUME TablesInv
    PROVE  /\ AddressSpaces \subseteq VSPACE /\ Frames \subseteq FRAME
           /\ arena \in 0 .. ArenaPages /\ ArenaPages \in Nat
<1>1. taken["VSpace"] \subseteq Pool["VSpace"]
  BY PoolDomain DEF TablesInv, FrameInv, ObjectInv, PoolsCounted, PoolTypes
<1>2. AddressSpaces \subseteq VSPACE
  BY <1>1 DEF AddressSpaces, Pool
<1> QED
  BY <1>2, MemoryAssumption DEF TablesInv, FrameInv, FramesMade, Forest

\* Tables that a walk leaves behind are the new ones.
LEMMA TablesWritten ==
    ASSUME NEW tb, NEW n, Forest(tb, n), table' = tb, arena' = n, UNCHANGED root,
           taken'.VSpace = taken.VSpace
    PROVE  Forest(table, arena)'
<1>1. AddressSpaces' = AddressSpaces
  BY DEF AddressSpaces
<1> QED
  BY <1>1 DEF Forest, Linked

LEMMA TablesUntouched ==
    ASSUME TablesInv, UNCHANGED <<root, table, mapping, arena>>,
           taken'.VSpace = taken.VSpace, taken'.Frame = taken.Frame
    PROVE  TablesKept
<1>1. Forest(table, arena)'
  BY TablesWritten DEF TablesInv
<1> QED
  BY <1>1 DEF TablesInv, TablesKept, Frames

\* Pages taken from the arena for nothing.
LEMMA PagesLost ==
    ASSUME TablesInv, UNCHANGED <<taken, root, table, mapping>>,
           arena <= arena', arena' \in 0 .. ArenaPages
    PROVE  TablesKept
<1>1. Forest(table, arena')
  BY ForestRoom DEF TablesInv
<1>2. PICK n : n = arena'
  OBVIOUS
<1>3. PICK tb : tb = table
  OBVIOUS
<1>4. Forest(tb, n)
  BY <1>1, <1>2, <1>3
<1>5. Forest(table, arena)'
  BY <1>2, <1>3, <1>4, TablesWritten
<1> QED
  BY <1>5 DEF TablesInv, TablesKept, Frames

\* A new address space's root is the next page of the arena.
LEMMA RootPlanted ==
    ASSUME TablesInv, arena \in Page, arena' = arena + 1, NEW g \in VSPACE \ AddressSpaces,
           AddressSpaces' = AddressSpaces \cup {g}, root' = [root EXCEPT ![g] = arena],
           Frames' = Frames, UNCHANGED <<table, mapping>>
    PROVE  TablesKept
<1>1. arena \in Nat /\ arena + 1 \in 0 .. ArenaPages
  BY SpacesInPool DEF Page
<1>2. Forest(table, arena)
  BY DEF TablesInv
<1>3. Forest(table, arena + 1)
  BY <1>1, <1>2, ForestRoom
<1>4. /\ root' \in [VSPACE -> Page \cup {None}] /\ root'[g] = arena
      /\ \A v \in AddressSpaces : root'[v] = root[v]
  BY SpacesInPool DEF TablesInv
<1>5. \A v \in AddressSpaces : root[v] \in Page /\ root[v] < arena /\ root[v] # arena
  BY <1>2 DEF Forest, Page
<1>6. \A v \in AddressSpaces' : root'[v] \in Page /\ root'[v] < arena'
  BY <1>1, <1>4, <1>5 DEF Page
<1>7. \A v, w \in AddressSpaces' : root'[v] = root'[w] => v = w
  BY <1>2, <1>4, <1>5 DEF Forest
<1>8. ASSUME NEW p \in Page, NEW i \in Index, Linked(table, p, i)
      PROVE  \A v \in AddressSpaces' : root'[v] # table[p][i].to
  <2>1. table[p][i].to \in Page /\ table[p][i].to < arena
    BY <1>2, <1>8, EntryKinds DEF Forest, Linked
  <2>2. table[p][i].to # arena
    BY <2>1 DEF Page
  <2>3. \A v \in AddressSpaces : root[v] # table[p][i].to
    BY <1>2, <1>8 DEF Forest
  <2> QED
    BY <1>4, <2>2, <2>3
<1>9. Forest(table, arena)'
  BY <1>1, <1>3, <1>6, <1>7, <1>8 DEF Forest, Linked
<1> QED
  BY <1>4, <1>9 DEF TablesInv, TablesKept

\* The first of a frame's mapping slots that satisfy something is one that does.
LEMMA LowestIn ==
    ASSUME NEW S, S \subseteq 1 .. MaxFrameMappings, S # {}
    PROVE  Lowest(S) \in S
<1>1. S \subseteq {1, 2}
  BY DEF MaxFrameMappings
<1>2. CASE 1 \in S
  <2>1. \A j \in S : 1 <= j
    BY <1>1
  <2> QED
    BY <1>2, <2>1 DEF Lowest
<1>3. CASE 1 \notin S
  <2>1. S = {2}
    BY <1>1, <1>3
  <2>2. \A j \in S : 2 <= j
    BY <2>1
  <2> QED
    BY <2>1, <2>2 DEF Lowest
<1> QED
  BY <1>2, <1>3

\* Recording a mapping, or forgetting one, leaves a frame a frame.
LEMMA MappingType ==
    ASSUME TablesInv, NEW f \in Frames, NEW i \in 1 .. MaxFrameMappings,
           NEW x \in {None} \cup (VSPACE \X Nat),
           mapping' = [mapping EXCEPT ![f].mapped_at[i] = x]
    PROVE  /\ mapping' \in [FRAME -> FrameObject \cup {None}]
           /\ \A g \in Frames : mapping'[g] \in FrameObject
<1>1. f \in FRAME
  BY SpacesInPool
<1>2. mapping[f] \in FrameObject
  BY DEF TablesInv
<1>3. [mapping[f] EXCEPT !.mapped_at[i] = x] \in FrameObject
  BY <1>2 DEF FrameObject
<1>4. mapping' = [mapping EXCEPT ![f] = [mapping[f] EXCEPT !.mapped_at[i] = x]]
  OBVIOUS
<1> QED
  BY <1>1, <1>3, <1>4 DEF TablesInv

LEMMA RetypeTables ==
    ASSUME TablesInv, FrameInv', current # None, NEW r, NEW c, NEW word, NEW dest,
           UntypedRetype(c, word, dest, r)
    PROVE  TablesKept
<1>1. CASE UNCHANGED memVars
  BY <1>1, TablesUntouched DEF memVars
<1>2. ASSUME NEW type \in DOMAIN Pool, Take(type)
      PROVE  /\ taken'[type] = taken[type] \cup {Fresh(type)}
             /\ \A other \in DOMAIN Pool \ {type} : taken'[other] = taken[other]
  BY <1>2 DEF Take, TablesInv, FrameInv, FramesMade
<1>3. {"VSpace", "Frame"} \subseteq DOMAIN Pool
  BY DEF Pool
<1>4. ASSUME word \in DOMAIN Pool \ {"VSpace", "Frame"}, RetypePooled(c, word, dest, r)
      PROVE  TablesKept
  <2>1. CASE Retyped(c, word, dest, r) /\ UNCHANGED <<range, arena, root, table, mapping>>
    <3>1. taken'.VSpace = taken.VSpace /\ taken'.Frame = taken.Frame
      BY <1>2, <1>3, <1>4, <2>1 DEF Retyped
    <3> QED
      BY <2>1, <3>1, TablesUntouched
  <2> QED
    BY <1>1, <1>4, <2>1 DEF RetypePooled
<1>5. ASSUME RetypeVSpace(c, dest, r)
      PROVE  TablesKept
  <2>1. ASSUME RoomInArena(1) = Ok, arena' = arena + 1
        PROVE  arena \in Page /\ arena <= arena' /\ arena' \in 0 .. ArenaPages
    BY <2>1, SpacesInPool DEF RoomInArena, Ok, Page
  <2>2. CASE /\ RoomInArena(1) = Ok /\ arena' = arena + 1
             /\ UNCHANGED <<taken, budget, range, root, table, mapping>>
    BY <2>1, <2>2, PagesLost
  <2>3. CASE /\ RoomInArena(1) = Ok /\ arena' = arena + 1
             /\ Free("VSpace") # {} /\ Retyped(c, "VSpace", dest, r)
             /\ root' = [root EXCEPT ![Fresh("VSpace")] = arena]
             /\ UNCHANGED <<range, table, mapping>>
    <3>1. PICK g : g = Fresh("VSpace")
      OBVIOUS
    <3>2. g \in VSPACE \ AddressSpaces
      BY <1>3, <2>3, <3>1, NewCapType DEF AddressSpaces, Pool
    <3>3. AddressSpaces' = AddressSpaces \cup {g} /\ Frames' = Frames
      BY <1>2, <1>3, <2>3, <3>1 DEF Retyped, AddressSpaces, Frames
    <3>4. root' = [root EXCEPT ![g] = arena]
      BY <2>3, <3>1
    <3> QED
      BY <2>1, <2>3, <3>2, <3>3, <3>4, RootPlanted
  <2> QED
    BY <1>1, <1>5, <2>2, <2>3 DEF RetypeVSpace
<1>6. ASSUME NEW size \in {"Small", "Mega"}, RetypeFrame(c, size, dest, r)
      PROVE  TablesKept
  <2>1. CASE UNCHANGED <<taken, budget, arena, root, table, mapping>>
    BY <2>1, TablesUntouched
  <2>2. ASSUME NEW a, Free("Frame") # {}, Retyped(c, "Frame", dest, r),
               mapping' = [mapping EXCEPT ![Fresh("Frame")] =
                              [paddr |-> a, size |-> size, mapped_at |-> Unmapped]],
               UNCHANGED <<arena, root, table>>
        PROVE  TablesKept
    <3>1. PICK g : g = Fresh("Frame")
      OBVIOUS
    <3>2. g \in FRAME \ Frames
      BY <1>3, <2>2, <3>1, NewCapType DEF Frames, Pool
    <3>3. Frames' = Frames \cup {g} /\ taken'.VSpace = taken.VSpace
      BY <1>2, <1>3, <2>2, <3>1 DEF Retyped, Frames
    <3>4. /\ mapping'[g] = [paddr |-> a, size |-> size, mapped_at |-> Unmapped]
          /\ \A f \in FRAME \ {g} : mapping'[f] = mapping[f]
          /\ DOMAIN mapping' = FRAME
      BY <2>2, <3>1, <3>2 DEF TablesInv
    <3>5. a \in Nat
      BY <3>3, <3>4 DEF FrameInv, FramesMade, Made
    <3>6. mapping'[g] \in FrameObject
      BY <3>4, <3>5 DEF FrameObject, Unmapped
    <3>7. /\ mapping' \in [FRAME -> FrameObject \cup {None}]
          /\ \A f \in Frames' : mapping'[f] \in FrameObject
      <4>1. \A f \in FRAME : mapping'[f] \in FrameObject \cup {None}
        BY <3>4, <3>6 DEF TablesInv
      <4>2. mapping' = [f \in FRAME |-> mapping'[f]]
        BY <2>2 DEF TablesInv
      <4>3. \A f \in Frames : f \in FRAME /\ f # g /\ mapping[f] \in FrameObject
        BY <3>2, SpacesInPool DEF TablesInv
      <4> QED
        BY <3>3, <3>4, <3>6, <4>1, <4>2, <4>3
    <3>8. Forest(table, arena)'
      BY <2>2, <3>3, TablesWritten DEF TablesInv
    <3> QED
      BY <2>2, <3>7, <3>8 DEF TablesInv, TablesKept
  <2> QED
    BY <1>1, <1>6, <2>1, <2>2 DEF RetypeFrame
<1> QED
  BY <1>1, <1>4, <1>5, <1>6 DEF UntypedRetype

\* What Map and Unmap are given is there.
LEMMA InvokedThere ==
    ASSUME TablesInv, current # None, NEW c, NEW type \in PoolTypes, NEW right,
           InvokeError(current, c, type, right) = Ok
    PROVE  CapAt(current, c).id \in taken[type]
  BY InvokedWielded, WieldedInUse DEF TablesInv, FrameInv

\* What a Map that passes its checks and finds its spare pages is given.
LEMMA MapGiven ==
    ASSUME TablesInv, current # None, NEW f \in Frames, NEW v, NEW vaddr,
           Accepted(MapChecks(f, v, vaddr)), RoomInArena(Spares(mapping[f].size)) = Ok
    PROVE  /\ FreeMappings(f) # {}
           /\ CapAt(current, v).id \in AddressSpaces /\ CapAt(current, v).id \in VSPACE
           /\ Wields("VSpace", CapAt(current, v).id, "WRITE")
           /\ mapping[f].paddr \in Nat /\ mapping[f].size \in {"Small", "Mega"}
           /\ arena \in Page /\ (mapping[f].size = "Small" => arena + 1 \in Page)
<1>1. InvokeError(current, v, "VSpace", "WRITE") = Ok /\ FreeMappings(f) # {}
  <2>1. ASSUME NEW a1, NEW a2, NEW a3, NEW a4, Accepted(<<a1, a2, a3, a4>>)
        PROVE  a1 = Ok /\ a2 = Ok
    BY <2>1 DEF Accepted
  <2>2. /\ InvokeError(current, v, "VSpace", "WRITE") = Ok
        /\ (IF FreeMappings(f) = {} THEN "IllegalOperation" ELSE Ok) = Ok
    BY <2>1 DEF MapChecks
  <2> QED
    BY <2>2 DEF Ok
<1>2. /\ CapAt(current, v).id \in AddressSpaces /\ CapAt(current, v).id \in VSPACE
      /\ Wields("VSpace", CapAt(current, v).id, "WRITE")
  BY <1>1, InvokedThere, InvokedWielded, SpacesInPool DEF PoolTypes, AddressSpaces
<1>3. mapping[f].paddr \in Nat /\ mapping[f].size \in {"Small", "Mega"}
  BY DEF TablesInv, FrameObject
<1>4. /\ arena + Spares(mapping[f].size) <= ArenaPages /\ arena \in Nat /\ ArenaPages \in Nat
  BY <1>3, SpacesInPool DEF RoomInArena, Ok, Spares
<1>5. arena \in Page /\ (mapping[f].size = "Small" => arena + 1 \in Page)
  BY <1>3, <1>4 DEF Spares, Page
<1> QED
  BY <1>1, <1>2, <1>3, <1>5

LEMMA MapTables ==
    ASSUME TablesInv, current # None, NEW f \in Frames, NEW v, NEW vaddr \in Nat, NEW r,
           Map(f, v, vaddr, r)
    PROVE  TablesKept
<1> DEFINE size == mapping[f].size
<1> DEFINE space == CapAt(current, v).id
<1> DEFINE paddr == mapping[f].paddr
<1> DEFINE walk == IF size = "Small" THEN MapPage(table, root[space], vaddr, paddr, arena)
                                     ELSE MapMegapage(table, root[space], vaddr, paddr, arena)
<1>1. CASE UNCHANGED memVars
  BY <1>1, TablesUntouched DEF memVars
<1>2. CASE arena' = ArenaPages /\ UNCHANGED <<taken, budget, range, root, table, mapping>>
  BY <1>2, SpacesInPool, PagesLost
<1>3. CASE /\ Accepted(MapChecks(f, v, vaddr)) /\ RoomInArena(Spares(size)) = Ok
           /\ table' = walk.tb /\ arena' = Kept(size, walk.used)
           /\ mapping' = [mapping EXCEPT
                  ![f].mapped_at[Lowest(FreeMappings(f))] = <<space, vaddr>>]
           /\ UNCHANGED <<taken, budget, range, root>>
  <2>1. FreeMappings(f) # {}
    BY <1>3, MapGiven
  <2>2. space \in AddressSpaces /\ space \in VSPACE
    BY <1>3, MapGiven
  <2>3. /\ paddr \in Nat /\ size \in {"Small", "Mega"} /\ Forest(table, arena)
        /\ arena \in Page /\ (size = "Small" => arena + 1 \in Page)
    BY <1>3, MapGiven DEF TablesInv
  <2>4. PICK i \in 1 .. MaxFrameMappings : i = Lowest(FreeMappings(f))
    BY <2>1, LowestIn DEF FreeMappings
  <2>5. /\ mapping' \in [FRAME -> FrameObject \cup {None}]
        /\ \A g \in Frames : mapping'[g] \in FrameObject
    <3>1. <<space, vaddr>> \in {None} \cup (VSPACE \X Nat)
      BY <2>2
    <3>2. mapping' = [mapping EXCEPT ![f].mapped_at[i] = <<space, vaddr>>]
      BY <1>3, <2>4
    <3> HIDE DEF space
    <3> QED
      BY <3>1, <3>2, MappingType
  <2>6. Forest(walk.tb, arena + walk.used)
    BY <2>2, <2>3, PageForest, MegapageForest
  <2>8. PICK tb, n : tb = walk.tb /\ n = arena + walk.used
    OBVIOUS
  <2>9. table' = tb /\ arena' = n /\ Forest(tb, n)
    BY <1>3, <2>6, <2>8 DEF Kept
  <2> HIDE DEF walk
  <2>10. Forest(table, arena)'
    BY <1>3, <2>9, TablesWritten
  <2> QED
    BY <1>3, <2>5, <2>10 DEF TablesInv, TablesKept, Frames
<1> QED
  BY <1>1, <1>2, <1>3 DEF Map

LEMMA UnmapTables ==
    ASSUME TablesInv, current # None, NEW f \in Frames, NEW v, NEW r, Unmap(f, v, r)
    PROVE  TablesKept
<1> DEFINE space == CapAt(current, v).id
<1> DEFINE i == Lowest(MappingsInto(f, space))
<1>1. CASE UNCHANGED memVars
  BY <1>1, TablesUntouched DEF memVars
<1>2. CASE /\ Accepted(<<InvokeError(current, v, "VSpace", "WRITE")>>)
           /\ MappingsInto(f, space) # {}
           /\ table' = UnmapLeaf(table, root[space], mapping[f].mapped_at[i][2])
           /\ mapping' = [mapping EXCEPT ![f].mapped_at[i] = None]
           /\ UNCHANGED <<taken, budget, range, arena, root>>
  <2>1. space \in AddressSpaces
    <3>1. InvokeError(current, v, "VSpace", "WRITE") = Ok
      BY <1>2 DEF Accepted
    <3> QED
      BY <3>1, InvokedThere DEF PoolTypes, AddressSpaces
  <2>2. i \in MappingsInto(f, space) /\ i \in 1 .. MaxFrameMappings
    BY <1>2, LowestIn DEF MappingsInto
  <2>3. mapping[f].mapped_at[i] \in VSPACE \X Nat
    BY <2>2 DEF MappingsInto, TablesInv, FrameObject
  <2>4. PICK vaddr \in Nat : vaddr = mapping[f].mapped_at[i][2]
    BY <2>3
  <2> HIDE DEF space, i
  <2>5. PICK tb : tb = UnmapLeaf(table, root[space], vaddr)
    OBVIOUS
  <2>6. table' = tb /\ Forest(tb, arena)
    BY <1>2, <2>1, <2>4, <2>5, UnmapForest DEF TablesInv
  <2>7. Forest(table, arena)'
    BY <1>2, <2>6, TablesWritten
  <2>8. /\ mapping' \in [FRAME -> FrameObject \cup {None}]
        /\ \A g \in Frames : mapping'[g] \in FrameObject
    BY <1>2, <2>2, MappingType
  <2> QED
    BY <1>2, <2>7, <2>8 DEF TablesInv, TablesKept, Frames
<1> QED
  BY <1>1, <1>2 DEF Unmap

LEMMA InvokeTables ==
    ASSUME TablesInv, current # None, NEW r, NEW c, NEW label, NEW v, NEW vaddr \in Nat,
           FrameInvoke(c, label, v, vaddr, r)
    PROVE  TablesKept
<1> DEFINE f == CapAt(current, c).id
<1>1. CASE UNCHANGED memVars
  BY <1>1, TablesUntouched DEF memVars
<1>2. CASE Accepted(<<InvokeError(current, c, "Frame", "WRITE"),
                      IF label \in {"Map", "Unmap"} THEN Ok ELSE "InvalidArgument">>)
  <2>1. InvokeError(current, c, "Frame", "WRITE") = Ok
    BY <1>2 DEF Accepted
  <2>2. f \in Frames
    BY <2>1, InvokedThere DEF PoolTypes, Frames
  <2> HIDE DEF f
  <2>3. Map(f, v, vaddr, r) => TablesKept
    BY <2>2, MapTables
  <2>4. Unmap(f, v, r) => TablesKept
    BY <2>2, UnmapTables
  <2> QED
    BY <1>1, <2>3, <2>4 DEF FrameInvoke, f
<1> QED
  BY <1>1, <1>2 DEF FrameInvoke

\* Only a bump moves a range, and it leaves a range.
LEMMA RangesTyped ==
    ASSUME TablesInv, FrameInv', [MemoryNext]_allVars
    PROVE  range' \in [UNTYPED -> Backing \cup {None}]
<1>1. ASSUME NEW r, NEW c, NEW word, NEW dest, UntypedRetype(c, word, dest, r)
      PROVE  range' = range \/ \E u, bytes : range' = Bumped(u, bytes)
  BY <1>1 DEF UntypedRetype, RetypePooled, RetypeVSpace, RetypeFrame, memVars
<1>2. ASSUME NEW r, NEW c, NEW label, NEW v, NEW vaddr, FrameInvoke(c, label, v, vaddr, r)
      PROVE  range' = range
  BY <1>2 DEF FrameInvoke, Map, Unmap, memVars
<1>3. range' = range \/ \E u, bytes : range' = Bumped(u, bytes)
  BY <1>1, <1>2 DEF MemoryNext, MemoryTrap, allVars, memVars
<1>4. \A u, bytes : Bumped(u, bytes) =
          [w \in UNTYPED |-> Bumped(u, bytes)[w]]
  BY DEF Bumped, TablesInv
<1>5. range' = [w \in UNTYPED |-> range'[w]]
  BY <1>3, <1>4 DEF TablesInv
<1>6. \A w \in UNTYPED : range'[w] \in Backing \cup {None}
  BY DEF FrameInv, RangesExact
<1> QED
  BY <1>5, <1>6

LEMMA TablesNext == TablesInv /\ [MemoryNext]_allVars => TablesInv'
<1> SUFFICES ASSUME TablesInv, [MemoryNext]_allVars
             PROVE  TablesInv'
  OBVIOUS
<1>1. FrameInv' /\ range' \in [UNTYPED -> Backing \cup {None}]
  <2>1. FrameInv'
    BY FrameNext DEF TablesInv
  <2> QED
    BY <2>1, RangesTyped
<1>2. CASE MemoryTrap
  <2>1. current # None
    BY <1>2 DEF MemoryTrap
  <2>2. PICK err \in Flags :
          LET r == Request(current, 0, err)
          IN  \/ \E w \in Retypes : UntypedRetype(w[1], w[2], w[3], r)
              \/ \E w \in FrameWords : FrameInvoke(w[1], w[2], w[3], w[4], r)
    BY <1>2 DEF MemoryTrap
  <2> DEFINE r == Request(current, 0, err)
  <2> HIDE DEF r
  <2>3. ASSUME NEW w \in Retypes, UntypedRetype(w[1], w[2], w[3], r)
        PROVE  TablesKept
    BY <1>1, <2>1, <2>3, RetypeTables
  <2>4. ASSUME NEW w \in FrameWords, FrameInvoke(w[1], w[2], w[3], w[4], r)
        PROVE  TablesKept
    <3>1. w[4] \in Nat
      BY MemoryAssumption
    <3> QED
      BY <2>1, <2>4, <3>1, InvokeTables
  <2> QED
    BY <1>1, <2>2, <2>3, <2>4 DEF r, TablesInv, TablesKept
<1>3. CASE UNCHANGED memVars
  <2>1. TablesKept
    BY <1>3, TablesUntouched DEF memVars
  <2> QED
    BY <1>1, <2>1 DEF TablesInv, TablesKept
<1> QED
  BY <1>2, <1>3 DEF MemoryNext, allVars

\* What the loader has put into the tables: a branch in each root it has made, and the
\* kernel's leaf in the table that this names.
LEMMA BootEntries ==
    /\ \A v \in BootObjects.VSpace :
          /\ v \in VSPACE /\ BootRoot[v] \in Page /\ KernelTable[v] \in Page
          /\ BootRoot[v] < BootArena /\ KernelTable[v] < BootArena
          /\ BootEntry(BootRoot[v], RootIndex(KernelBase)) = Branch(KernelTable[v])
          /\ BootEntry(KernelTable[v], MegaIndex(KernelBase)) = Leaf(KernelBase)
    /\ \A p \in Page, i \in Index :
          \/ BootEntry(p, i) = Invalid
          \/ \E v \in BootObjects.VSpace :
                p = BootRoot[v] /\ i = RootIndex(KernelBase) /\ BootEntry(p, i) = Branch(KernelTable[v])
          \/ \E v \in BootObjects.VSpace :
                p = KernelTable[v] /\ i = MegaIndex(KernelBase) /\ BootEntry(p, i) = Leaf(KernelBase)
<1>1. \A v \in BootObjects.VSpace :
         BootRoot[v] \in 0 .. BootArena - 1 /\ KernelTable[v] \in 0 .. BootArena - 1
  BY KernelAssumption
<1>2. BootArena \in 0 .. ArenaPages /\ ArenaPages \in Nat
  BY KernelAssumption, MemoryAssumption
<1>3. \A x \in 0 .. BootArena - 1 : x \in Page /\ x < BootArena
  BY <1>2 DEF Page
<1>4. \A v, w \in BootObjects.VSpace :
         BootRoot[v] # KernelTable[w] /\ (BootRoot[v] = BootRoot[w] => v = w)
  BY KernelAssumption
<1>5. \A v \in BootObjects.VSpace : (CHOOSE w \in BootObjects.VSpace : BootRoot[v] = BootRoot[w]) = v
  BY <1>4
<1>6. \A v \in BootObjects.VSpace : v \in VSPACE
  BY MemoryAssumption DEF Pool
<1>7. \A v \in BootObjects.VSpace :
         BootEntry(BootRoot[v], RootIndex(KernelBase)) = Branch(KernelTable[v])
  BY <1>5 DEF BootEntry
<1>8. \A v \in BootObjects.VSpace :
         BootEntry(KernelTable[v], MegaIndex(KernelBase)) = Leaf(KernelBase)
  BY <1>4 DEF BootEntry
<1>9. ASSUME NEW p \in Page, NEW i \in Index, BootEntry(p, i) # Invalid
      PROVE  \/ \E v \in BootObjects.VSpace :
                   p = BootRoot[v] /\ i = RootIndex(KernelBase) /\ BootEntry(p, i) = Branch(KernelTable[v])
             \/ \E v \in BootObjects.VSpace :
                   p = KernelTable[v] /\ i = MegaIndex(KernelBase) /\ BootEntry(p, i) = Leaf(KernelBase)
  <2>1. \/ \E v \in BootObjects.VSpace : p = BootRoot[v] /\ i = RootIndex(KernelBase)
        \/ \E v \in BootObjects.VSpace : p = KernelTable[v] /\ i = MegaIndex(KernelBase)
    BY <1>9 DEF BootEntry
  <2> QED
    BY <1>7, <1>8, <2>1
<1> QED
  BY <1>1, <1>3, <1>6, <1>7, <1>8, <1>9

LEMMA BootForest ==
    ASSUME MemoryInit
    PROVE  /\ Forest(table, arena) /\ Frames = {} /\ AddressSpaces = BootObjects.VSpace
           /\ root \in [VSPACE -> Page \cup {None}]
           /\ \A v \in AddressSpaces : root[v] = BootRoot[v]
           /\ \A p \in Page, i \in Index : table[p][i] = BootEntry(p, i)
<1>1. AddressSpaces = BootObjects.VSpace /\ Frames = {}
  BY MemoryAssumption DEF MemoryInit, AddressSpaces, Frames
<1>2. /\ root \in [VSPACE -> Page \cup {None}]
      /\ \A v \in AddressSpaces : root[v] = BootRoot[v]
  BY <1>1, BootEntries DEF MemoryInit
<1>3. \A p \in Page, i \in Index : table[p][i] = BootEntry(p, i)
  BY DEF MemoryInit
<1>4. KernelBase \in Nat
  BY KernelAssumption
<1>5. \A p \in Page, i \in Index : BootEntry(p, i) \in Entry
  BY <1>4, BootEntries, EntryKinds
<1>6. table \in [Page -> [Index -> Entry]]
  BY <1>5 DEF MemoryInit
<1>7. \A p \in Page, i \in Index : Linked(table, p, i) =>
         \E v \in BootObjects.VSpace :
            p = BootRoot[v] /\ i = RootIndex(KernelBase) /\ table[p][i].to = KernelTable[v]
  BY <1>3, <1>4, BootEntries, EntryKinds DEF Linked
<1>8. \A v, w \in BootObjects.VSpace :
         /\ BootRoot[v] # KernelTable[w]
         /\ BootRoot[v] = BootRoot[w] \/ KernelTable[v] = KernelTable[w] => v = w
  BY KernelAssumption
<1>9. ASSUME NEW p \in Page, p >= arena
      PROVE  table[p] = EmptyTable
  <2>1. arena = BootArena /\ BootArena \in Nat /\ p \in Nat
    BY KernelAssumption DEF MemoryInit, Page
  <2>2. \A v \in BootObjects.VSpace : p # BootRoot[v] /\ p # KernelTable[v]
    <3>1. \A x : x \in Page /\ x < BootArena => p # x
      BY <1>9, <2>1 DEF Page
    <3> QED
      BY <3>1, BootEntries
  <2>3. \A i \in Index : BootEntry(p, i) = Invalid
    BY <2>2, BootEntries
  <2> QED
    BY <1>3, <1>6, <2>3 DEF EmptyTable
<1>10. \A v \in BootObjects.VSpace : BootRoot[v] < arena /\ KernelTable[v] < arena
  BY BootEntries DEF MemoryInit
<1>11. \A p \in Page, i \in Index : Linked(table, p, i) =>
          /\ p < arena /\ table[p][i].to < arena
          /\ \A v \in AddressSpaces : root[v] # table[p][i].to
  BY <1>1, <1>2, <1>7, <1>8, <1>10
<1>12. \A p, q \in Page, i, j \in Index :
          Linked(table, p, i) /\ Linked(table, q, j) /\ table[p][i].to = table[q][j].to => p = q /\ i = j
  BY <1>7, <1>8
<1>13. \A v \in AddressSpaces : root[v] \in Page /\ root[v] < arena
  BY <1>1, <1>2, <1>10, BootEntries
<1>14. \A v, w \in AddressSpaces : root[v] = root[w] => v = w
  BY <1>1, <1>2, <1>8
<1>15. arena \in 0 .. ArenaPages
  BY KernelAssumption DEF MemoryInit
<1>16. Forest(table, arena)
  BY <1>6, <1>9, <1>11, <1>12, <1>13, <1>14, <1>15 DEF Forest
<1> QED
  BY <1>1, <1>2, <1>3, <1>16

LEMMA TablesInit == MemoryInit => TablesInv
<1> SUFFICES ASSUME MemoryInit
             PROVE  TablesInv
  OBVIOUS
<1>1. Forest(table, arena) /\ Frames = {} /\ root \in [VSPACE -> Page \cup {None}]
  BY BootForest
<1>2. /\ range \in [UNTYPED -> Backing \cup {None}]
      /\ mapping \in [FRAME -> FrameObject \cup {None}]
  BY MemoryAssumption DEF MemoryInit
<1> QED
  BY <1>1, <1>2, FrameInit DEF TablesInv

(***************************************************************************)
(* The theorems                                                            *)
(***************************************************************************)

\* In every reachable state the page tables are a forest in the pages handed out.
THEOREM TablesInvariance == MemorySpec => []TablesInv
  BY TablesInit, TablesNext, PTL DEF MemorySpec

\* Every variable of the memory keeps to its type.
THEOREM MemoryTypeCorrect == MemorySpec => []MemoryTypeOK
<1>1. TablesInv => MemoryTypeOK
  <2> SUFFICES ASSUME TablesInv
               PROVE  MemoryTypeOK
    OBVIOUS
  <2> QED
    BY DEF TablesInv, FrameInv, ObjectInv, PoolsCounted, StepInv, Inv, Forest, MemoryTypeOK
<1> QED
  BY <1>1, TablesInvariance, PTL

\* Whatever is mapped, unmapped and retyped in any order, no page of the arena serves
\* two tables, and none is used before it is handed out.
THEOREM TablesCorrect == MemorySpec => []TablesDistinct
<1>1. TablesInv => TablesDistinct
  <2> SUFFICES ASSUME TablesInv
               PROVE  TablesDistinct
    OBVIOUS
  <2>1. Forest(table, arena)
    BY DEF TablesInv
  <2>2. \A b \in Branches : b[1] \in Page /\ b[2] \in Index /\ Linked(table, b[1], b[2])
                            /\ b = <<b[1], b[2]>>
    BY DEF Branches, Linked
  <2>3. \A b \in Branches : /\ b[1] < arena /\ Target(b) < arena
                            /\ \A v \in AddressSpaces : root[v] # Target(b)
    BY <2>1, <2>2 DEF Forest, Target
  <2>4. \A b, d \in Branches : Target(b) = Target(d) => b = d
    BY <2>1, <2>2 DEF Forest, Target
  <2> QED
    BY <2>1, <2>3, <2>4 DEF TablesDistinct, Forest
<1> QED
  BY <1>1, TablesInvariance, PTL

(***************************************************************************)
(* Address spaces are apart: what a walk from one root reads, no walk from *)
(* another root reads or writes.                                           *)
(***************************************************************************)
Child(tb, p, q) == \E i \in Index : Linked(tb, p, i) /\ tb[p][i].to = q

\* The pages that translating an address under root r may read.
Reads(tb, r, p) ==
    \/ p = r
    \/ Child(tb, r, p)
    \/ \E q \in Page : Child(tb, r, q) /\ Child(tb, q, p)

LEMMA ChildFacts ==
    ASSUME NEW tb, NEW n, Forest(tb, n)
    PROVE  /\ \A q : \A p \in Page : Child(tb, p, q) =>
                 q \in Page /\ q < n /\ p < n /\ \A v \in AddressSpaces : root[v] # q
           /\ \A x : \A p, q \in Page : Child(tb, p, x) /\ Child(tb, q, x) => p = q
<1>1. \A p \in Page, i \in Index : Linked(tb, p, i) => tb[p][i].to \in Page
  BY EntryKinds DEF Forest, Linked
<1> QED
  BY <1>1 DEF Child, Forest

\* Two roots share no page.
LEMMA TreesApart ==
    ASSUME NEW tb, NEW n, Forest(tb, n), NEW v \in AddressSpaces, NEW w \in AddressSpaces,
           v # w, NEW p \in Page, Reads(tb, root[v], p), Reads(tb, root[w], p)
    PROVE  FALSE
<1>1. root[v] \in Page /\ root[w] \in Page /\ root[v] # root[w]
  BY DEF Forest
<1>2. \A x \in Page : ~Child(tb, x, root[v]) /\ ~Child(tb, x, root[w])
  BY ChildFacts
<1>3. \A z : \A x, y \in Page : Child(tb, x, z) /\ Child(tb, y, z) => x = y
  BY ChildFacts
<1> QED
  BY <1>1, <1>2, <1>3 DEF Reads

\* A page that is read has been handed out.
LEMMA ReadHandedOut ==
    ASSUME NEW tb, NEW n, Forest(tb, n), NEW v \in AddressSpaces, NEW p \in Page,
           Reads(tb, root[v], p)
    PROVE  p < n
<1>1. root[v] \in Page /\ root[v] < n
  BY DEF Forest
<1> QED
  BY <1>1, ChildFacts DEF Reads

\* A translation depends on the pages it reads.
LEMMA TranslationReads ==
    ASSUME NEW tb \in [Page -> [Index -> Entry]], NEW new, NEW r \in Page, NEW vaddr \in Nat,
           \A p \in Page : Reads(tb, r, p) => new[p] = tb[p]
    PROVE  Translate(new, r, vaddr) = Translate(tb, r, vaddr)
<1>1. PICK upper : upper = tb[r][RootIndex(vaddr)]
  OBVIOUS
<1>2. PICK mega : mega = tb[upper.to][MegaIndex(vaddr)]
  OBVIOUS
<1>3. RootIndex(vaddr) \in Index /\ MegaIndex(vaddr) \in Index
  BY IndexInTable
<1>4. new[r] = tb[r]
  BY DEF Reads
<1>5. upper.kind = "Branch" => upper.to \in Page /\ new[upper.to] = tb[upper.to]
  <2>1. ASSUME upper.kind = "Branch"
        PROVE  upper.to \in Page /\ Child(tb, r, upper.to)
    BY <1>1, <1>3, <2>1, EntryKinds DEF Child, Linked
  <2> QED
    BY <2>1 DEF Reads
<1>6. upper.kind = "Branch" /\ mega.kind = "Branch" => new[mega.to] = tb[mega.to]
  <2>1. ASSUME upper.kind = "Branch", mega.kind = "Branch"
        PROVE  /\ upper.to \in Page /\ mega.to \in Page
               /\ Child(tb, r, upper.to) /\ Child(tb, upper.to, mega.to)
    BY <1>1, <1>2, <1>3, <2>1, EntryKinds DEF Child, Linked
  <2> QED
    BY <2>1 DEF Reads
<1>7. Translate(tb, r, vaddr) =
         IF upper.kind # "Branch" THEN Invalid
         ELSE IF mega.kind = "Leaf" THEN Leaf(mega.to + (vaddr % MegaSize))
         ELSE IF mega.kind # "Branch" THEN Invalid
         ELSE IF tb[mega.to][PageIndex(vaddr)].kind = "Leaf"
              THEN Leaf(tb[mega.to][PageIndex(vaddr)].to + (vaddr % PageSize))
         ELSE Invalid
  BY <1>1, <1>2 DEF Translate
<1>8. CASE upper.kind # "Branch"
  BY <1>1, <1>4, <1>7, <1>8 DEF Translate
<1>9. CASE upper.kind = "Branch"
  <2>1. new[r][RootIndex(vaddr)] = upper /\ new[upper.to][MegaIndex(vaddr)] = mega
    BY <1>1, <1>2, <1>4, <1>5, <1>9
  <2>2. Translate(new, r, vaddr) =
           IF mega.kind = "Leaf" THEN Leaf(mega.to + (vaddr % MegaSize))
           ELSE IF mega.kind # "Branch" THEN Invalid
           ELSE IF new[mega.to][PageIndex(vaddr)].kind = "Leaf"
                THEN Leaf(new[mega.to][PageIndex(vaddr)].to + (vaddr % PageSize))
           ELSE Invalid
    BY <1>9, <2>1 DEF Translate
  <2> QED
    BY <1>6, <1>7, <1>9, <2>2
<1> QED
  BY <1>8, <1>9

\* What a walk writes: pages that it reads, or that were not handed out before.
WritesWithin(tb, new, r, n) ==
    \A p \in Page : new[p] # tb[p] => Reads(tb, r, p) \/ p >= n

LEMMA DescendWrites ==
    ASSUME NEW tb, NEW n, Forest(tb, n), NEW p \in Page, NEW i \in Index
    PROVE  LET d == Descend(tb, p, i, n)
           IN  /\ \A q \in Page : d.tb[q] # tb[q] => q = p
               /\ \/ d.used = 0 /\ d.tb = tb /\ Child(tb, p, d.page)
                  \/ d.used = 1 /\ d.page = n
<1>1. CASE Linked(tb, p, i)
  <2>1. Descend(tb, p, i, n) = [tb |-> tb, page |-> tb[p][i].to, used |-> 0]
    BY <1>1 DEF Descend, Linked
  <2> QED
    BY <1>1, <2>1 DEF Child
<1>2. CASE ~Linked(tb, p, i)
  <2>1. PICK new : new = [tb EXCEPT ![p][i] = Branch(n)]
    OBVIOUS
  <2>2. Descend(tb, p, i, n) = [tb |-> new, page |-> n, used |-> 1]
    BY <1>2, <2>1 DEF Descend, Linked
  <2>3. \A q \in Page : new[q] # tb[q] => q = p
    BY <2>1 DEF Forest
  <2> QED
    BY <2>2, <2>3
<1> QED
  BY <1>1, <1>2

LEMMA MegapageWrites ==
    ASSUME NEW tb, NEW n, Forest(tb, n), n \in Page, NEW v \in AddressSpaces,
           NEW vaddr \in Nat, NEW paddr \in Nat
    PROVE  WritesWithin(tb, MapMegapage(tb, root[v], vaddr, paddr, n).tb, root[v], n)
<1>1. root[v] \in Page /\ root[v] < n /\ n \in Nat
  BY DEF Forest, Page
<1>2. RootIndex(vaddr) \in Index /\ MegaIndex(vaddr) \in Index
  BY IndexInTable
<1>3. PICK upper : upper = Descend(tb, root[v], RootIndex(vaddr), n)
  OBVIOUS
<1>4. /\ \A q \in Page : upper.tb[q] # tb[q] => q = root[v]
      /\ \/ upper.used = 0 /\ upper.tb = tb /\ Child(tb, root[v], upper.page)
         \/ upper.used = 1 /\ upper.page = n
  BY <1>1, <1>2, <1>3, DescendWrites
<1>5. upper.page \in Page /\ upper.tb \in [Page -> [Index -> Entry]]
  BY <1>1, <1>2, <1>3, DescendForest DEF Forest
<1>6. PICK new : new = [upper.tb EXCEPT ![upper.page][MegaIndex(vaddr)] = Leaf(paddr)]
  OBVIOUS
<1>7. MapMegapage(tb, root[v], vaddr, paddr, n).tb = new
  BY <1>3, <1>6 DEF MapMegapage
<1>8. \A q \in Page : new[q] # tb[q] => q = root[v] \/ q = upper.page
  BY <1>4, <1>5, <1>6
<1> QED
  BY <1>1, <1>4, <1>7, <1>8 DEF WritesWithin, Reads

LEMMA PageWrites ==
    ASSUME NEW tb, NEW n, Forest(tb, n), n \in Page, n + 1 \in Page, NEW v \in AddressSpaces,
           NEW vaddr \in Nat, NEW paddr \in Nat
    PROVE  WritesWithin(tb, MapPage(tb, root[v], vaddr, paddr, n).tb, root[v], n)
<1>1. root[v] \in Page /\ root[v] < n /\ n \in Nat
  BY DEF Forest, Page
<1>2. RootIndex(vaddr) \in Index /\ MegaIndex(vaddr) \in Index /\ PageIndex(vaddr) \in Index
  BY IndexInTable
<1>3. PICK upper : upper = Descend(tb, root[v], RootIndex(vaddr), n)
  OBVIOUS
<1>4. /\ \A q \in Page : upper.tb[q] # tb[q] => q = root[v]
      /\ \/ upper.used = 0 /\ upper.tb = tb /\ Child(tb, root[v], upper.page)
         \/ upper.used = 1 /\ upper.page = n
  BY <1>1, <1>2, <1>3, DescendWrites
<1>5. /\ upper.used \in {0, 1} /\ Forest(upper.tb, n + upper.used)
      /\ upper.page \in Page /\ upper.page < n + upper.used
  BY <1>1, <1>2, <1>3, DescendForest
<1>6. PICK m \in Page : m = n + upper.used
  BY <1>1, <1>5
<1>7. PICK mega : mega = Descend(upper.tb, upper.page, MegaIndex(vaddr), m)
  OBVIOUS
<1>8. /\ \A q \in Page : mega.tb[q] # upper.tb[q] => q = upper.page
      /\ \/ Child(upper.tb, upper.page, mega.page) /\ mega.used = 0
         \/ mega.page = m
  BY <1>2, <1>5, <1>6, <1>7, DescendWrites
<1>9. mega.page \in Page /\ mega.tb \in [Page -> [Index -> Entry]]
  <2>1. mega.page \in Page /\ Forest(mega.tb, m + mega.used)
    BY <1>2, <1>5, <1>6, <1>7, DescendForest
  <2> QED
    BY <2>1 DEF Forest
<1>10. PICK new : new = [mega.tb EXCEPT ![mega.page][PageIndex(vaddr)] = Leaf(paddr)]
  OBVIOUS
<1>11. MapPage(tb, root[v], vaddr, paddr, n).tb = new
  BY <1>3, <1>6, <1>7, <1>10 DEF MapPage
<1>12. \A q \in Page : new[q] # tb[q] => q = root[v] \/ q = upper.page \/ q = mega.page
  <2>1. \A q \in Page : q # mega.page => new[q] = mega.tb[q]
    BY <1>9, <1>10
  <2> QED
    BY <1>4, <1>8, <2>1
<1>13. Reads(tb, root[v], upper.page) \/ upper.page >= n
  BY <1>1, <1>4 DEF Reads
<1>14. Reads(tb, root[v], mega.page) \/ mega.page >= n
  <2>1. CASE mega.page = m
    BY <1>1, <1>5, <1>6, <2>1
  <2>2. CASE upper.used = 0 /\ upper.tb = tb /\ Child(tb, root[v], upper.page)
             /\ Child(tb, upper.page, mega.page)
    BY <1>5, <2>2 DEF Reads
  <2>3. CASE upper.page = n /\ Child(upper.tb, upper.page, mega.page)
    <3>1. upper.tb[n] = tb[n] /\ tb[n] = EmptyTable
      BY <1>1, <1>4 DEF Forest
    <3>2. ~Child(upper.tb, n, mega.page)
      BY <3>1, BlankUnlinked DEF Child, Linked
    <3> QED
      BY <2>3, <3>2
  <2> QED
    BY <1>4, <1>8, <2>1, <2>2, <2>3
<1> QED
  BY <1>11, <1>12, <1>13, <1>14 DEF WritesWithin, Reads

LEMMA UnmapWrites ==
    ASSUME NEW tb, NEW n, Forest(tb, n), NEW v \in AddressSpaces, NEW vaddr \in Nat
    PROVE  WritesWithin(tb, UnmapLeaf(tb, root[v], vaddr), root[v], n)
<1>1. PICK upper, p : upper = tb[root[v]][RootIndex(vaddr)] /\ p = upper.to
  OBVIOUS
<1>2. PICK mega, q : mega = tb[p][MegaIndex(vaddr)] /\ q = mega.to
  OBVIOUS
<1>3. /\ RootIndex(vaddr) \in Index /\ MegaIndex(vaddr) \in Index /\ PageIndex(vaddr) \in Index
      /\ root[v] \in Page
  BY IndexInTable DEF Forest
<1>4. UnmapLeaf(tb, root[v], vaddr) =
         IF upper.kind # "Branch" THEN tb
         ELSE IF mega.kind = "Leaf" THEN [tb EXCEPT ![p][MegaIndex(vaddr)] = Invalid]
         ELSE IF mega.kind = "Branch" THEN [tb EXCEPT ![q][PageIndex(vaddr)] = Invalid]
         ELSE tb
  BY <1>1, <1>2 DEF UnmapLeaf
<1>5. upper.kind = "Branch" => Child(tb, root[v], p) /\ p \in Page
  BY <1>1, <1>3, ChildFacts DEF Child, Linked
<1>6. upper.kind = "Branch" /\ mega.kind = "Branch" => Child(tb, p, q)
  BY <1>2, <1>3 DEF Child, Linked
<1>7. \A x, i, y \in Page : [tb EXCEPT ![x][i] = Invalid][y] # tb[y] => y = x
  BY DEF Forest
<1>8. CASE upper.kind = "Branch" /\ mega.kind = "Leaf"
  BY <1>4, <1>5, <1>7, <1>8 DEF WritesWithin, Reads
<1>9. CASE upper.kind = "Branch" /\ mega.kind = "Branch"
  BY <1>4, <1>5, <1>6, <1>7, <1>9 DEF WritesWithin, Reads
<1> QED
  BY <1>4, <1>8, <1>9 DEF WritesWithin

\* A step either leaves every walk as it was, or writes within the tables of one
\* address space, on which its thread has WRITE, as on a frame.
OneSpaceWritten ==
    /\ root' = root
    /\ \E f \in Frames : Wields("Frame", f, "WRITE")
    /\ \E v \in AddressSpaces : /\ Wields("VSpace", v, "WRITE")
                                /\ WritesWithin(table, table', root[v], arena)

WalksKept == table' = table /\ \A v \in AddressSpaces : root'[v] = root[v]

LEMMA MapWrites ==
    ASSUME TablesInv, current # None, NEW f \in Frames, Wields("Frame", f, "WRITE"),
           NEW v, NEW vaddr \in Nat, NEW r, Map(f, v, vaddr, r)
    PROVE  WalksKept \/ OneSpaceWritten
<1> DEFINE size == mapping[f].size
<1> DEFINE space == CapAt(current, v).id
<1> DEFINE paddr == mapping[f].paddr
<1> DEFINE walk == IF size = "Small" THEN MapPage(table, root[space], vaddr, paddr, arena)
                                     ELSE MapMegapage(table, root[space], vaddr, paddr, arena)
<1>1. CASE UNCHANGED <<root, table>>
  BY <1>1 DEF WalksKept
<1>2. CASE /\ Accepted(MapChecks(f, v, vaddr)) /\ RoomInArena(Spares(size)) = Ok
           /\ table' = walk.tb /\ UNCHANGED root
  <2>1. /\ space \in AddressSpaces /\ Wields("VSpace", space, "WRITE")
        /\ paddr \in Nat /\ size \in {"Small", "Mega"} /\ Forest(table, arena)
        /\ arena \in Page /\ (size = "Small" => arena + 1 \in Page)
    BY <1>2, MapGiven DEF TablesInv
  <2>2. WritesWithin(table, walk.tb, root[space], arena)
    BY <2>1, PageWrites, MegapageWrites
  <2> HIDE DEF walk
  <2> QED
    BY <1>2, <2>1, <2>2 DEF OneSpaceWritten
<1> QED
  BY <1>1, <1>2 DEF Map, memVars

LEMMA UnmapOneSpace ==
    ASSUME TablesInv, current # None, NEW f \in Frames, Wields("Frame", f, "WRITE"),
           NEW v, NEW r, Unmap(f, v, r)
    PROVE  WalksKept \/ OneSpaceWritten
<1> DEFINE space == CapAt(current, v).id
<1> DEFINE i == Lowest(MappingsInto(f, space))
<1>1. CASE UNCHANGED <<root, table>>
  BY <1>1 DEF WalksKept
<1>2. CASE /\ Accepted(<<InvokeError(current, v, "VSpace", "WRITE")>>)
           /\ MappingsInto(f, space) # {}
           /\ table' = UnmapLeaf(table, root[space], mapping[f].mapped_at[i][2])
           /\ UNCHANGED root
  <2>1. InvokeError(current, v, "VSpace", "WRITE") = Ok
    BY <1>2 DEF Accepted
  <2>2. space \in AddressSpaces /\ Wields("VSpace", space, "WRITE")
    BY <2>1, InvokedThere, InvokedWielded DEF PoolTypes, AddressSpaces
  <2>3. i \in MappingsInto(f, space)
    BY <1>2, LowestIn DEF MappingsInto
  <2>4. PICK vaddr \in Nat : vaddr = mapping[f].mapped_at[i][2]
    BY <2>3 DEF MappingsInto, TablesInv, FrameObject
  <2> HIDE DEF space, i
  <2>5. WritesWithin(table, UnmapLeaf(table, root[space], vaddr), root[space], arena)
    BY <2>2, UnmapWrites DEF TablesInv
  <2> QED
    BY <1>2, <2>2, <2>4, <2>5 DEF OneSpaceWritten
<1> QED
  BY <1>1, <1>2 DEF Unmap, memVars

LEMMA InvokeWrites ==
    ASSUME TablesInv, current # None, NEW r, NEW c, NEW label, NEW v, NEW vaddr \in Nat,
           FrameInvoke(c, label, v, vaddr, r)
    PROVE  WalksKept \/ OneSpaceWritten
<1> DEFINE f == CapAt(current, c).id
<1>1. CASE UNCHANGED memVars
  BY <1>1 DEF memVars, WalksKept
<1>2. CASE Accepted(<<InvokeError(current, c, "Frame", "WRITE"),
                      IF label \in {"Map", "Unmap"} THEN Ok ELSE "InvalidArgument">>)
  <2>1. InvokeError(current, c, "Frame", "WRITE") = Ok
    BY <1>2 DEF Accepted
  <2>2. f \in Frames /\ Wields("Frame", f, "WRITE")
    BY <2>1, InvokedThere, InvokedWielded DEF PoolTypes, Frames
  <2> HIDE DEF f
  <2>3. Map(f, v, vaddr, r) => WalksKept \/ OneSpaceWritten
    BY <2>2, MapWrites
  <2>4. Unmap(f, v, r) => WalksKept \/ OneSpaceWritten
    BY <2>2, UnmapOneSpace
  <2> QED
    BY <1>1, <2>3, <2>4 DEF FrameInvoke, f
<1> QED
  BY <1>1, <1>2 DEF FrameInvoke

\* A retype plants no root but that of an address space which was not there.
LEMMA RetypeWrites ==
    ASSUME TablesInv, NEW r, NEW c, NEW word, NEW dest, UntypedRetype(c, word, dest, r)
    PROVE  WalksKept
<1>1. CASE UNCHANGED <<root, table>>
  BY <1>1 DEF WalksKept
<1>2. CASE /\ Free("VSpace") # {} /\ root' = [root EXCEPT ![Fresh("VSpace")] = arena]
           /\ UNCHANGED table
  <2>1. Fresh("VSpace") \notin AddressSpaces
    BY <1>2, NewCapType DEF AddressSpaces, Pool
  <2> QED
    BY <1>2, <2>1, SpacesInPool DEF WalksKept, TablesInv
<1> QED
  BY <1>1, <1>2 DEF UntypedRetype, RetypePooled, RetypeVSpace, RetypeFrame, memVars

LEMMA StepWrites ==
    ASSUME TablesInv, [MemoryNext]_allVars
    PROVE  WalksKept \/ OneSpaceWritten
<1>1. CASE MemoryTrap
  <2>1. PICK err \in Flags :
          LET r == Request(current, 0, err)
          IN  \/ \E w \in Retypes : UntypedRetype(w[1], w[2], w[3], r)
              \/ \E w \in FrameWords : FrameInvoke(w[1], w[2], w[3], w[4], r)
    BY <1>1 DEF MemoryTrap
  <2> DEFINE r == Request(current, 0, err)
  <2> HIDE DEF r
  <2>2. ASSUME NEW w \in FrameWords, FrameInvoke(w[1], w[2], w[3], w[4], r)
        PROVE  WalksKept \/ OneSpaceWritten
    BY <1>1, <2>2, MemoryAssumption, InvokeWrites DEF MemoryTrap
  <2> QED
    BY <2>1, <2>2, RetypeWrites DEF r
<1>2. CASE UNCHANGED memVars
  BY <1>2 DEF memVars, WalksKept
<1> QED
  BY <1>1, <1>2 DEF MemoryNext, allVars

\* The step writes one tree, and walks every other one as before.
LEMMA StepIsolated ==
    ASSUME TablesInv, [MemoryNext]_allVars, NEW v \in AddressSpaces, Changed(v)
    PROVE  /\ Wields("VSpace", v, "WRITE")
           /\ \E f \in Frames : Wields("Frame", f, "WRITE")
           /\ \A u \in AddressSpaces \ {v} : ~Changed(u)
<1>1. \A u \in AddressSpaces, vaddr \in PageAddress :
          /\ Translation(u, vaddr) = Translate(table, root[u], vaddr)
          /\ Translation(u, vaddr)' = Translate(table', root'[u], vaddr)
  BY DEF Translation
<1>2. ~WalksKept
  BY <1>1 DEF WalksKept, Changed
<1>3. OneSpaceWritten
  BY <1>2, StepWrites
<1>4. PICK w \in AddressSpaces : /\ Wields("VSpace", w, "WRITE")
                                 /\ WritesWithin(table, table', root[w], arena)
  BY <1>3 DEF OneSpaceWritten
<1>5. ASSUME NEW u \in AddressSpaces, u # w
      PROVE  ~Changed(u)
  <2>1. Forest(table, arena) /\ root[u] \in Page
    BY DEF TablesInv, Forest
  <2>2. ASSUME NEW p \in Page, Reads(table, root[u], p)
        PROVE  table'[p] = table[p]
    <3>1. p < arena /\ p \in Nat /\ arena \in Nat
      BY <2>1, <2>2, ReadHandedOut, SpacesInPool DEF Page
    <3>2. ~Reads(table, root[w], p)
      BY <1>5, <2>1, <2>2, TreesApart
    <3> QED
      BY <1>4, <3>1, <3>2 DEF WritesWithin
  <2>3. PICK new : new = table'
    OBVIOUS
  <2>4. PICK r \in Page : r = root[u]
    BY <2>1
  <2>5. PICK tb \in [Page -> [Index -> Entry]] : tb = table
    BY <2>1 DEF Forest
  <2>6. \A p \in Page : Reads(tb, r, p) => new[p] = tb[p]
    BY <2>2, <2>3, <2>4, <2>5
  <2>7. \A vaddr \in Nat : Translate(new, r, vaddr) = Translate(tb, r, vaddr)
    BY <2>6, TranslationReads
  <2>8. PageAddress \subseteq Nat
    BY PageTableAssumption DEF PageAddress
  <2>9. \A vaddr \in PageAddress :
            Translate(table', root'[u], vaddr) = Translate(table, root[u], vaddr)
    BY <1>3, <2>3, <2>4, <2>5, <2>7, <2>8 DEF OneSpaceWritten
  <2> QED
    BY <1>1, <2>9 DEF Changed
<1> QED
  BY <1>3, <1>4, <1>5 DEF OneSpaceWritten

\* No operation on one address space ever shows in another, for any arena, any number
\* of address spaces and any sequence of syscalls.
THEOREM SpacesCorrect == MemorySpec => SpacesIsolated
<1>1. TablesInv /\ [MemoryNext]_allVars =>
         [\A v \in AddressSpaces : Changed(v) =>
             /\ Wields("VSpace", v, "WRITE")
             /\ \E f \in Frames : Wields("Frame", f, "WRITE")
             /\ \A w \in AddressSpaces \ {v} : ~Changed(w)]_allVars
  BY StepIsolated
<1> QED
  BY <1>1, TablesInvariance, PTL DEF MemorySpec, SpacesIsolated

(***************************************************************************)
(* What a walk finds.  The leaf of a size that an address meets in the     *)
(* tables under a root, if it meets one; two addresses are in the same     *)
(* place of a size when a walk cannot tell them apart before such a leaf.  *)
(***************************************************************************)
PageEntry(tb, r, vaddr) ==
    LET mega == MegaEntry(tb, r, vaddr)
    IN  IF mega.kind = "Branch" THEN tb[mega.to][PageIndex(vaddr)] ELSE Invalid

Upper(tb, r, vaddr) == tb[r][RootIndex(vaddr)]

LeafAt(size, tb, r, vaddr) ==
    LET mega == MegaEntry(tb, r, vaddr)
    IN  IF size = "Small" THEN PageEntry(tb, r, vaddr)
        ELSE IF mega.kind = "Leaf" THEN mega ELSE Invalid

Sizes == {"Small", "Mega"}

\* One entry of one table is written.
Written(tb, new, p, i, e) == new = [tb EXCEPT ![p][i] = e]

LEMMA LeafKinds ==
    /\ Invalid.kind = "Invalid"
    /\ \A a : Leaf(a).kind = "Leaf" /\ Leaf(a).to = a /\ Leaf(a) # Invalid
    /\ \A p : Branch(p).kind = "Branch" /\ Branch(p).to = p
    /\ \A i \in Index : EmptyTable[i] = Invalid
    /\ \A e \in Entry : /\ e.kind = "Branch" => e.to \in Page
                        /\ e.kind = "Leaf" => e.to \in Nat /\ e = Leaf(e.to)
                        /\ e.kind \notin {"Branch", "Leaf"} => e = Invalid
  BY DEF Invalid, Leaf, Branch, EmptyTable, Entry

\* The tables on the way from a root to a leaf are of one address space, one level
\* and one range of addresses only.
LEMMA PathFacts ==
    ASSUME NEW tb, NEW n, Forest(tb, n), NEW v \in AddressSpaces, NEW w \in AddressSpaces,
           NEW a \in Nat, NEW b \in Nat
    PROVE  LET x == Upper(tb, root[v], a)
               y == Upper(tb, root[w], b)
               mx == MegaEntry(tb, root[v], a)
               my == MegaEntry(tb, root[w], b)
           IN  /\ root[w] \in Page /\ x \in Entry /\ mx \in Entry
               /\ PageEntry(tb, root[v], a) \in Entry
               /\ mx.kind = "Branch" => x.kind = "Branch"
               /\ x.kind = "Branch" =>
                     /\ x.to \in Page /\ x.to < n /\ x.to # root[w]
                     /\ mx = tb[x.to][MegaIndex(a)]
               /\ x.kind = "Branch" /\ y.kind = "Branch" /\ x.to = y.to =>
                     v = w /\ RootIndex(a) = RootIndex(b)
               /\ mx.kind = "Branch" =>
                     /\ mx.to \in Page /\ mx.to < n /\ mx.to # root[w]
                     /\ y.kind = "Branch" => mx.to # y.to
                     /\ PageEntry(tb, root[v], a) = tb[mx.to][PageIndex(a)]
               /\ mx.kind = "Branch" /\ my.kind = "Branch" /\ mx.to = my.to =>
                     v = w /\ SamePlace("Mega", a, b)
<1>1. PICK x, y, mx, my :
         /\ x = Upper(tb, root[v], a) /\ y = Upper(tb, root[w], b)
         /\ mx = MegaEntry(tb, root[v], a) /\ my = MegaEntry(tb, root[w], b)
  OBVIOUS
<1>2. /\ RootIndex(a) \in Index /\ MegaIndex(a) \in Index /\ PageIndex(a) \in Index
      /\ RootIndex(b) \in Index /\ MegaIndex(b) \in Index
      /\ root[v] \in Page /\ root[w] \in Page
      /\ root[v] = root[w] => v = w
  BY IndexInTable DEF Forest
<1>3. \A p \in Page, i \in Index : tb[p][i] \in Entry
  BY DEF Forest
<1>4. \A p \in Page, i \in Index : tb[p][i].kind = "Branch" =>
         /\ tb[p][i].to \in Page /\ tb[p][i].to < n
         /\ \A u \in AddressSpaces : root[u] # tb[p][i].to
  BY <1>3, EntryKinds DEF Forest, Linked
<1>5. \A p, q \in Page, i, j \in Index :
         tb[p][i].kind = "Branch" /\ tb[q][j].kind = "Branch" /\ tb[p][i].to = tb[q][j].to =>
            p = q /\ i = j
  BY DEF Forest, Linked
<1>6. /\ x.kind = "Branch" => mx = tb[x.to][MegaIndex(a)]
      /\ x.kind # "Branch" => mx = Invalid
      /\ y.kind = "Branch" => my = tb[y.to][MegaIndex(b)]
      /\ y.kind # "Branch" => my = Invalid
  BY <1>1 DEF MegaEntry, Upper
<1>7. /\ mx.kind = "Branch" => PageEntry(tb, root[v], a) = tb[mx.to][PageIndex(a)]
      /\ mx.kind # "Branch" => PageEntry(tb, root[v], a) = Invalid
  BY <1>1 DEF PageEntry
<1>8. /\ x \in Entry
      /\ x.kind = "Branch" => x.to \in Page /\ x.to < n /\ x.to # root[w]
      /\ y.kind = "Branch" => y.to \in Page /\ y.to # root[v]
  BY <1>1, <1>2, <1>3, <1>4 DEF Upper
<1>9. mx \in Entry /\ (mx.kind = "Branch" => x.kind = "Branch") /\ (my.kind = "Branch" => y.kind = "Branch")
  BY <1>2, <1>3, <1>6, <1>8, LeafKinds, EntryKinds
<1>10. mx.kind = "Branch" => mx.to \in Page /\ mx.to < n /\ mx.to # root[w]
  BY <1>2, <1>4, <1>6, <1>8, <1>9
<1>11. PageEntry(tb, root[v], a) \in Entry
  BY <1>2, <1>3, <1>7, <1>10, EntryKinds
<1>12. x.kind = "Branch" /\ y.kind = "Branch" /\ x.to = y.to => v = w /\ RootIndex(a) = RootIndex(b)
  BY <1>1, <1>2, <1>5 DEF Upper
<1>13. mx.kind = "Branch" /\ y.kind = "Branch" => mx.to # y.to
  <2>1. mx.kind = "Branch" => mx = tb[x.to][MegaIndex(a)] /\ x.to \in Page /\ x.to # root[w]
    BY <1>6, <1>8, <1>9
  <2> QED
    BY <1>1, <1>2, <1>5, <2>1 DEF Upper
<1>14. ASSUME mx.kind = "Branch", my.kind = "Branch", mx.to = my.to
       PROVE  v = w /\ SamePlace("Mega", a, b)
  <2>1. /\ mx = tb[x.to][MegaIndex(a)] /\ my = tb[y.to][MegaIndex(b)]
        /\ x.kind = "Branch" /\ y.kind = "Branch" /\ x.to \in Page /\ y.to \in Page
    BY <1>6, <1>8, <1>9, <1>14
  <2>2. x.to = y.to /\ MegaIndex(a) = MegaIndex(b)
    BY <1>2, <1>5, <1>14, <2>1
  <2> QED
    BY <1>12, <2>1, <2>2 DEF SamePlace
<1> QED
  BY <1>1, <1>2, <1>6, <1>7, <1>8, <1>9, <1>10, <1>11, <1>12, <1>13, <1>14

\* A branch to a blank page, in a root, shows in no walk.
LEMMA RootLinked ==
    ASSUME NEW tb, NEW n, Forest(tb, n), n \in Page, NEW v \in AddressSpaces, NEW w \in AddressSpaces,
           NEW a \in Nat, NEW b \in Nat, tb[root[v]][RootIndex(a)].kind # "Branch",
           NEW new, Written(tb, new, root[v], RootIndex(a), Branch(n))
    PROVE  /\ MegaEntry(new, root[w], b) = MegaEntry(tb, root[w], b)
           /\ PageEntry(new, root[w], b) = PageEntry(tb, root[w], b)
<1>1. PICK y, my : y = Upper(tb, root[w], b) /\ my = MegaEntry(tb, root[w], b)
  OBVIOUS
<1>2. /\ root[v] \in Page /\ root[w] \in Page /\ n # root[v]
      /\ RootIndex(a) \in Index /\ RootIndex(b) \in Index /\ MegaIndex(b) \in Index
      /\ PageIndex(b) \in Index /\ (root[v] = root[w] => v = w)
  BY IndexInTable DEF Forest, Page
<1>3. /\ y.kind = "Branch" => y.to \in Page /\ y.to # root[v] /\ my = tb[y.to][MegaIndex(b)]
      /\ y.kind # "Branch" => my = Invalid
  <2>1. y.kind = "Branch" => y.to \in Page /\ y.to # root[v] /\ my = tb[y.to][MegaIndex(b)]
    BY <1>1, PathFacts
  <2>2. y.kind # "Branch" => my = Invalid
    BY <1>1 DEF MegaEntry, Upper
  <2> QED
    BY <2>1, <2>2
<1>4. /\ my.kind = "Branch" => /\ my.to \in Page /\ my.to # root[v] /\ y.kind = "Branch"
                               /\ PageEntry(tb, root[w], b) = tb[my.to][PageIndex(b)]
      /\ my.kind # "Branch" => PageEntry(tb, root[w], b) = Invalid
  BY <1>1, PathFacts DEF PageEntry
<1>5. /\ \A p \in Page : p # root[v] => new[p] = tb[p]
      /\ \A i \in Index : i # RootIndex(a) => new[root[v]][i] = tb[root[v]][i]
      /\ new[root[v]][RootIndex(a)] = Branch(n)
      /\ tb[n] = EmptyTable
  BY <1>2 DEF Forest, Page, Written
<1>6. CASE w = v /\ RootIndex(b) = RootIndex(a)
  <2>1. MegaEntry(new, root[w], b) = new[n][MegaIndex(b)]
    BY <1>5, <1>6, LeafKinds DEF MegaEntry
  <2>2. MegaEntry(new, root[w], b) = Invalid
    BY <1>2, <1>5, <2>1, LeafKinds
  <2>3. my = Invalid
    BY <1>1, <1>3, <1>6 DEF Upper
  <2> QED
    BY <1>1, <2>2, <2>3, LeafKinds DEF PageEntry
<1>7. CASE ~(w = v /\ RootIndex(b) = RootIndex(a))
  <2>1. new[root[w]][RootIndex(b)] = y
    BY <1>1, <1>2, <1>5, <1>7 DEF Upper
  <2>2. MegaEntry(new, root[w], b) = my
    BY <1>1, <1>3, <1>5, <2>1 DEF MegaEntry
  <2>3. PageEntry(new, root[w], b) = PageEntry(tb, root[w], b)
    BY <1>4, <1>5, <2>2 DEF PageEntry
  <2> QED
    BY <1>1, <2>2, <2>3
<1> QED
  BY <1>6, <1>7

\* An entry that is no branch to a table in use shows, in a table of the middle level, to
\* the walks that reach it, and to no other; what was under the entry is gone.
LEMMA MegaReplaced ==
    ASSUME NEW tb, NEW n, Forest(tb, n), NEW v \in AddressSpaces, NEW w \in AddressSpaces,
           NEW a \in Nat, NEW b \in Nat, Upper(tb, root[v], a).kind = "Branch",
           NEW e \in Entry,
           e.kind = "Branch" => tb[e.to] = EmptyTable /\ e.to # Upper(tb, root[v], a).to,
           NEW new, Written(tb, new, Upper(tb, root[v], a).to, MegaIndex(a), e)
    PROVE  /\ MegaEntry(new, root[w], b) =
                 IF w = v /\ SamePlace("Mega", a, b) THEN e ELSE MegaEntry(tb, root[w], b)
           /\ PageEntry(new, root[w], b) =
                 IF w = v /\ SamePlace("Mega", a, b) THEN Invalid ELSE PageEntry(tb, root[w], b)
           /\ Upper(new, root[v], a) = Upper(tb, root[v], a)
<1>1. PICK x, y, my :
         x = Upper(tb, root[v], a) /\ y = Upper(tb, root[w], b) /\ my = MegaEntry(tb, root[w], b)
  OBVIOUS
<1>2. /\ x.kind = "Branch" /\ Written(tb, new, x.to, MegaIndex(a), e)
      /\ e.kind = "Branch" => tb[e.to] = EmptyTable /\ e.to # x.to
  BY <1>1
<1>3. /\ root[v] \in Page /\ root[w] \in Page /\ x.to \in Page /\ x.to # root[w] /\ x.to # root[v]
      /\ x.to < n /\ n \in Nat /\ x.to \in Nat
      /\ RootIndex(b) \in Index /\ MegaIndex(a) \in Index /\ MegaIndex(b) \in Index
      /\ PageIndex(b) \in Index
  <2>1. \A u \in AddressSpaces : x.to \in Page /\ x.to < n /\ x.to # root[u]
    BY <1>2, <1>1, PathFacts
  <2> QED
    BY <2>1, IndexInTable DEF Forest, Page
<1>4. /\ y.kind = "Branch" => /\ y.to \in Page /\ my = tb[y.to][MegaIndex(b)]
                              /\ y.to = x.to => w = v /\ RootIndex(a) = RootIndex(b)
      /\ y.kind # "Branch" => my = Invalid
  <2>1. y.kind = "Branch" => y.to \in Page /\ my = tb[y.to][MegaIndex(b)]
    BY <1>1, PathFacts
  <2>2. y.kind = "Branch" /\ y.to = x.to => w = v /\ RootIndex(a) = RootIndex(b)
    BY <1>2, <1>1, PathFacts
  <2>3. y.kind # "Branch" => my = Invalid
    BY <1>1 DEF MegaEntry, Upper
  <2> QED
    BY <2>1, <2>2, <2>3
<1>5. /\ my.kind = "Branch" => /\ my.to \in Page /\ y.kind = "Branch" /\ my.to # x.to
                               /\ PageEntry(tb, root[w], b) = tb[my.to][PageIndex(b)]
      /\ my.kind # "Branch" => PageEntry(tb, root[w], b) = Invalid
  BY <1>2, <1>1, PathFacts DEF PageEntry
<1>6. /\ \A p \in Page : p # x.to => new[p] = tb[p]
      /\ \A i \in Index : i # MegaIndex(a) => new[x.to][i] = tb[x.to][i]
      /\ new[x.to][MegaIndex(a)] = e
  BY <1>2, <1>3 DEF Forest, Written
<1>7. new[root[w]] = tb[root[w]] /\ new[root[v]] = tb[root[v]]
  BY <1>3, <1>6
<1>8. Upper(new, root[v], a) = Upper(tb, root[v], a)
  BY <1>7 DEF Upper
<1>9. CASE w = v /\ SamePlace("Mega", a, b)
  <2>1. y = x /\ MegaIndex(a) = MegaIndex(b)
    BY <1>2, <1>1, <1>9 DEF SamePlace, Upper
  <2>2. MegaEntry(new, root[w], b) = e
    BY <1>1, <1>6, <1>7, <2>1 DEF MegaEntry, Upper
  <2>3. e.kind = "Branch" => new[e.to][PageIndex(b)] = Invalid
    <3>1. SUFFICES ASSUME e.kind = "Branch"
                   PROVE  new[e.to][PageIndex(b)] = Invalid
      OBVIOUS
    <3>2. e.to \in Page /\ tb[e.to] = EmptyTable /\ e.to # x.to
      BY <1>2, <3>1, LeafKinds
    <3> QED
      BY <1>3, <1>6, <3>2, LeafKinds
  <2> QED
    BY <1>8, <1>9, <2>2, <2>3 DEF PageEntry
<1>10. CASE ~(w = v /\ SamePlace("Mega", a, b))
  <2>1. y.kind = "Branch" => new[y.to][MegaIndex(b)] = tb[y.to][MegaIndex(b)]
    BY <1>3, <1>4, <1>6, <1>10 DEF SamePlace
  <2>2. MegaEntry(new, root[w], b) = my
    BY <1>1, <1>4, <1>7, <2>1 DEF MegaEntry, Upper
  <2>3. PageEntry(new, root[w], b) = PageEntry(tb, root[w], b)
    BY <1>5, <1>6, <2>2 DEF PageEntry
  <2> QED
    BY <1>1, <1>8, <1>10, <2>2, <2>3
<1> QED
  BY <1>9, <1>10

\* Nothing was under an entry that is no branch.
LEMMA MegaWritten ==
    ASSUME NEW tb, NEW n, Forest(tb, n), NEW v \in AddressSpaces, NEW w \in AddressSpaces,
           NEW a \in Nat, NEW b \in Nat, Upper(tb, root[v], a).kind = "Branch",
           MegaEntry(tb, root[v], a).kind # "Branch",
           NEW e \in Entry,
           e.kind = "Branch" => tb[e.to] = EmptyTable /\ e.to # Upper(tb, root[v], a).to,
           NEW new, Written(tb, new, Upper(tb, root[v], a).to, MegaIndex(a), e)
    PROVE  /\ MegaEntry(new, root[w], b) =
                 IF w = v /\ SamePlace("Mega", a, b) THEN e ELSE MegaEntry(tb, root[w], b)
           /\ PageEntry(new, root[w], b) = PageEntry(tb, root[w], b)
           /\ Upper(new, root[v], a) = Upper(tb, root[v], a)
<1>0. PICK x : /\ x = Upper(tb, root[v], a) /\ x.kind = "Branch"
               /\ e.kind = "Branch" => tb[e.to] = EmptyTable /\ e.to # x.to
               /\ Written(tb, new, x.to, MegaIndex(a), e)
  OBVIOUS
<1>1. /\ MegaEntry(new, root[w], b) =
            IF w = v /\ SamePlace("Mega", a, b) THEN e ELSE MegaEntry(tb, root[w], b)
      /\ PageEntry(new, root[w], b) =
            IF w = v /\ SamePlace("Mega", a, b) THEN Invalid ELSE PageEntry(tb, root[w], b)
      /\ Upper(new, root[v], a) = x
  BY <1>0, MegaReplaced
<1>2. ASSUME w = v, SamePlace("Mega", a, b)
      PROVE  PageEntry(tb, root[w], b) = Invalid
  <2>1. MegaEntry(tb, root[w], b) = MegaEntry(tb, root[v], a)
    BY <1>2 DEF SamePlace, MegaEntry
  <2> QED
    BY <2>1 DEF PageEntry
<1>3. PageEntry(new, root[w], b) = PageEntry(tb, root[w], b)
  <2>1. CASE w = v /\ SamePlace("Mega", a, b)
    BY <1>1, <1>2, <2>1
  <2>2. CASE ~(w = v /\ SamePlace("Mega", a, b))
    BY <1>1, <2>2
  <2> QED
    BY <2>1, <2>2
<1> QED
  BY <1>0, <1>1, <1>3

\* And so in a table of the last level.
LEMMA PageWritten ==
    ASSUME NEW tb, NEW n, Forest(tb, n), NEW v \in AddressSpaces, NEW w \in AddressSpaces,
           NEW a \in Nat, NEW b \in Nat, NEW m, m = MegaEntry(tb, root[v], a), m.kind = "Branch",
           NEW e, NEW new, Written(tb, new, m.to, PageIndex(a), e)
    PROVE  /\ MegaEntry(new, root[w], b) = MegaEntry(tb, root[w], b)
           /\ PageEntry(new, root[w], b) =
                 IF w = v /\ SamePlace("Small", a, b) THEN e ELSE PageEntry(tb, root[w], b)
<1>1. PICK y, my : y = Upper(tb, root[w], b) /\ my = MegaEntry(tb, root[w], b)
  OBVIOUS
<1>2. /\ root[w] \in Page /\ m.to \in Page /\ m.to # root[w]
      /\ PageIndex(a) \in Index /\ PageIndex(b) \in Index
  BY IndexInTable, PathFacts
<1>3. /\ y.kind = "Branch" => y.to \in Page /\ m.to # y.to /\ my = tb[y.to][MegaIndex(b)]
      /\ y.kind # "Branch" => my = Invalid
  <2>1. y.kind = "Branch" => m.to # y.to
    BY <1>1, PathFacts
  <2>2. y.kind = "Branch" => y.to \in Page
    BY <1>1, PathFacts
  <2> QED
    BY <1>1, <2>1, <2>2 DEF MegaEntry, Upper
<1>4. /\ my.kind = "Branch" => /\ my.to \in Page /\ PageEntry(tb, root[w], b) = tb[my.to][PageIndex(b)]
                               /\ m.to = my.to => v = w /\ SamePlace("Mega", a, b)
      /\ my.kind # "Branch" => PageEntry(tb, root[w], b) = Invalid
  BY <1>1, PathFacts DEF PageEntry
<1>5. /\ \A p \in Page : p # m.to => new[p] = tb[p]
      /\ \A i \in Index : i # PageIndex(a) => new[m.to][i] = tb[m.to][i]
      /\ new[m.to][PageIndex(a)] = e
  BY <1>2 DEF Forest, Written
<1>6. MegaEntry(new, root[w], b) = my
  BY <1>1, <1>2, <1>3, <1>5 DEF MegaEntry, Upper
<1>7. CASE w = v /\ SamePlace("Small", a, b)
  <2>1. my = m /\ PageIndex(a) = PageIndex(b)
    BY <1>1, <1>7 DEF SamePlace, MegaEntry, Upper
  <2> QED
    BY <1>1, <1>5, <1>6, <1>7, <2>1 DEF PageEntry
<1>8. CASE ~(w = v /\ SamePlace("Small", a, b))
  <2>1. my.kind = "Branch" => new[my.to][PageIndex(b)] = tb[my.to][PageIndex(b)]
    BY <1>2, <1>4, <1>5, <1>8 DEF SamePlace
  <2>2. PageEntry(new, root[w], b) = PageEntry(tb, root[w], b)
    BY <1>4, <1>6, <2>1 DEF PageEntry
  <2> QED
    BY <1>1, <1>6, <1>8, <2>2
<1> QED
  BY <1>7, <1>8

(***************************************************************************)
(* What a walk that maps or unmaps does to what walks find                 *)
(***************************************************************************)

\* Among all leaves only that of one size, in one place, is another one.
LeavesSet(tb, new, size, v, a, e) ==
    \A s \in Sizes, w \in AddressSpaces, b \in Nat :
       LeafAt(s, new, root[w], b) =
          IF s = size /\ w = v /\ SamePlace(size, a, b) THEN e ELSE LeafAt(s, tb, root[w], b)

SameEntries(tb, new) ==
    \A w \in AddressSpaces, b \in Nat :
       /\ MegaEntry(new, root[w], b) = MegaEntry(tb, root[w], b)
       /\ PageEntry(new, root[w], b) = PageEntry(tb, root[w], b)

\* The pages some branch names.
Linkeds(tb) == {q \in Page : \E p \in Page, i \in Index : Linked(tb, p, i) /\ tb[p][i].to = q}

\* Writing over an entry that is no branch unlinks nothing.
LEMMA LinksWritten ==
    ASSUME NEW tb \in [Page -> [Index -> Entry]], NEW p \in Page, NEW i \in Index, ~Linked(tb, p, i),
           NEW e \in Entry, NEW new, Written(tb, new, p, i, e)
    PROVE  Linkeds(new) = Linkeds(tb) \cup (IF e.kind = "Branch" THEN {e.to} ELSE {})
<1>1. \A q \in Page, j \in Index : new[q][j] = IF q = p /\ j = i THEN e ELSE tb[q][j]
  BY DEF Written
<1>2. \A q \in Page, j \in Index :
         Linked(new, q, j) <=> \/ q = p /\ j = i /\ e.kind = "Branch"
                               \/ Linked(tb, q, j) /\ new[q][j] = tb[q][j]
  BY <1>1 DEF Linked
<1>3. ASSUME NEW q \in Page
      PROVE  q \in Linkeds(new) <=> q \in Linkeds(tb) \/ (e.kind = "Branch" /\ q = e.to)
  <2>1. ASSUME NEW x \in Page, NEW j \in Index, Linked(tb, x, j), tb[x][j].to = q
        PROVE  q \in Linkeds(new)
    <3>1. Linked(new, x, j) /\ new[x][j] = tb[x][j]
      BY <1>1, <2>1 DEF Linked
    <3> QED
      BY <2>1, <3>1 DEF Linkeds
  <2>2. e.kind = "Branch" /\ q = e.to => q \in Linkeds(new)
    BY <1>1, <1>2 DEF Linkeds
  <2>3. q \in Linkeds(new) => q \in Linkeds(tb) \/ (e.kind = "Branch" /\ q = e.to)
    BY <1>1, <1>2 DEF Linkeds
  <2>4. q \in Linkeds(tb) => q \in Linkeds(new)
    BY <2>1 DEF Linkeds
  <2> QED
    BY <2>2, <2>3, <2>4
<1>4. e.kind = "Branch" => e.to \in Page
  BY EntryKinds
<1>5. \A q : q \in Linkeds(new) => q \in Page
  BY DEF Linkeds
<1>6. \A q : q \in Linkeds(tb) => q \in Page
  BY DEF Linkeds
<1> QED
  BY <1>3, <1>4, <1>5, <1>6

LEMMA RootDescended ==
    ASSUME NEW tb, NEW n, Forest(tb, n), n \in Page, NEW v \in AddressSpaces, NEW a \in Nat,
           NEW d, d = Descend(tb, root[v], RootIndex(a), n)
    PROVE  /\ d.used \in {0, 1} /\ Forest(d.tb, n + d.used)
           /\ d.tb[root[v]][RootIndex(a)].kind = "Branch"
           /\ d.tb[root[v]][RootIndex(a)].to = d.page
           /\ SameEntries(tb, d.tb)
           /\ Linkeds(d.tb) = Linkeds(tb) \cup (n .. n + d.used - 1)
<1>1. root[v] \in Page /\ root[v] < n /\ n \in Nat /\ RootIndex(a) \in Index
  BY IndexInTable DEF Forest, Page
<1>2. d.used \in {0, 1} /\ Forest(d.tb, n + d.used)
  BY <1>1, DescendForest
<1>3. CASE Linked(tb, root[v], RootIndex(a))
  <2>1. d = [tb |-> tb, page |-> tb[root[v]][RootIndex(a)].to, used |-> 0]
    BY <1>3 DEF Descend, Linked
  <2>2. n .. n + d.used - 1 = {}
    BY <1>1, <2>1
  <2> QED
    BY <1>2, <1>3, <2>1, <2>2 DEF SameEntries, Linked
<1>4. CASE ~Linked(tb, root[v], RootIndex(a))
  <2>1. PICK new : Written(tb, new, root[v], RootIndex(a), Branch(n))
    BY DEF Written
  <2>2. d = [tb |-> new, page |-> n, used |-> 1]
    BY <1>4, <2>1 DEF Descend, Linked, Written
  <2>3. new[root[v]][RootIndex(a)] = Branch(n)
    BY <1>1, <2>1 DEF Forest, Written
  <2>4. SameEntries(tb, new)
    BY <1>4, <2>1, RootLinked DEF SameEntries, Linked
  <2>5. Linkeds(new) = Linkeds(tb) \cup {n}
    <3>1. tb \in [Page -> [Index -> Entry]]
      BY DEF Forest
    <3>2. Branch(n) \in Entry /\ Branch(n).kind = "Branch" /\ Branch(n).to = n
      BY EntryKinds
    <3>3. PICK e \in Entry : e = Branch(n)
      BY <3>2
    <3>4. Written(tb, new, root[v], RootIndex(a), e)
      BY <2>1, <3>3
    <3>5. Linkeds(new) = Linkeds(tb) \cup (IF e.kind = "Branch" THEN {e.to} ELSE {})
      BY <1>1, <1>4, <3>1, <3>4, LinksWritten
    <3> QED
      BY <3>2, <3>3, <3>5
  <2>6. n .. n + d.used - 1 = {n}
    BY <1>1, <2>2
  <2> QED
    BY <1>2, <2>2, <2>3, <2>4, <2>5, <2>6, LeafKinds
<1> QED
  BY <1>3, <1>4

LEMMA MegaDescended ==
    ASSUME NEW tb, NEW n, Forest(tb, n), n \in Page, NEW v \in AddressSpaces, NEW a \in Nat,
           NEW x, x = Upper(tb, root[v], a), x.kind = "Branch",
           NEW m, m = MegaEntry(tb, root[v], a), m.kind # "Leaf",
           NEW d, d = Descend(tb, x.to, MegaIndex(a), n)
    PROVE  /\ d.used \in {0, 1} /\ Forest(d.tb, n + d.used)
           /\ MegaEntry(d.tb, root[v], a).kind = "Branch"
           /\ MegaEntry(d.tb, root[v], a).to = d.page
           /\ \A s \in Sizes, w \in AddressSpaces, b \in Nat :
                 LeafAt(s, d.tb, root[w], b) = LeafAt(s, tb, root[w], b)
           /\ Linkeds(d.tb) = Linkeds(tb) \cup (n .. n + d.used - 1)
<1>1. n \in Nat /\ MegaIndex(a) \in Index
  BY IndexInTable DEF Page
<1>2. x.to \in Page /\ x.to < n /\ m = tb[x.to][MegaIndex(a)] /\ m \in Entry
  BY PathFacts DEF Upper
<1>3. d.used \in {0, 1} /\ Forest(d.tb, n + d.used)
  BY <1>1, <1>2, DescendForest
<1>4. CASE m.kind = "Branch"
  <2>1. d = [tb |-> tb, page |-> m.to, used |-> 0]
    BY <1>2, <1>4 DEF Descend
  <2>2. n .. n + d.used - 1 = {}
    BY <1>1, <2>1
  <2> QED
    BY <1>3, <1>4, <2>1, <2>2
<1>5. CASE m.kind # "Branch"
  <2>1. PICK e \in Entry : e = Branch(n)
    BY EntryKinds
  <2>2. e.kind = "Branch" /\ e.to = n /\ tb[e.to] = EmptyTable /\ e.to # x.to
    BY <1>1, <1>2, <2>1, EntryKinds DEF Forest, Page
  <2>3. PICK new : Written(tb, new, x.to, MegaIndex(a), e)
    BY DEF Written
  <2>4. d = [tb |-> new, page |-> n, used |-> 1]
    BY <1>2, <1>5, <2>1, <2>3 DEF Descend, Written
  <2>5. ASSUME NEW w \in AddressSpaces, NEW b \in Nat
        PROVE  /\ MegaEntry(new, root[w], b) =
                     IF w = v /\ SamePlace("Mega", a, b) THEN e ELSE MegaEntry(tb, root[w], b)
               /\ PageEntry(new, root[w], b) = PageEntry(tb, root[w], b)
    BY <1>5, <2>2, <2>3, MegaWritten
  <2>6. MegaEntry(new, root[v], a) = e
    BY <2>5 DEF SamePlace
  <2>7. ASSUME NEW s \in Sizes, NEW w \in AddressSpaces, NEW b \in Nat
        PROVE  LeafAt(s, new, root[w], b) = LeafAt(s, tb, root[w], b)
    <3>1. w = v /\ SamePlace("Mega", a, b) => MegaEntry(tb, root[w], b) = m
      BY DEF SamePlace, MegaEntry
    <3>2. \/ MegaEntry(new, root[w], b) = MegaEntry(tb, root[w], b)
          \/ /\ MegaEntry(new, root[w], b).kind # "Leaf"
             /\ MegaEntry(tb, root[w], b).kind # "Leaf"
      BY <2>2, <2>5, <3>1
    <3>3. PageEntry(new, root[w], b) = PageEntry(tb, root[w], b)
      BY <2>5
    <3> QED
      BY <3>2, <3>3 DEF LeafAt
  <2>8. Linkeds(new) = Linkeds(tb) \cup {n}
    <3>1. /\ tb \in [Page -> [Index -> Entry]] /\ ~Linked(tb, x.to, MegaIndex(a))
          /\ MegaIndex(a) \in Index /\ x.to \in Page
      BY <1>1, <1>2, <1>5 DEF Forest, Linked
    <3>2. Linkeds(new) = Linkeds(tb) \cup (IF e.kind = "Branch" THEN {e.to} ELSE {})
      BY <2>3, <3>1, LinksWritten
    <3> QED
      BY <2>2, <3>2
  <2>9. n .. n + d.used - 1 = {n}
    BY <1>1, <2>4
  <2> QED
    BY <1>3, <2>2, <2>4, <2>6, <2>7, <2>8, <2>9
<1> QED
  BY <1>4, <1>5

\* A leaf of a megapage, or none, in the place of no table of pages.
LEMMA MegaSet ==
    ASSUME NEW tb, NEW n, Forest(tb, n), NEW v \in AddressSpaces, NEW a \in Nat,
           NEW x, x = Upper(tb, root[v], a), x.kind = "Branch",
           MegaEntry(tb, root[v], a).kind # "Branch", NEW e \in Entry, e.kind = "Leaf" \/ e = Invalid,
           NEW new, Written(tb, new, x.to, MegaIndex(a), e)
    PROVE  LeavesSet(tb, new, "Mega", v, a, e) /\ Linkeds(new) = Linkeds(tb)
<1>1. e.kind # "Branch"
  BY LeafKinds
<1>2. ASSUME NEW w \in AddressSpaces, NEW b \in Nat
      PROVE  /\ MegaEntry(new, root[w], b) =
                   IF w = v /\ SamePlace("Mega", a, b) THEN e ELSE MegaEntry(tb, root[w], b)
             /\ PageEntry(new, root[w], b) = PageEntry(tb, root[w], b)
  BY <1>1, MegaWritten
<1>3. LeavesSet(tb, new, "Mega", v, a, e)
  BY <1>2, LeafKinds DEF LeavesSet, LeafAt, Sizes
<1>4. x.to \in Page /\ MegaIndex(a) \in Index /\ ~Linked(tb, x.to, MegaIndex(a))
  BY IndexInTable, PathFacts DEF Linked, Upper
<1>5. tb \in [Page -> [Index -> Entry]]
  BY DEF Forest
<1>6. Linkeds(new) = Linkeds(tb) \cup (IF e.kind = "Branch" THEN {e.to} ELSE {})
  BY <1>4, <1>5, LinksWritten
<1> QED
  BY <1>1, <1>3, <1>6

\* And of a page.
LEMMA PageSet ==
    ASSUME NEW tb, NEW n, Forest(tb, n), NEW v \in AddressSpaces, NEW a \in Nat,
           NEW m, m = MegaEntry(tb, root[v], a), m.kind = "Branch",
           PageEntry(tb, root[v], a).kind # "Branch", NEW e \in Entry, e.kind # "Branch",
           NEW new, Written(tb, new, m.to, PageIndex(a), e)
    PROVE  LeavesSet(tb, new, "Small", v, a, e) /\ Linkeds(new) = Linkeds(tb)
<1>1. \A w \in AddressSpaces, b \in Nat :
         /\ MegaEntry(new, root[w], b) = MegaEntry(tb, root[w], b)
         /\ PageEntry(new, root[w], b) =
               IF w = v /\ SamePlace("Small", a, b) THEN e ELSE PageEntry(tb, root[w], b)
  BY PageWritten
<1>2. LeavesSet(tb, new, "Small", v, a, e)
  BY <1>1 DEF LeavesSet, LeafAt, Sizes
<1>3. m.to \in Page /\ PageIndex(a) \in Index /\ ~Linked(tb, m.to, PageIndex(a))
  BY IndexInTable, PathFacts DEF Linked
<1>4. tb \in [Page -> [Index -> Entry]]
  BY DEF Forest
<1>5. Linkeds(new) = Linkeds(tb) \cup (IF e.kind = "Branch" THEN {e.to} ELSE {})
  BY <1>3, <1>4, LinksWritten
<1> QED
  BY <1>2, <1>5

\* The walks of Map set the leaf of the frame, where none was, and link the pages they use.
LEMMA MegapageLeaves ==
    ASSUME NEW tb, NEW n, Forest(tb, n), n \in Page, NEW v \in AddressSpaces, NEW a \in Nat,
           NEW paddr \in Nat, MegaEntry(tb, root[v], a).kind # "Branch",
           NEW walk, walk = MapMegapage(tb, root[v], a, paddr, n)
    PROVE  /\ LeavesSet(tb, walk.tb, "Mega", v, a, Leaf(paddr))
           /\ Linkeds(walk.tb) = Linkeds(tb) \cup (n .. n + walk.used - 1)
<1>1. PICK d : d = Descend(tb, root[v], RootIndex(a), n)
  OBVIOUS
<1>2. PICK t : t = d.tb
  OBVIOUS
<1>3. /\ Forest(t, n + d.used) /\ Upper(t, root[v], a).kind = "Branch"
      /\ Upper(t, root[v], a).to = d.page /\ SameEntries(tb, t)
      /\ Linkeds(t) = Linkeds(tb) \cup (n .. n + d.used - 1)
  BY <1>1, <1>2, RootDescended DEF Upper
<1>4. PICK e \in Entry : e = Leaf(paddr)
  BY EntryKinds
<1>5. PICK new : Written(t, new, d.page, MegaIndex(a), e)
  BY DEF Written
<1>6. walk = [tb |-> new, used |-> d.used]
  BY <1>1, <1>2, <1>4, <1>5 DEF MapMegapage, Written
<1>7. MegaEntry(t, root[v], a).kind # "Branch"
  BY <1>3 DEF SameEntries
<1>8. LeavesSet(t, new, "Mega", v, a, e) /\ Linkeds(new) = Linkeds(t)
  <2>1. PICK x : x = Upper(t, root[v], a) /\ x.kind = "Branch" /\ x.to = d.page
    BY <1>3
  <2>2. Written(t, new, x.to, MegaIndex(a), e)
    BY <1>5, <2>1
  <2>3. e.kind = "Leaf"
    BY <1>4, LeafKinds
  <2> QED
    BY <1>3, <1>7, <2>1, <2>2, <2>3, MegaSet
<1>9. LeavesSet(tb, new, "Mega", v, a, e)
  BY <1>3, <1>8 DEF LeavesSet, LeafAt, SameEntries
<1> QED
  BY <1>3, <1>4, <1>6, <1>8, <1>9

LEMMA PageLeaves ==
    ASSUME NEW tb, NEW n, Forest(tb, n), n \in Page, n + 1 \in Page, NEW v \in AddressSpaces,
           NEW a \in Nat, NEW paddr \in Nat, MegaEntry(tb, root[v], a).kind # "Leaf",
           PageEntry(tb, root[v], a).kind # "Branch",
           NEW walk, walk = MapPage(tb, root[v], a, paddr, n)
    PROVE  /\ LeavesSet(tb, walk.tb, "Small", v, a, Leaf(paddr))
           /\ Linkeds(walk.tb) = Linkeds(tb) \cup (n .. n + walk.used - 1)
<1>1. PICK d : d = Descend(tb, root[v], RootIndex(a), n)
  OBVIOUS
<1>2. PICK t : t = d.tb
  OBVIOUS
<1>3. /\ d.used \in {0, 1} /\ Forest(t, n + d.used) /\ Upper(t, root[v], a).kind = "Branch"
      /\ Upper(t, root[v], a).to = d.page /\ SameEntries(tb, t)
      /\ Linkeds(t) = Linkeds(tb) \cup (n .. n + d.used - 1)
  BY <1>1, <1>2, RootDescended DEF Upper
<1>4. PICK m \in Page : m = n + d.used
  BY <1>3 DEF Page
<1>5. PICK c : c = Descend(t, d.page, MegaIndex(a), m)
  OBVIOUS
<1>6. PICK u : u = c.tb
  OBVIOUS
<1>7. MegaEntry(t, root[v], a).kind # "Leaf"
  BY <1>3 DEF SameEntries
<1>8. /\ c.used \in {0, 1} /\ Forest(u, m + c.used)
      /\ MegaEntry(u, root[v], a).kind = "Branch"
      /\ MegaEntry(u, root[v], a).to = c.page
      /\ \A s \in Sizes, w \in AddressSpaces, b \in Nat :
            LeafAt(s, u, root[w], b) = LeafAt(s, t, root[w], b)
      /\ Linkeds(u) = Linkeds(t) \cup (m .. m + c.used - 1)
  <2>1. PICK x : x = Upper(t, root[v], a) /\ x.kind = "Branch" /\ x.to = d.page
    BY <1>3
  <2>2. c = Descend(t, x.to, MegaIndex(a), m) /\ Forest(t, m)
    BY <1>3, <1>4, <1>5, <2>1
  <2> QED
    BY <1>6, <1>7, <2>1, <2>2, MegaDescended
<1>9. PICK e \in Entry : e = Leaf(paddr) /\ e.kind = "Leaf"
  BY EntryKinds, LeafKinds
<1>10. PICK new : Written(u, new, c.page, PageIndex(a), e)
  BY DEF Written
<1>11. walk = [tb |-> new, used |-> d.used + c.used]
  BY <1>1, <1>2, <1>4, <1>5, <1>6, <1>9, <1>10 DEF MapPage, Written
<1>12. LeavesSet(u, new, "Small", v, a, e) /\ Linkeds(new) = Linkeds(u)
  <2>1. PICK x : x = MegaEntry(u, root[v], a) /\ x.kind = "Branch" /\ x.to = c.page
    BY <1>8
  <2>2. Written(u, new, x.to, PageIndex(a), e)
    BY <1>10, <2>1
  <2>3. PageEntry(u, root[v], a).kind # "Branch"
    <3>1. PageEntry(u, root[v], a) = PageEntry(t, root[v], a)
      BY <1>8 DEF LeafAt, Sizes
    <3>2. PageEntry(t, root[v], a) = PageEntry(tb, root[v], a)
      BY <1>3 DEF SameEntries
    <3> QED
      BY <3>1, <3>2
  <2> QED
    BY <1>8, <1>9, <2>1, <2>2, <2>3, PageSet
<1>13. LeavesSet(tb, new, "Small", v, a, e)
  <2>1. \A s \in Sizes, w \in AddressSpaces, b \in Nat :
           LeafAt(s, u, root[w], b) = LeafAt(s, tb, root[w], b)
    BY <1>3, <1>8 DEF LeafAt, SameEntries
  <2> QED
    BY <1>12, <2>1 DEF LeavesSet
<1>14. Linkeds(new) = Linkeds(tb) \cup (n .. n + walk.used - 1)
  <2>1. (n .. n + d.used - 1) \cup (m .. m + c.used - 1) = n .. n + (d.used + c.used) - 1
    BY <1>3, <1>4, <1>8 DEF Page
  <2> QED
    BY <1>3, <1>8, <1>11, <1>12, <2>1
<1> QED
  BY <1>9, <1>11, <1>13, <1>14

\* And the one of Unmap takes a leaf away.
LEMMA UnmapLeaves ==
    ASSUME NEW tb, NEW n, Forest(tb, n), NEW v \in AddressSpaces, NEW a \in Nat,
           NEW size \in Sizes, LeafAt(size, tb, root[v], a).kind = "Leaf",
           NEW new, new = UnmapLeaf(tb, root[v], a)
    PROVE  LeavesSet(tb, new, size, v, a, Invalid) /\ Linkeds(new) = Linkeds(tb)
<1>1. PICK x, m : x = Upper(tb, root[v], a) /\ m = MegaEntry(tb, root[v], a)
  OBVIOUS
<1>2. /\ x.kind = "Branch" => m = tb[x.to][MegaIndex(a)]
      /\ x.kind # "Branch" => m = Invalid
  BY <1>1 DEF Upper, MegaEntry
<1>3. PICK e \in Entry : e = Invalid
  BY EntryKinds
<1>4. new = IF x.kind # "Branch" THEN tb
            ELSE IF m.kind = "Leaf" THEN [tb EXCEPT ![x.to][MegaIndex(a)] = e]
            ELSE IF m.kind = "Branch" THEN [tb EXCEPT ![m.to][PageIndex(a)] = e]
            ELSE tb
  BY <1>1, <1>2, <1>3 DEF UnmapLeaf, Upper
<1>5. CASE size = "Mega"
  <2>1. m.kind = "Leaf" /\ x.kind = "Branch"
    BY <1>1, <1>2, <1>5, LeafKinds DEF LeafAt
  <2>2. Written(tb, new, x.to, MegaIndex(a), e)
    BY <1>4, <2>1 DEF Written
  <2> QED
    BY <1>1, <1>3, <1>5, <2>1, <2>2, MegaSet
<1>6. CASE size = "Small"
  <2>1. PageEntry(tb, root[v], a).kind = "Leaf"
    BY <1>6 DEF LeafAt
  <2>2. m.kind = "Branch" /\ x.kind = "Branch"
    BY <1>1, <1>2, <2>1, LeafKinds DEF PageEntry
  <2>3. Written(tb, new, m.to, PageIndex(a), e)
    BY <1>4, <2>2 DEF Written
  <2> QED
    BY <1>1, <1>3, <1>6, <2>1, <2>2, <2>3, PageSet, LeafKinds
<1> QED
  BY <1>5, <1>6 DEF Sizes

(***************************************************************************)
(* Leaves and records.  A leaf is written together with a frame's record   *)
(* of its place, and goes no later than the record does; only the kernel's *)
(* own leaves are recorded by no frame, and no record is in their place.   *)
(* This asks nothing of the programs.                                      *)
(***************************************************************************)
At(f, i) == mapping[f].mapped_at[i]

InPlace(f, i, v, size, a) ==
    At(f, i) # None /\ At(f, i)[1] = v /\ SamePlace(size, At(f, i)[2], a)

\* Where the loader has put a leaf of the kernel.
KernelAt(size, v, a) ==
    v \in BootObjects.VSpace /\ size = "Mega" /\ SamePlace("Mega", KernelBase, a)

LeavesOwned ==
    \A v \in AddressSpaces, a \in Nat, size \in Sizes :
       LeafAt(size, table, root[v], a) # Invalid /\ ~KernelAt(size, v, a) =>
       \E f \in Frames, i \in 1 .. MaxFrameMappings :
          /\ mapping[f].size = size /\ InPlace(f, i, v, size, a)
          /\ LeafAt(size, table, root[v], a) = Leaf(mapping[f].paddr)

KernelKept ==
    \A v \in BootObjects.VSpace :
       v \in AddressSpaces /\ LeafAt("Mega", table, root[v], KernelBase) = Leaf(KernelBase)

RecordsOffKernel ==
    \A f \in Frames, i \in 1 .. MaxFrameMappings :
       At(f, i) # None => ~KernelAt("Mega", At(f, i)[1], At(f, i)[2])

Owned == LeavesOwned /\ KernelKept /\ RecordsOffKernel

\* A walk takes two addresses in the same place to the same leaf.
LEMMA PlaceShared ==
    ASSUME NEW tb, NEW r, NEW size \in Sizes, NEW a, NEW b, SamePlace(size, a, b)
    PROVE  LeafAt(size, tb, r, a) = LeafAt(size, tb, r, b)
<1>1. MegaEntry(tb, r, a) = MegaEntry(tb, r, b)
  BY DEF SamePlace, MegaEntry
<1>2. size = "Small" => PageEntry(tb, r, a) = PageEntry(tb, r, b)
  BY <1>1 DEF SamePlace, PageEntry
<1> QED
  BY <1>1, <1>2 DEF LeafAt

LEMMA PlaceEqual ==
    ASSUME NEW size, NEW a, NEW b
    PROVE  /\ SamePlace(size, a, a)
           /\ SamePlace(size, a, b) => SamePlace(size, b, a)
           /\ \A c : SamePlace(size, a, b) /\ SamePlace(size, b, c) => SamePlace(size, a, c)
  BY DEF SamePlace

\* Setting or clearing one of a frame's records leaves the others alone.
OneRecordSet(f, i, x) ==
    /\ Frames' = Frames /\ AddressSpaces' = AddressSpaces
    /\ At(f, i)' = x
    /\ \A g \in Frames, j \in 1 .. MaxFrameMappings :
          ~(g = f /\ j = i) => At(g, j)' = At(g, j)
    /\ \A g \in Frames : /\ mapping'[g].size = mapping[g].size
                         /\ mapping'[g].paddr = mapping[g].paddr
                         /\ mapping[g].size \in Sizes /\ mapping[g].paddr \in Nat
    /\ \A g \in Frames, j \in 1 .. MaxFrameMappings :
          At(g, j) # None => At(g, j)[1] \in VSPACE /\ At(g, j)[2] \in Nat

LEMMA RecordSet ==
    ASSUME TablesInv, NEW f \in Frames, NEW i \in 1 .. MaxFrameMappings, NEW x,
           mapping' = [mapping EXCEPT ![f].mapped_at[i] = x], taken' = taken
    PROVE  OneRecordSet(f, i, x)
<1>1. \A g \in Frames : g \in FRAME /\ mapping[g] \in FrameObject
  BY SpacesInPool DEF TablesInv
<1>2. mapping' = [mapping EXCEPT ![f] = [mapping[f] EXCEPT !.mapped_at[i] = x]]
  OBVIOUS
<1>3. \A g \in Frames \ {f} : mapping'[g] = mapping[g]
  BY <1>1, <1>2 DEF TablesInv
<1>4. mapping'[f] = [mapping[f] EXCEPT !.mapped_at[i] = x]
  BY <1>1, <1>2 DEF TablesInv
<1>5. /\ mapping'[f].size = mapping[f].size /\ mapping'[f].paddr = mapping[f].paddr
      /\ mapping'[f].mapped_at[i] = x
      /\ \A j \in 1 .. MaxFrameMappings : j # i => mapping'[f].mapped_at[j] = mapping[f].mapped_at[j]
  <2>1. PICK m \in FrameObject : m = mapping[f]
    BY <1>1
  <2>2. PICK at \in [1 .. MaxFrameMappings -> {None} \cup (VSPACE \X Nat)] : at = m.mapped_at
    BY DEF FrameObject
  <2>3. PICK new : new = [at EXCEPT ![i] = x]
    OBVIOUS
  <2>4. mapping'[f] = [m EXCEPT !.mapped_at = new]
    BY <1>4, <2>1, <2>2, <2>3
  <2>5. mapping'[f].size = m.size /\ mapping'[f].paddr = m.paddr /\ mapping'[f].mapped_at = new
    BY <2>4 DEF FrameObject
  <2>6. new[i] = x /\ \A j \in 1 .. MaxFrameMappings : j # i => new[j] = at[j]
    BY <2>2, <2>3
  <2> QED
    BY <2>1, <2>2, <2>5, <2>6
<1>6. \A g \in Frames, j \in 1 .. MaxFrameMappings :
         At(g, j) # None => At(g, j)[1] \in VSPACE /\ At(g, j)[2] \in Nat
  BY <1>1 DEF At, FrameObject
<1>7. \A g \in Frames : mapping[g].size \in Sizes /\ mapping[g].paddr \in Nat
  BY <1>1 DEF FrameObject, Sizes
<1> QED
  BY <1>3, <1>5, <1>6, <1>7 DEF OneRecordSet, At, Frames, AddressSpaces

\* Frames of one size with one address are one frame.
LEMMA FrameAt ==
    ASSUME FrameInv, NEW f \in Frames, NEW g \in Frames,
           mapping[f].size = mapping[g].size, mapping[f].paddr = mapping[g].paddr
    PROVE  f = g
<1>1. mapping[f].paddr \in Nat /\ Bytes(mapping[f].size) \in Nat \ {0}
  BY FrameBytes DEF FrameInv, FramesMade, Made
<1>2. mapping[f].paddr \in Chunk(f) /\ mapping[f].paddr \in Chunk(g)
  BY <1>1 DEF Chunk
<1> QED
  BY <1>2 DEF FrameInv, FramesDisjoint

\* What an address stands for, by the leaves of both sizes.
LEMMA LeavesTranslate ==
    ASSUME NEW tb, NEW r, NEW a,
           NEW mega, mega = LeafAt("Mega", tb, r, a), NEW page, page = LeafAt("Small", tb, r, a)
    PROVE  /\ Translate(tb, r, a) =
                 IF mega.kind = "Leaf" THEN Leaf(mega.to + (a % MegaSize))
                 ELSE IF page.kind = "Leaf" THEN Leaf(page.to + (a % PageSize))
                 ELSE Invalid
           /\ mega.kind = "Leaf" => page = Invalid
<1>1. PICK m : m = MegaEntry(tb, r, a)
  OBVIOUS
<1>2. /\ mega = (IF m.kind = "Leaf" THEN m ELSE Invalid)
      /\ page = (IF m.kind = "Branch" THEN tb[m.to][PageIndex(a)] ELSE Invalid)
  BY <1>1 DEF LeafAt, PageEntry
<1>3. CASE tb[r][RootIndex(a)].kind = "Branch"
  <2>1. m = tb[tb[r][RootIndex(a)].to][MegaIndex(a)]
    BY <1>1, <1>3 DEF MegaEntry
  <2> QED
    BY <1>2, <1>3, <2>1, LeafKinds DEF Translate
<1>4. CASE tb[r][RootIndex(a)].kind # "Branch"
  <2>1. m = Invalid
    BY <1>1, <1>4 DEF MegaEntry
  <2> QED
    BY <1>2, <1>4, <2>1, LeafKinds DEF Translate
<1> QED
  BY <1>3, <1>4

\* A leaf is a frame's or the kernel's.
LEMMA LeafOwned ==
    ASSUME Owned, NEW v \in AddressSpaces, NEW a \in Nat, NEW size \in Sizes
    PROVE  \/ LeafAt(size, table, root[v], a) = Invalid
           \/ LeafAt(size, table, root[v], a).kind = "Leaf"
<1>1. CASE KernelAt(size, v, a)
  <2>1. LeafAt("Mega", table, root[v], KernelBase) = Leaf(KernelBase)
    BY <1>1 DEF Owned, KernelKept, KernelAt
  <2>2. LeafAt("Mega", table, root[v], KernelBase) = LeafAt("Mega", table, root[v], a)
    BY <1>1, PlaceShared DEF KernelAt, Sizes
  <2> QED
    BY <1>1, <2>1, <2>2, LeafKinds DEF KernelAt
<1>2. CASE ~KernelAt(size, v, a)
  BY <1>2, LeafKinds DEF Owned, LeavesOwned
<1> QED
  BY <1>1, <1>2

\* An address that is not translated meets no leaf, and is not the kernel's.
LEMMA UntranslatedOwned ==
    ASSUME Owned, NEW v \in AddressSpaces, NEW a \in Nat,
           Translate(table, root[v], a) = Invalid
    PROVE  /\ \A size \in Sizes : LeafAt(size, table, root[v], a) = Invalid
           /\ MegaEntry(table, root[v], a).kind # "Leaf"
           /\ PageEntry(table, root[v], a).kind # "Branch"
           /\ ~KernelAt("Mega", v, a)
<1>1. PICK mega, page : /\ mega = LeafAt("Mega", table, root[v], a)
                        /\ page = LeafAt("Small", table, root[v], a)
  OBVIOUS
<1>2. mega.kind # "Leaf" /\ page.kind # "Leaf"
  BY <1>1, LeavesTranslate, LeafKinds
<1>3. (mega = Invalid \/ mega.kind = "Leaf") /\ (page = Invalid \/ page.kind = "Leaf")
  BY <1>1, LeafOwned DEF Sizes
<1>4. mega = Invalid /\ page = Invalid
  BY <1>2, <1>3
<1>5. \A size \in Sizes : LeafAt(size, table, root[v], a) = Invalid
  BY <1>1, <1>4 DEF Sizes
<1>6. MegaEntry(table, root[v], a).kind # "Leaf" /\ PageEntry(table, root[v], a).kind # "Branch"
  BY <1>1, <1>4, LeafKinds DEF LeafAt
<1>7. ASSUME KernelAt("Mega", v, a)
      PROVE  FALSE
  <2>1. LeafAt("Mega", table, root[v], KernelBase) = Leaf(KernelBase)
    BY <1>7 DEF Owned, KernelKept, KernelAt
  <2>2. LeafAt("Mega", table, root[v], KernelBase) = LeafAt("Mega", table, root[v], a)
    BY <1>7, PlaceShared DEF KernelAt, Sizes
  <2> QED
    BY <1>1, <1>4, <2>1, <2>2, LeafKinds
<1> QED
  BY <1>5, <1>6, <1>7

\* In one place of one size is another leaf; in the megapage around it leaves are the
\* same, or gone, and elsewhere they are the same.
LeavesOver(tb, new, size, v, a, e) ==
    \A s \in Sizes, w \in AddressSpaces, b \in Nat :
       IF s = size /\ w = v /\ SamePlace(size, a, b) THEN LeafAt(s, new, root[w], b) = e
       ELSE \/ LeafAt(s, new, root[w], b) = LeafAt(s, tb, root[w], b)
            \/ w = v /\ SamePlace("Mega", a, b) /\ LeafAt(s, new, root[w], b) = Invalid

LEMMA SetOver ==
    ASSUME NEW tb, NEW new, NEW size, NEW v, NEW a, NEW e, LeavesSet(tb, new, size, v, a, e)
    PROVE  LeavesOver(tb, new, size, v, a, e)
  BY DEF LeavesSet, LeavesOver

\* A megapage over a table of pages: the pages are gone.
LEMMA MegapageOver ==
    ASSUME NEW tb, NEW n, Forest(tb, n), NEW v \in AddressSpaces, NEW a \in Nat,
           NEW paddr \in Nat, MegaEntry(tb, root[v], a).kind = "Branch",
           NEW walk, walk = MapMegapage(tb, root[v], a, paddr, n)
    PROVE  /\ LeavesOver(tb, walk.tb, "Mega", v, a, Leaf(paddr))
           /\ Linkeds(walk.tb) \subseteq Linkeds(tb) /\ walk.used = 0
<1>1. PICK x : x = Upper(tb, root[v], a)
  OBVIOUS
<1>2. x.kind = "Branch" /\ x.to \in Page
  BY <1>1, PathFacts
<1>3. PICK e \in Entry : e = Leaf(paddr)
  BY EntryKinds
<1>4. Descend(tb, root[v], RootIndex(a), n) = [tb |-> tb, page |-> x.to, used |-> 0]
  BY <1>1, <1>2 DEF Descend, Upper
<1>5. walk.tb = [tb EXCEPT ![x.to][MegaIndex(a)] = e] /\ walk.used = 0
  BY <1>3, <1>4 DEF MapMegapage
<1>6. PICK new : new = walk.tb
  OBVIOUS
<1>7. Written(tb, new, x.to, MegaIndex(a), e) /\ e.kind = "Leaf"
  BY <1>3, <1>5, <1>6, LeafKinds DEF Written
<1>8. ASSUME NEW w \in AddressSpaces, NEW b \in Nat
      PROVE  /\ MegaEntry(new, root[w], b) =
                   IF w = v /\ SamePlace("Mega", a, b) THEN e ELSE MegaEntry(tb, root[w], b)
             /\ PageEntry(new, root[w], b) =
                   IF w = v /\ SamePlace("Mega", a, b) THEN Invalid ELSE PageEntry(tb, root[w], b)
  <2>1. /\ Upper(tb, root[v], a).kind = "Branch" /\ e.kind # "Branch"
        /\ Written(tb, new, Upper(tb, root[v], a).to, MegaIndex(a), e)
    BY <1>1, <1>2, <1>7
  <2> QED
    BY <2>1, MegaReplaced, SMTT(30)
<1>9. LeavesOver(tb, new, "Mega", v, a, e)
  BY <1>7, <1>8 DEF LeavesOver, LeafAt, Sizes
<1>10. \A p \in Page, i \in Index : Linked(new, p, i) =>
          Linked(tb, p, i) /\ new[p][i] = tb[p][i]
  <2>1. tb \in [Page -> [Index -> Entry]] /\ MegaIndex(a) \in Index
    BY IndexInTable DEF Forest
  <2>2. \A p \in Page, i \in Index :
           new[p][i] = IF p = x.to /\ i = MegaIndex(a) THEN e ELSE tb[p][i]
    BY <1>2, <1>7, <2>1 DEF Written
  <2> QED
    BY <1>7, <2>2 DEF Linked
<1>11. Linkeds(new) \subseteq Linkeds(tb)
  BY <1>10 DEF Linkeds
<1> QED
  BY <1>3, <1>5, <1>6, <1>9, <1>11

\* An address that has been unmapped meets no leaf, of either size.
LEMMA UnmapOver ==
    ASSUME NEW tb, NEW n, Forest(tb, n), NEW v \in AddressSpaces, NEW a \in Nat,
           NEW size \in Sizes, PageEntry(tb, root[v], a).kind # "Branch",
           NEW new, new = UnmapLeaf(tb, root[v], a)
    PROVE  LeavesOver(tb, new, size, v, a, Invalid) /\ Linkeds(new) = Linkeds(tb)
<1>1. PICK x, m : x = Upper(tb, root[v], a) /\ m = MegaEntry(tb, root[v], a)
  OBVIOUS
<1>2. /\ x.kind = "Branch" => m = tb[x.to][MegaIndex(a)] /\ x.to \in Page
      /\ x.kind # "Branch" => m = Invalid
      /\ m.kind = "Branch" => /\ m.to \in Page
                              /\ PageEntry(tb, root[v], a) = tb[m.to][PageIndex(a)]
  <2>1. /\ x.kind = "Branch" => m = tb[x.to][MegaIndex(a)]
        /\ x.kind # "Branch" => m = Invalid
    BY <1>1 DEF Upper, MegaEntry
  <2>2. x.kind = "Branch" => x.to \in Page
    BY <1>1, PathFacts
  <2>3. m.kind = "Branch" => /\ m.to \in Page
                             /\ PageEntry(tb, root[v], a) = tb[m.to][PageIndex(a)]
    BY <1>1, PathFacts
  <2> QED
    BY <2>1, <2>2, <2>3
<1>3. PICK e \in Entry : e = Invalid
  BY EntryKinds
<1>4. new = IF x.kind # "Branch" THEN tb
            ELSE IF m.kind = "Leaf" THEN [tb EXCEPT ![x.to][MegaIndex(a)] = e]
            ELSE IF m.kind = "Branch" THEN [tb EXCEPT ![m.to][PageIndex(a)] = e]
            ELSE tb
  <2>1. PICK l : l = tb[x.to][MegaIndex(a)]
    OBVIOUS
  <2>2. new = IF x.kind # "Branch" THEN tb
              ELSE IF l.kind = "Leaf" THEN [tb EXCEPT ![x.to][MegaIndex(a)] = Invalid]
              ELSE IF l.kind = "Branch" THEN [tb EXCEPT ![l.to][PageIndex(a)] = Invalid]
              ELSE tb
    BY <1>1, <2>1, Zenon DEF UnmapLeaf, Upper
  <2>3. CASE x.kind # "Branch"
    BY <2>2, <2>3
  <2>4. CASE x.kind = "Branch"
    <3>1. l = m
      BY <1>2, <2>1, <2>4
    <3> QED
      BY <1>3, <2>2, <2>4, <3>1
  <2> QED
    BY <2>3, <2>4
<1>5. ASSUME \A s \in Sizes, w \in AddressSpaces, b \in Nat :
                \/ LeafAt(s, new, root[w], b) = LeafAt(s, tb, root[w], b)
                \/ w = v /\ SamePlace("Mega", a, b) /\ LeafAt(s, new, root[w], b) = Invalid,
             LeafAt(size, new, root[v], a) = Invalid
      PROVE  LeavesOver(tb, new, size, v, a, Invalid)
  BY <1>5, PlaceShared DEF LeavesOver
<1>6. ASSUME NEW p \in Page, NEW i \in Index, ~Linked(tb, p, i), Written(tb, new, p, i, e)
      PROVE  Linkeds(new) = Linkeds(tb)
  <2>1. tb \in [Page -> [Index -> Entry]] /\ e.kind # "Branch"
    BY <1>3, LeafKinds DEF Forest
  <2>2. Linkeds(new) = Linkeds(tb) \cup (IF e.kind = "Branch" THEN {e.to} ELSE {})
    BY <1>6, <2>1, LinksWritten, ZenonT(30)
  <2> QED
    BY <2>1, <2>2
<1>7. MegaIndex(a) \in Index /\ PageIndex(a) \in Index
  BY IndexInTable
<1>8. CASE x.kind = "Branch" /\ m.kind = "Leaf"
  <2>1. Written(tb, new, x.to, MegaIndex(a), e) /\ e.kind # "Branch"
    <3>1. Written(tb, new, x.to, MegaIndex(a), e)
      BY <1>4, <1>8 DEF Written
    <3> QED
      BY <1>3, <3>1, LeafKinds
  <2>2. ASSUME NEW w \in AddressSpaces, NEW b \in Nat
        PROVE  /\ MegaEntry(new, root[w], b) =
                     IF w = v /\ SamePlace("Mega", a, b) THEN e ELSE MegaEntry(tb, root[w], b)
               /\ PageEntry(new, root[w], b) =
                     IF w = v /\ SamePlace("Mega", a, b) THEN Invalid ELSE PageEntry(tb, root[w], b)
    <3>1. /\ Upper(tb, root[v], a).kind = "Branch" /\ e.kind # "Branch"
          /\ Written(tb, new, Upper(tb, root[v], a).to, MegaIndex(a), e)
      BY <1>1, <1>8, <2>1
    <3> QED
      BY <3>1, MegaReplaced, SMTT(30)
  <2>3. \A s \in Sizes, w \in AddressSpaces, b \in Nat :
           \/ LeafAt(s, new, root[w], b) = LeafAt(s, tb, root[w], b)
           \/ w = v /\ SamePlace("Mega", a, b) /\ LeafAt(s, new, root[w], b) = Invalid
    BY <1>3, <2>2, LeafKinds DEF LeafAt
  <2>4. MegaEntry(new, root[v], a) = Invalid /\ PageEntry(new, root[v], a) = Invalid
    BY <1>3, <2>2, PlaceEqual
  <2>5. LeafAt(size, new, root[v], a) = Invalid
    BY <2>4 DEF LeafAt
  <2>6. Linkeds(new) = Linkeds(tb)
    <3>1. ~Linked(tb, x.to, MegaIndex(a))
      BY <1>2, <1>8 DEF Linked
    <3> QED
      BY <1>2, <1>6, <1>7, <1>8, <2>1, <3>1
  <2> QED
    BY <1>5, <2>3, <2>5, <2>6
<1>9. CASE x.kind = "Branch" /\ m.kind = "Branch"
  <2>1. Written(tb, new, m.to, PageIndex(a), e)
    BY <1>4, <1>9 DEF Written
  <2>2. ASSUME NEW w \in AddressSpaces, NEW b \in Nat
        PROVE  /\ MegaEntry(new, root[w], b) = MegaEntry(tb, root[w], b)
               /\ PageEntry(new, root[w], b) =
                     IF w = v /\ SamePlace("Small", a, b) THEN e ELSE PageEntry(tb, root[w], b)
    BY <1>1, <1>9, <2>1, PageWritten
  <2>3. \A s \in Sizes, w \in AddressSpaces, b \in Nat :
           \/ LeafAt(s, new, root[w], b) = LeafAt(s, tb, root[w], b)
           \/ w = v /\ SamePlace("Mega", a, b) /\ LeafAt(s, new, root[w], b) = Invalid
    BY <1>3, <2>2 DEF LeafAt, SamePlace
  <2>4. MegaEntry(new, root[v], a).kind = "Branch" /\ PageEntry(new, root[v], a) = Invalid
    BY <1>1, <1>3, <1>9, <2>2, PlaceEqual
  <2>5. LeafAt(size, new, root[v], a) = Invalid
    BY <2>4 DEF LeafAt
  <2>6. Linkeds(new) = Linkeds(tb)
    <3>1. ~Linked(tb, m.to, PageIndex(a))
      BY <1>2, <1>9 DEF Linked
    <3> QED
      BY <1>2, <1>6, <1>7, <1>9, <2>1, <3>1
  <2> QED
    BY <1>5, <2>3, <2>5, <2>6
<1>10. CASE x.kind # "Branch" \/ m.kind \notin {"Leaf", "Branch"}
  <2>1. new = tb /\ m.kind \notin {"Leaf", "Branch"}
    BY <1>2, <1>4, <1>10, LeafKinds
  <2>2. LeafAt(size, new, root[v], a) = Invalid
    BY <1>1, <2>1 DEF LeafAt, PageEntry
  <2> QED
    BY <1>5, <2>1, <2>2
<1> QED
  BY <1>8, <1>9, <1>10

\* What branches name has been handed out.
LEMMA LinkedsBelow ==
    ASSUME NEW tb, NEW n, Forest(tb, n)
    PROVE  n \in Nat /\ \A q \in Linkeds(tb) : q \in Nat /\ q < n
<1>1. n \in Nat
  BY MemoryAssumption DEF Forest
<1>2. \A q \in Linkeds(tb) : q \in Page /\ q < n
  BY DEF Linkeds, Forest
<1> QED
  BY <1>1, <1>2 DEF Page

\* Where nothing is translated, Map writes a leaf, and drops the pages a megapage covers;
\* it links just the pages it takes.
LEMMA MapOver ==
    ASSUME TablesInv, Owned, arena \in Page, NEW v \in AddressSpaces, NEW a \in Nat,
           Translate(table, root[v], a) = Invalid, NEW size \in Sizes, NEW paddr \in Nat,
           size = "Small" => arena + 1 \in Page,
           NEW walk, walk = IF size = "Small" THEN MapPage(table, root[v], a, paddr, arena)
                                              ELSE MapMegapage(table, root[v], a, paddr, arena)
    PROVE  /\ LeavesOver(table, walk.tb, size, v, a, Leaf(paddr))
           /\ Linkeds(walk.tb) \ Linkeds(table) = arena .. arena + walk.used - 1
           /\ walk.used \in Nat
           /\ size = "Small" \/ MegaEntry(table, root[v], a).kind # "Branch" =>
                 LeavesSet(table, walk.tb, size, v, a, Leaf(paddr))
<1>1. Forest(table, arena)
  BY DEF TablesInv
<1>2. /\ MegaEntry(table, root[v], a).kind # "Leaf"
      /\ PageEntry(table, root[v], a).kind # "Branch"
  BY UntranslatedOwned
<1>3. ASSUME walk.used \in Nat, Linkeds(walk.tb) = Linkeds(table) \cup (arena .. arena + walk.used - 1)
      PROVE  Linkeds(walk.tb) \ Linkeds(table) = arena .. arena + walk.used - 1
  <2>1. arena \in Nat /\ \A q \in Linkeds(table) : q \in Nat /\ q < arena
    BY <1>1, LinkedsBelow
  <2>2. \A q \in arena .. arena + walk.used - 1 : q \notin Linkeds(table)
    BY <2>1
  <2> QED
    BY <1>3, <2>2
<1>4. CASE size = "Small"
  <2>1. walk = MapPage(table, root[v], a, paddr, arena)
    BY <1>4
  <2>2. /\ LeavesSet(table, walk.tb, "Small", v, a, Leaf(paddr))
        /\ Linkeds(walk.tb) = Linkeds(table) \cup (arena .. arena + walk.used - 1)
    BY <1>1, <1>2, <1>4, <2>1, PageLeaves
  <2>3. LeavesOver(table, walk.tb, "Small", v, a, Leaf(paddr))
    BY <2>2, SetOver
  <2>4. walk.used \in Nat
    BY <1>1, <1>4, <2>1, PageForest
  <2> QED
    BY <1>3, <1>4, <2>2, <2>3, <2>4
<1>5. CASE size = "Mega"
  <2>1. walk = MapMegapage(table, root[v], a, paddr, arena)
    BY <1>5
  <2>2. CASE MegaEntry(table, root[v], a).kind # "Branch"
    <3>1. /\ LeavesSet(table, walk.tb, "Mega", v, a, Leaf(paddr))
          /\ Linkeds(walk.tb) = Linkeds(table) \cup (arena .. arena + walk.used - 1)
      BY <1>1, <2>1, <2>2, MegapageLeaves
    <3>2. LeavesOver(table, walk.tb, "Mega", v, a, Leaf(paddr))
      BY <3>1, SetOver
    <3>3. walk.used \in Nat
      BY <1>1, <2>1, MegapageForest
    <3> QED
      BY <1>3, <1>5, <3>1, <3>2, <3>3
  <2>3. CASE MegaEntry(table, root[v], a).kind = "Branch"
    <3>1. /\ LeavesOver(table, walk.tb, "Mega", v, a, Leaf(paddr))
          /\ Linkeds(walk.tb) \subseteq Linkeds(table) /\ walk.used = 0
      BY <1>1, <2>1, <2>3, MegapageOver
    <3>2. arena .. arena + walk.used - 1 = {}
      BY <1>1, <3>1, LinkedsBelow
    <3> QED
      BY <1>5, <2>3, <3>1, <3>2
  <2> QED
    BY <2>2, <2>3
<1> QED
  BY <1>4, <1>5 DEF Sizes

(***************************************************************************)
(* What a step does to the mappings                                        *)
(***************************************************************************)

\* New address spaces are blank and new frames mapped nowhere.
MappingsGrown ==
    /\ table' = table
    /\ Frames \subseteq Frames' /\ AddressSpaces \subseteq AddressSpaces'
    /\ \A v \in AddressSpaces : root'[v] = root[v]
    /\ \A v \in AddressSpaces' \ AddressSpaces :
          root'[v] \in Page /\ table[root'[v]] = EmptyTable
    /\ \A f \in Frames : mapping'[f] = mapping[f]
    /\ \A f \in Frames' \ Frames : mapping'[f].mapped_at = Unmapped

\* Frame f is mapped where nothing is translated; where programs are careful the pages
\* in a megapage's place stay as well.
MappingAdded(f) ==
    \E i \in 1 .. MaxFrameMappings, v \in AddressSpaces, a \in Nat :
       /\ At(f, i) = None
       /\ a % Bytes(mapping[f].size) = 0 /\ Translate(table, root[v], a) = Invalid
       /\ LeavesOver(table, table', mapping[f].size, v, a, Leaf(mapping[f].paddr))
       /\ MapsApart /\ v \in Careful =>
             /\ a + Bytes(mapping[f].size) <= Reach
             /\ LeavesSet(table, table', mapping[f].size, v, a, Leaf(mapping[f].paddr))
       /\ Linkeds(table') \ Linkeds(table) = arena .. arena' - 1
       /\ UNCHANGED <<root, taken>>
       /\ mapping' = [mapping EXCEPT ![f].mapped_at[i] = <<v, a>>]

\* One of its mappings is undone.
MappingRemoved(f) ==
    \E i \in 1 .. MaxFrameMappings :
       LET size == mapping[f].size
           v    == At(f, i)[1]
           a    == At(f, i)[2]
       IN  /\ At(f, i) # None /\ v \in AddressSpaces /\ a \in Nat
           /\ LeavesOver(table, table', size, v, a, Invalid)
           /\ LeafAt(size, table, root[v], a).kind = "Leaf" =>
                 LeavesSet(table, table', size, v, a, Invalid)
           /\ Linkeds(table') = Linkeds(table)
           /\ UNCHANGED <<root, taken, arena>>
           /\ mapping' = [mapping EXCEPT ![f].mapped_at[i] = None]

\* A refusal shows in the frame.
LEMMA RefusedMarked ==
    ASSUME NEW r \in Frame, NEW checks, Refused(checks, r)
    PROVE  frame'.err = TRUE
  BY DEF Refused, Failure, Frame

\* A Map that is refused maps nothing, though it may lose pages.
MapRefused == frame'.err = TRUE /\ UNCHANGED <<root, table, mapping, taken>>

LEMMA MapDone ==
    ASSUME TablesInv, Owned, current # None, NEW f \in Frames, NEW v, NEW vaddr \in Nat,
           NEW r \in Frame, Map(f, v, vaddr, r)
    PROVE  UNCHANGED memVars \/ MapRefused \/ MappingAdded(f)
<1> DEFINE size == mapping[f].size
<1> DEFINE space == CapAt(current, v).id
<1> DEFINE paddr == mapping[f].paddr
<1> DEFINE walk == IF size = "Small" THEN MapPage(table, root[space], vaddr, paddr, arena)
                                     ELSE MapMegapage(table, root[space], vaddr, paddr, arena)
<1>1. ASSUME NEW checks, Refused(checks, r), UNCHANGED <<taken, root, table, mapping>>
      PROVE  MapRefused
  BY <1>1, RefusedMarked DEF MapRefused
<1>2. CASE /\ Accepted(MapChecks(f, v, vaddr)) /\ RoomInArena(Spares(size)) = Ok
           /\ table' = walk.tb /\ arena' = Kept(size, walk.used)
           /\ mapping' = [mapping EXCEPT
                  ![f].mapped_at[Lowest(FreeMappings(f))] = <<space, vaddr>>]
           /\ UNCHANGED <<taken, root>>
  <2>1. PICK i \in FreeMappings(f) : i = Lowest(FreeMappings(f))
    BY <1>2, MapGiven, LowestIn DEF FreeMappings
  <2>2. PICK u \in AddressSpaces : u = space
    BY <1>2, MapGiven
  <2>3. i \in 1 .. MaxFrameMappings /\ At(f, i) = None
    BY <2>1 DEF FreeMappings, At
  <2>4. mapping' = [mapping EXCEPT ![f].mapped_at[i] = <<u, vaddr>>]
    BY <1>2, <2>1, <2>2
  <2>5. vaddr % Bytes(size) = 0 /\ Translate(table, root[u], vaddr) = Invalid
    <3>1. ASSUME NEW a1, NEW a2, NEW a3, NEW a4, Accepted(<<a1, a2, a3, a4>>)
          PROVE  a3 = Ok /\ a4 = Ok
      BY <3>1 DEF Accepted
    <3>2. /\ (IF vaddr % Bytes(size) # 0 THEN "AlignmentError" ELSE Ok) = Ok
          /\ TakenError(space, vaddr) = Ok
      BY <1>2, <3>1 DEF MapChecks
    <3>3. space \in VSPACE
      BY <1>2, MapGiven
    <3> QED
      BY <2>2, <3>2, <3>3 DEF TakenError, Ok
  <2>7. At(f, i)' = <<u, vaddr>> /\ <<u, vaddr>> # None
    <3>1. <<u, vaddr>> # None
      BY SpacesInPool, NoMappingAssumption
    <3>2. At(f, i)' = <<u, vaddr>>
      <4>1. PICK x : x = <<u, vaddr>>
        OBVIOUS
      <4>2. mapping' = [mapping EXCEPT ![f].mapped_at[i] = x] /\ taken' = taken
        BY <1>2, <2>4, <4>1
      <4> QED
        BY <2>3, <4>1, <4>2, RecordSet DEF OneRecordSet
    <3> QED
      BY <3>1, <3>2
  <2>8. ASSUME MapsApart, u \in Careful
        PROVE  /\ vaddr + Bytes(size) <= Reach
               /\ size = "Mega" => MegaEntry(table, root[u], vaddr).kind # "Branch"
    <3>1. mapping'[f].mapped_at[i] = <<u, vaddr>> /\ mapping[f].mapped_at[i] = None
      BY <2>3, <2>7 DEF At
    <3>2. PICK at : at = mapping'[f].mapped_at[i]
      OBVIOUS
    <3>3. /\ at # mapping[f].mapped_at[i] /\ at # None
          /\ at[1] = u /\ at[2] = vaddr
      BY <2>7, <3>1, <3>2
    <3> QED
      BY <2>3, <2>8, <3>2, <3>3 DEF MapsApart
  <2>9. /\ paddr \in Nat /\ size \in Sizes /\ Forest(table, arena)
        /\ arena \in Page /\ (size = "Small" => arena + 1 \in Page)
    BY <1>2, MapGiven DEF TablesInv, Sizes
  <2>10. table' = walk.tb /\ arena' = arena + walk.used
    BY <1>2 DEF Kept
  <2>11. /\ LeavesOver(table, table', size, u, vaddr, Leaf(paddr))
         /\ Linkeds(table') \ Linkeds(table) = arena .. arena' - 1
         /\ size = "Small" \/ MegaEntry(table, root[u], vaddr).kind # "Branch" =>
               LeavesSet(table, table', size, u, vaddr, Leaf(paddr))
    <3>1. PICK s \in Sizes, p \in Nat : s = size /\ p = paddr
      BY <2>9
    <3>2. PICK w : w = IF s = "Small" THEN MapPage(table, root[u], vaddr, p, arena)
                                      ELSE MapMegapage(table, root[u], vaddr, p, arena)
      OBVIOUS
    <3>3. table' = w.tb /\ arena' = arena + w.used
      BY <2>2, <2>10, <3>1, <3>2
    <3>4. /\ LeavesOver(table, w.tb, s, u, vaddr, Leaf(p))
          /\ Linkeds(w.tb) \ Linkeds(table) = arena .. arena + w.used - 1 /\ w.used \in Nat
          /\ s = "Small" \/ MegaEntry(table, root[u], vaddr).kind # "Branch" =>
                LeavesSet(table, w.tb, s, u, vaddr, Leaf(p))
      <4> HIDE DEF walk, space, size, paddr
      <4>1. /\ arena \in Page /\ (s = "Small" => arena + 1 \in Page)
            /\ Translate(table, root[u], vaddr) = Invalid
        BY <2>5, <2>9, <3>1
      <4> QED
        BY <3>2, <4>1, MapOver
    <3> HIDE DEF walk, space, size, paddr
    <3>5. LeavesOver(table, table', size, u, vaddr, Leaf(paddr))
      BY <3>1, <3>3, <3>4
    <3>6. Linkeds(table') \ Linkeds(table) = arena .. arena' - 1
      BY <2>9, <3>3, <3>4 DEF Page
    <3>7. size = "Small" \/ MegaEntry(table, root[u], vaddr).kind # "Branch" =>
             LeavesSet(table, table', size, u, vaddr, Leaf(paddr))
      BY <3>1, <3>3, <3>4
    <3> QED
      BY <3>5, <3>6, <3>7
  <2> HIDE DEF walk
  <2>12. MapsApart /\ u \in Careful =>
            /\ vaddr + Bytes(size) <= Reach
            /\ LeavesSet(table, table', size, u, vaddr, Leaf(paddr))
    BY <2>8, <2>9, <2>11 DEF Sizes
  <2>13. UNCHANGED <<root, taken>>
    BY <1>2
  <2> QED
    BY <2>3, <2>4, <2>5, <2>11, <2>12, <2>13 DEF MappingAdded
<1> QED
  BY <1>1, <1>2 DEF Map

LEMMA UnmapDone ==
    ASSUME TablesInv, Owned, current # None, NEW f \in Frames, NEW v, NEW r, Unmap(f, v, r)
    PROVE  UNCHANGED memVars \/ MappingRemoved(f)
<1> DEFINE space == CapAt(current, v).id
<1>1. ASSUME NEW i, i = Lowest(MappingsInto(f, space)), MappingsInto(f, space) # {},
             Accepted(<<InvokeError(current, v, "VSpace", "WRITE")>>),
             table' = UnmapLeaf(table, root[space], mapping[f].mapped_at[i][2]),
             mapping' = [mapping EXCEPT ![f].mapped_at[i] = None],
             UNCHANGED <<taken, arena, root>>
      PROVE  MappingRemoved(f)
  <2>1. i \in MappingsInto(f, space)
    BY <1>1, LowestIn DEF MappingsInto
  <2>2. i \in 1 .. MaxFrameMappings /\ At(f, i) # None /\ At(f, i)[1] = space
    BY <2>1 DEF MappingsInto, At
  <2>3. PICK u \in AddressSpaces : u = space
    <3>1. InvokeError(current, v, "VSpace", "WRITE") = Ok
      BY <1>1 DEF Accepted
    <3> QED
      BY <3>1, InvokedThere DEF PoolTypes, AddressSpaces
  <2>4. PICK a \in Nat : a = At(f, i)[2]
    <3>1. mapping[f] \in FrameObject
      BY DEF TablesInv
    <3>2. At(f, i) \in {None} \cup (VSPACE \X Nat)
      BY <2>2, <3>1 DEF At, FrameObject
    <3> QED
      BY <2>2, <3>2
  <2>5. mapping[f].size \in Sizes /\ Forest(table, arena)
    BY DEF TablesInv, FrameObject, Sizes
  <2>6. table' = UnmapLeaf(table, root[u], a)
    BY <1>1, <2>3, <2>4 DEF At
  <2>7. PageEntry(table, root[u], a).kind # "Branch"
    <3>1. \/ LeafAt("Small", table, root[u], a) = Invalid
          \/ LeafAt("Small", table, root[u], a).kind = "Leaf"
      BY LeafOwned DEF Sizes
    <3> QED
      BY <3>1, LeafKinds DEF LeafAt
  <2>8. LeavesOver(table, table', mapping[f].size, u, a, Invalid) /\ Linkeds(table') = Linkeds(table)
    BY <2>5, <2>6, <2>7, UnmapOver
  <2>9. LeafAt(mapping[f].size, table, root[u], a).kind = "Leaf" =>
           LeavesSet(table, table', mapping[f].size, u, a, Invalid)
    BY <2>5, <2>6, UnmapLeaves
  <2> QED
    BY <1>1, <2>2, <2>3, <2>4, <2>8, <2>9 DEF MappingRemoved
<1> QED
  BY <1>1 DEF Unmap

\* A step leaves every mapping alone, or adds or removes one of a frame that its thread
\* has WRITE on.
MappingStep ==
    \/ MappingsGrown
    \/ \E f \in Frames : Wields("Frame", f, "WRITE") /\ (MappingAdded(f) \/ MappingRemoved(f))

LEMMA MappingsSame ==
    ASSUME UNCHANGED <<root, table, mapping, taken>>
    PROVE  MappingsGrown
  BY DEF MappingsGrown, Frames, AddressSpaces

LEMMA InvokeMaps ==
    ASSUME TablesInv, Owned, current # None, NEW r \in Frame, NEW c, NEW label, NEW v,
           NEW vaddr \in Nat, FrameInvoke(c, label, v, vaddr, r)
    PROVE  \/ UNCHANGED memVars
           \/ MapRefused
           \/ \E f \in Frames : Wields("Frame", f, "WRITE") /\ (MappingAdded(f) \/ MappingRemoved(f))
<1> DEFINE f == CapAt(current, c).id
<1>1. CASE Accepted(<<InvokeError(current, c, "Frame", "WRITE"),
                      IF label \in {"Map", "Unmap"} THEN Ok ELSE "InvalidArgument">>)
  <2>1. InvokeError(current, c, "Frame", "WRITE") = Ok
    BY <1>1 DEF Accepted
  <2>2. f \in Frames /\ Wields("Frame", f, "WRITE")
    BY <2>1, InvokedThere, InvokedWielded DEF PoolTypes, Frames
  <2> HIDE DEF f
  <2>3. Map(f, v, vaddr, r) => UNCHANGED memVars \/ MapRefused \/ MappingAdded(f)
    BY <2>2, MapDone
  <2>4. Unmap(f, v, r) => UNCHANGED memVars \/ MappingRemoved(f)
    BY <2>2, UnmapDone
  <2> QED
    BY <2>2, <2>3, <2>4 DEF FrameInvoke, f
<1> QED
  BY <1>1 DEF FrameInvoke

LEMMA RetypeMaps ==
    ASSUME TablesInv, NEW r, NEW c, NEW word, NEW dest, UntypedRetype(c, word, dest, r)
    PROVE  MappingsGrown
<1>1. CASE UNCHANGED <<root, table, mapping, taken>>
  BY <1>1, MappingsSame
<1>2. ASSUME NEW type \in DOMAIN Pool, Take(type)
      PROVE  /\ taken'[type] = taken[type] \cup {Fresh(type)}
             /\ \A other \in DOMAIN Pool \ {type} : taken'[other] = taken[other]
  BY <1>2 DEF Take, TablesInv, FrameInv, FramesMade
<1>3. {"VSpace", "Frame"} \subseteq DOMAIN Pool
  BY DEF Pool
<1>4. CASE /\ word \in DOMAIN Pool \ {"VSpace", "Frame"} /\ Retyped(c, word, dest, r)
           /\ UNCHANGED <<range, arena, root, table, mapping>>
  <2>1. Frames' = Frames /\ AddressSpaces' = AddressSpaces
    BY <1>2, <1>3, <1>4 DEF Retyped, Frames, AddressSpaces
  <2> QED
    BY <1>4, <2>1 DEF MappingsGrown
<1>5. CASE /\ RoomInArena(1) = Ok /\ Free("VSpace") # {} /\ Retyped(c, "VSpace", dest, r)
           /\ root' = [root EXCEPT ![Fresh("VSpace")] = arena]
           /\ UNCHANGED <<range, table, mapping>>
  <2>1. PICK g \in VSPACE \ AddressSpaces : g = Fresh("VSpace")
    BY <1>3, <1>5, NewCapType DEF AddressSpaces, Pool
  <2>2. Frames' = Frames /\ AddressSpaces' = AddressSpaces \cup {g}
    BY <1>2, <1>3, <1>5, <2>1 DEF Retyped, Frames, AddressSpaces
  <2>3. root'[g] = arena /\ \A v \in AddressSpaces : root'[v] = root[v]
    BY <1>5, <2>1, SpacesInPool DEF TablesInv
  <2>4. arena \in Page /\ table[arena] = EmptyTable
    <3>1. arena \in Page /\ arena >= arena
      BY <1>5, SpacesInPool DEF RoomInArena, Ok, Page
    <3> QED
      BY <3>1 DEF TablesInv, Forest
  <2> QED
    BY <1>5, <2>2, <2>3, <2>4 DEF MappingsGrown
<1>6. ASSUME NEW a, NEW size, Free("Frame") # {}, Retyped(c, "Frame", dest, r),
             mapping' = [mapping EXCEPT ![Fresh("Frame")] =
                            [paddr |-> a, size |-> size, mapped_at |-> Unmapped]],
             UNCHANGED <<arena, root, table>>
      PROVE  MappingsGrown
  <2>1. PICK g \in FRAME \ Frames : g = Fresh("Frame")
    BY <1>3, <1>6, NewCapType DEF Frames, Pool
  <2>2. Frames' = Frames \cup {g} /\ AddressSpaces' = AddressSpaces
    BY <1>2, <1>3, <1>6, <2>1 DEF Retyped, Frames, AddressSpaces
  <2>3. mapping'[g].mapped_at = Unmapped /\ \A f \in Frames : mapping'[f] = mapping[f]
    BY <1>6, <2>1, SpacesInPool DEF TablesInv
  <2> QED
    BY <1>6, <2>2, <2>3 DEF MappingsGrown
<1> QED
  BY <1>1, <1>4, <1>5, <1>6
     DEF UntypedRetype, RetypePooled, RetypeVSpace, RetypeFrame, memVars

LEMMA StepMappings ==
    ASSUME TablesInv, Owned, [MemoryNext]_allVars
    PROVE  MappingStep
<1>1. CASE UNCHANGED memVars
  BY <1>1, MappingsSame DEF memVars, MappingStep
<1>2. CASE MemoryTrap
  <2>1. PICK err \in Flags :
          LET r == Request(current, 0, err)
          IN  \/ \E w \in Retypes : UntypedRetype(w[1], w[2], w[3], r)
              \/ \E w \in FrameWords : FrameInvoke(w[1], w[2], w[3], w[4], r)
    BY <1>2 DEF MemoryTrap
  <2> DEFINE r == Request(current, 0, err)
  <2> HIDE DEF r
  <2>2. current # None /\ r \in Frame
    BY <1>2, CurrentRuns, RequestType, ProgramsAssumption
       DEF MemoryTrap, r, TablesInv, FrameInv, ObjectInv, StepInv
  <2>3. ASSUME NEW w \in FrameWords, FrameInvoke(w[1], w[2], w[3], w[4], r)
        PROVE  MappingStep
    <3>1. \/ UNCHANGED memVars
          \/ MapRefused
          \/ \E f \in Frames : Wields("Frame", f, "WRITE") /\ (MappingAdded(f) \/ MappingRemoved(f))
      BY <1>2, <2>2, <2>3, MemoryAssumption, InvokeMaps
    <3> QED
      BY <3>1, MappingsSame DEF memVars, MapRefused, MappingStep
  <2>4. ASSUME NEW w \in Retypes, UntypedRetype(w[1], w[2], w[3], r)
        PROVE  MappingStep
    BY <2>4, RetypeMaps DEF MappingStep
  <2> QED
    BY <2>1, <2>3, <2>4 DEF r
<1>3. UNCHANGED allVars => UNCHANGED memVars
  BY DEF allVars
<1> QED
  BY <1>1, <1>2, <1>3 DEF MemoryNext

(***************************************************************************)
(* Every leaf has its record                                               *)
(***************************************************************************)
\* A new address space translates nothing.
LEMMA GrownBlank ==
    ASSUME MappingsGrown, NEW v \in AddressSpaces' \ AddressSpaces, NEW s, NEW a \in Nat
    PROVE  LeafAt(s, table', root'[v], a) = Invalid
<1>1. table'[root'[v]][RootIndex(a)] = Invalid
  BY IndexInTable, LeafKinds DEF MappingsGrown
<1>2. MegaEntry(table', root'[v], a) = Invalid
  BY <1>1, LeafKinds DEF MegaEntry
<1> QED
  BY <1>2, LeafKinds DEF LeafAt, PageEntry

\* One record set or cleared, together with the leaf in its place.
LEMMA OwnedKept ==
    ASSUME TablesInv, Owned, NEW f \in Frames, NEW i \in 1 .. MaxFrameMappings, NEW x,
           NEW v \in AddressSpaces, NEW a \in Nat, NEW e, NEW size \in Sizes,
           size = mapping[f].size, ~KernelAt("Mega", v, a),
           LeavesOver(table, table', size, v, a, e), UNCHANGED <<root, taken>>,
           mapping' = [mapping EXCEPT ![f].mapped_at[i] = x],
           \/ At(f, i) = None /\ x = <<v, a>> /\ x # None /\ e = Leaf(mapping[f].paddr)
           \/ At(f, i) # None /\ At(f, i)[1] = v /\ At(f, i)[2] = a /\ x = None /\ e = Invalid
    PROVE  Owned'
<1>1. OneRecordSet(f, i, x)
  BY RecordSet
<1>2. /\ Frames' = Frames /\ AddressSpaces' = AddressSpaces
      /\ At(f, i)' = x
      /\ \A g \in Frames, j \in 1 .. MaxFrameMappings :
            ~(g = f /\ j = i) => At(g, j)' = At(g, j)
      /\ \A g \in Frames : /\ mapping'[g].size = mapping[g].size
                           /\ mapping'[g].paddr = mapping[g].paddr
  BY <1>1 DEF OneRecordSet
<1>3. LeavesOwned'
  <2> SUFFICES ASSUME NEW w \in AddressSpaces, NEW b \in Nat, NEW s \in Sizes,
                      LeafAt(s, table', root'[w], b) # Invalid, ~KernelAt(s, w, b)
               PROVE  \E g \in Frames, j \in 1 .. MaxFrameMappings :
                         /\ mapping'[g].size = s /\ InPlace(g, j, w, s, b)'
                         /\ LeafAt(s, table', root'[w], b) = Leaf(mapping'[g].paddr)
    BY <1>2 DEF LeavesOwned
  <2>1. CASE s = size /\ w = v /\ SamePlace(size, a, b)
    <3>1. LeafAt(s, table', root'[w], b) = e
      BY <2>1 DEF LeavesOver
    <3>2. x = <<v, a>> /\ x # None /\ e = Leaf(mapping[f].paddr)
      BY <3>1
    <3> QED
      BY <1>2, <2>1, <3>1, <3>2 DEF InPlace
  <2>2. CASE ~(s = size /\ w = v /\ SamePlace(size, a, b))
    <3>1. LeafAt(s, table', root'[w], b) = LeafAt(s, table, root[w], b)
      BY <2>2 DEF LeavesOver
    <3>2. PICK g \in Frames, j \in 1 .. MaxFrameMappings :
             /\ mapping[g].size = s /\ InPlace(g, j, w, s, b)
             /\ LeafAt(s, table, root[w], b) = Leaf(mapping[g].paddr)
      BY <3>1 DEF Owned, LeavesOwned
    <3>3. ~(g = f /\ j = i)
      BY <2>2, <3>2 DEF InPlace
    <3>4. At(g, j)' = At(g, j)
      BY <1>2, <3>3
    <3> QED
      BY <1>2, <3>1, <3>2, <3>4 DEF InPlace
  <2> QED
    BY <2>1, <2>2
<1>4. KernelKept'
  <2> SUFFICES ASSUME NEW w \in BootObjects.VSpace
               PROVE  /\ w \in AddressSpaces
                      /\ LeafAt("Mega", table', root'[w], KernelBase) = Leaf(KernelBase)
    BY <1>2 DEF KernelKept
  <2>1. w \in AddressSpaces /\ LeafAt("Mega", table, root[w], KernelBase) = Leaf(KernelBase)
    BY DEF Owned, KernelKept
  <2>2. ~(w = v /\ SamePlace("Mega", a, KernelBase))
    BY DEF KernelAt, SamePlace
  <2>3. ~("Mega" = size /\ w = v /\ SamePlace(size, a, KernelBase))
    BY <2>2
  <2>4. LeafAt("Mega", table', root[w], KernelBase) = LeafAt("Mega", table, root[w], KernelBase)
    BY <2>1, <2>2, <2>3, KernelAssumption DEF LeavesOver, Sizes
  <2> QED
    BY <2>1, <2>4
<1>5. RecordsOffKernel'
  <2> SUFFICES ASSUME NEW g \in Frames, NEW j \in 1 .. MaxFrameMappings, At(g, j)' # None
               PROVE  ~KernelAt("Mega", At(g, j)'[1], At(g, j)'[2])
    BY <1>2 DEF RecordsOffKernel, KernelAt
  <2>1. CASE g = f /\ j = i
    BY <1>2, <2>1
  <2>2. CASE ~(g = f /\ j = i)
    BY <1>2, <2>2 DEF Owned, RecordsOffKernel
  <2> QED
    BY <2>1, <2>2
<1> QED
  BY <1>3, <1>4, <1>5 DEF Owned

LEMMA GrownOwned ==
    ASSUME TablesInv, Owned, MappingsGrown
    PROVE  Owned'
<1>1. /\ \A f \in Frames : f \in Frames' /\ mapping'[f] = mapping[f]
      /\ \A f \in Frames, i \in 1 .. MaxFrameMappings : At(f, i)' = At(f, i)
      /\ \A f \in Frames', i \in 1 .. MaxFrameMappings : At(f, i)' # None => f \in Frames
  BY DEF MappingsGrown, At, Unmapped
<1>2. \A v \in AddressSpaces :
         \A s, a : LeafAt(s, table', root'[v], a) = LeafAt(s, table, root[v], a)
  BY DEF MappingsGrown
<1>3. LeavesOwned'
  <2> SUFFICES ASSUME NEW v \in AddressSpaces', NEW a \in Nat, NEW s \in Sizes,
                      LeafAt(s, table', root'[v], a) # Invalid, ~KernelAt(s, v, a)
               PROVE  \E f \in Frames', i \in 1 .. MaxFrameMappings :
                         /\ mapping'[f].size = s /\ InPlace(f, i, v, s, a)'
                         /\ LeafAt(s, table', root'[v], a) = Leaf(mapping'[f].paddr)
    BY DEF LeavesOwned
  <2>1. v \in AddressSpaces
    BY GrownBlank
  <2>2. PICK f \in Frames, i \in 1 .. MaxFrameMappings :
           /\ mapping[f].size = s /\ InPlace(f, i, v, s, a)
           /\ LeafAt(s, table, root[v], a) = Leaf(mapping[f].paddr)
    BY <1>2, <2>1 DEF Owned, LeavesOwned
  <2> QED
    BY <1>1, <1>2, <2>1, <2>2 DEF InPlace
<1>4. KernelKept'
  BY <1>2 DEF Owned, KernelKept, MappingsGrown
<1>5. RecordsOffKernel'
  <2> SUFFICES ASSUME NEW g \in Frames', NEW j \in 1 .. MaxFrameMappings, At(g, j)' # None
               PROVE  ~KernelAt("Mega", At(g, j)'[1], At(g, j)'[2])
    BY DEF RecordsOffKernel, KernelAt
  <2> QED
    BY <1>1 DEF Owned, RecordsOffKernel
<1> QED
  BY <1>3, <1>4, <1>5 DEF Owned

LEMMA OwnedAdded ==
    ASSUME TablesInv, Owned, NEW f \in Frames, MappingAdded(f)
    PROVE  Owned'
<1>1. PICK i \in 1 .. MaxFrameMappings, v \in AddressSpaces, a \in Nat :
         /\ At(f, i) = None /\ Translate(table, root[v], a) = Invalid
         /\ LeavesOver(table, table', mapping[f].size, v, a, Leaf(mapping[f].paddr))
         /\ UNCHANGED <<root, taken>>
         /\ mapping' = [mapping EXCEPT ![f].mapped_at[i] = <<v, a>>]
  BY DEF MappingAdded
<1>2. PICK x : x = <<v, a>>
  OBVIOUS
<1>3. x # None
  BY <1>2, SpacesInPool, NoMappingAssumption
<1>4. PICK e : e = Leaf(mapping[f].paddr)
  OBVIOUS
<1>5. PICK size \in Sizes : size = mapping[f].size
  BY DEF TablesInv, FrameObject, Sizes
<1>6. ~KernelAt("Mega", v, a)
  BY <1>1, UntranslatedOwned
<1>7. /\ LeavesOver(table, table', size, v, a, e) /\ UNCHANGED <<root, taken>>
      /\ mapping' = [mapping EXCEPT ![f].mapped_at[i] = x]
  BY <1>1, <1>2, <1>4, <1>5
<1>8. At(f, i) = None /\ x = <<v, a>> /\ x # None /\ e = Leaf(mapping[f].paddr)
  BY <1>1, <1>2, <1>3, <1>4
<1> QED
  BY <1>5, <1>6, <1>7, <1>8, OwnedKept

LEMMA OwnedRemoved ==
    ASSUME TablesInv, Owned, NEW f \in Frames, MappingRemoved(f)
    PROVE  Owned'
<1>1. PICK i \in 1 .. MaxFrameMappings :
         /\ At(f, i) # None /\ At(f, i)[1] \in AddressSpaces /\ At(f, i)[2] \in Nat
         /\ LeavesOver(table, table', mapping[f].size, At(f, i)[1], At(f, i)[2], Invalid)
         /\ UNCHANGED <<root, taken>>
         /\ mapping' = [mapping EXCEPT ![f].mapped_at[i] = None]
  BY DEF MappingRemoved
<1>2. PICK v \in AddressSpaces, a \in Nat : v = At(f, i)[1] /\ a = At(f, i)[2]
  BY <1>1
<1>3. PICK size \in Sizes : size = mapping[f].size
  BY DEF TablesInv, FrameObject, Sizes
<1>4. ~KernelAt("Mega", v, a)
  BY <1>1, <1>2 DEF Owned, RecordsOffKernel
<1>5. LeavesOver(table, table', size, v, a, Invalid)
  BY <1>1, <1>2, <1>3
<1> QED
  BY <1>1, <1>2, <1>3, <1>4, <1>5, OwnedKept

LEMMA OwnedNext ==
    ASSUME TablesInv, Owned, [MemoryNext]_allVars
    PROVE  Owned'
  BY StepMappings, GrownOwned, OwnedAdded, OwnedRemoved DEF MappingStep

LEMMA OwnedInit == MemoryInit => Owned
<1> SUFFICES ASSUME MemoryInit
             PROVE  Owned
  OBVIOUS
<1>1. /\ Frames = {} /\ AddressSpaces = BootObjects.VSpace
      /\ \A v \in AddressSpaces : root[v] = BootRoot[v]
      /\ \A p \in Page, i \in Index : table[p][i] = BootEntry(p, i)
  BY BootForest
<1>2. KernelBase \in Nat
  BY KernelAssumption
<1>3. ASSUME NEW v \in AddressSpaces, NEW a \in Nat
      PROVE  MegaEntry(table, root[v], a) =
                IF SamePlace("Mega", KernelBase, a) THEN Leaf(KernelBase) ELSE Invalid
  <2>1. PICK x : x = table[root[v]][RootIndex(a)]
    OBVIOUS
  <2>2. PICK m : m = MegaEntry(table, root[v], a)
    OBVIOUS
  <2>3. RootIndex(a) \in Index /\ MegaIndex(a) \in Index
    BY IndexInTable
  <2>4. /\ v \in BootObjects.VSpace /\ root[v] = BootRoot[v]
        /\ BootRoot[v] \in Page /\ KernelTable[v] \in Page
    BY <1>1, BootEntries
  <2>5. \A w \in BootObjects.VSpace :
           /\ BootRoot[v] # KernelTable[w] /\ BootRoot[w] # KernelTable[v]
           /\ BootRoot[v] = BootRoot[w] \/ KernelTable[v] = KernelTable[w] => v = w
    BY <2>4, KernelAssumption
  <2>6. x = IF RootIndex(a) = RootIndex(KernelBase) THEN Branch(KernelTable[v]) ELSE Invalid
    <3>1. x = BootEntry(BootRoot[v], RootIndex(a))
      BY <1>1, <2>1, <2>3, <2>4
    <3>2. \/ x = Invalid
          \/ RootIndex(a) = RootIndex(KernelBase) /\ x = Branch(KernelTable[v])
      BY <2>3, <2>4, <2>5, <3>1, BootEntries
    <3>3. RootIndex(a) = RootIndex(KernelBase) => x = Branch(KernelTable[v])
      BY <2>4, <3>1, BootEntries
    <3> QED
      BY <3>2, <3>3
  <2>7. table[KernelTable[v]][MegaIndex(a)] =
           IF MegaIndex(a) = MegaIndex(KernelBase) THEN Leaf(KernelBase) ELSE Invalid
    <3>1. PICK l : l = BootEntry(KernelTable[v], MegaIndex(a))
      OBVIOUS
    <3>2. \/ l = Invalid
          \/ MegaIndex(a) = MegaIndex(KernelBase) /\ l = Leaf(KernelBase)
      BY <2>3, <2>4, <2>5, <3>1, BootEntries
    <3>3. MegaIndex(a) = MegaIndex(KernelBase) => l = Leaf(KernelBase)
      BY <2>4, <3>1, BootEntries
    <3> QED
      BY <1>1, <2>3, <2>4, <3>1, <3>2, <3>3
  <2>8. m = IF x.kind = "Branch" THEN table[x.to][MegaIndex(a)] ELSE Invalid
    BY <2>1, <2>2 DEF MegaEntry
  <2>9. CASE RootIndex(a) = RootIndex(KernelBase)
    <3>1. x.kind = "Branch" /\ x.to = KernelTable[v]
      BY <2>6, <2>9, LeafKinds
    <3> QED
      BY <2>2, <2>7, <2>8, <2>9, <3>1 DEF SamePlace
  <2>10. CASE RootIndex(a) # RootIndex(KernelBase)
    BY <2>2, <2>6, <2>8, <2>10, LeafKinds DEF SamePlace
  <2> QED
    BY <2>9, <2>10
<1>4. ASSUME NEW v \in AddressSpaces, NEW a \in Nat
      PROVE  /\ LeafAt("Small", table, root[v], a) = Invalid
             /\ LeafAt("Mega", table, root[v], a) =
                   IF SamePlace("Mega", KernelBase, a) THEN Leaf(KernelBase) ELSE Invalid
  BY <1>3, LeafKinds DEF LeafAt, PageEntry
<1>5. LeavesOwned
  BY <1>1, <1>4 DEF LeavesOwned, KernelAt, Sizes
<1>6. KernelKept
  BY <1>1, <1>2, <1>4 DEF KernelKept, SamePlace
<1>7. RecordsOffKernel
  BY <1>1 DEF RecordsOffKernel
<1> QED
  BY <1>5, <1>6, <1>7 DEF Owned

\* In every reachable state every leaf has its record, and the kernel's own are in place.
THEOREM OwnedInvariance == MemorySpec => []Owned
  BY OwnedInit, OwnedNext, TablesInvariance, PTL DEF MemorySpec

(***************************************************************************)
(* The pages a step takes                                                  *)
(***************************************************************************)
PagesAccounted == LinkedPages' \ LinkedPages = arena .. arena' - 1

\* The pages that branches name are those that some branch names.
LEMMA LinkTargets ==
    ASSUME NEW tb \in [Page -> [Index -> Entry]]
    PROVE  {tb[b[1]][b[2]].to : b \in {d \in Page \X Index : tb[d[1]][d[2]].kind = "Branch"}}
              = Linkeds(tb)
<1> DEFINE B == {d \in Page \X Index : tb[d[1]][d[2]].kind = "Branch"}
<1>1. ASSUME NEW b \in B
      PROVE  tb[b[1]][b[2]].to \in Linkeds(tb)
  <2>1. PICK p \in Page, i \in Index : p = b[1] /\ i = b[2]
    OBVIOUS
  <2>2. PICK e \in Entry : e = tb[p][i]
    OBVIOUS
  <2>3. e.kind = "Branch" /\ e.to \in Page
    BY <2>1, <2>2, EntryKinds
  <2>4. Linked(tb, p, i) /\ tb[p][i].to = e.to
    BY <2>2, <2>3 DEF Linked
  <2>5. e.to \in Linkeds(tb)
    BY <2>3, <2>4 DEF Linkeds
  <2> QED
    BY <2>1, <2>2, <2>5
<1>2. ASSUME NEW q \in Linkeds(tb)
      PROVE  \E b \in B : tb[b[1]][b[2]].to = q
  <2>1. PICK p \in Page, i \in Index : Linked(tb, p, i) /\ tb[p][i].to = q
    BY DEF Linkeds
  <2>2. <<p, i>> \in B
    BY <2>1 DEF Linked
  <2> QED
    BY <2>1, <2>2
<1> HIDE DEF B
<1>3. {tb[b[1]][b[2]].to : b \in B} = Linkeds(tb)
  BY <1>1, <1>2
<1> QED
  BY <1>3 DEF B

\* Before and after a step the pages linked are the roots and what branches name.
LEMMA PagesLinked ==
    ASSUME TablesInv, TablesInv'
    PROVE  /\ LinkedPages = {root[v] : v \in AddressSpaces} \cup Linkeds(table)
           /\ LinkedPages' = {root'[v] : v \in AddressSpaces'} \cup Linkeds(table')
<1>1. table \in [Page -> [Index -> Entry]] /\ table' \in [Page -> [Index -> Entry]]
  BY DEF TablesInv, Forest
<1>2. {Target(b) : b \in Branches} = Linkeds(table)
  <2>1. PICK tb \in [Page -> [Index -> Entry]] : tb = table
    BY <1>1
  <2>2. {Target(b) : b \in Branches} =
           {tb[b[1]][b[2]].to : b \in {d \in Page \X Index : tb[d[1]][d[2]].kind = "Branch"}}
    BY <2>1 DEF Target, Branches
  <2> QED
    BY <2>1, <2>2, LinkTargets
<1>3. {Target(b)' : b \in Branches'} = Linkeds(table')
  <2>1. PICK tb \in [Page -> [Index -> Entry]] : tb = table'
    BY <1>1
  <2>2. {Target(b)' : b \in Branches'} =
           {tb[b[1]][b[2]].to : b \in {d \in Page \X Index : tb[d[1]][d[2]].kind = "Branch"}}
    BY <2>1 DEF Target, Branches
  <2> QED
    BY <2>1, <2>2, LinkTargets
<1> QED
  BY <1>2, <1>3 DEF LinkedPages

\* What is linked has been handed out.
LEMMA PagesBelow ==
    ASSUME TablesInv, NEW q \in {root[v] : v \in AddressSpaces} \cup Linkeds(table)
    PROVE  q \in Nat /\ q < arena
<1>1. Forest(table, arena)
  BY DEF TablesInv
<1>2. \A v \in AddressSpaces : root[v] \in Nat /\ root[v] < arena
  BY <1>1 DEF Forest, Page
<1>3. \A x \in Linkeds(table) : x \in Nat /\ x < arena
  BY <1>1, LinkedsBelow
<1> QED
  BY <1>2, <1>3

\* A step that takes no page, plants no root and links no table.
LEMMA PagesKept ==
    ASSUME TablesInv, TablesInv', UNCHANGED <<root, arena>>, AddressSpaces' = AddressSpaces,
           Linkeds(table') = Linkeds(table)
    PROVE  PagesAccounted
<1>1. arena .. arena' - 1 = {}
  BY SpacesInPool
<1>2. LinkedPages' = LinkedPages
  BY PagesLinked
<1> QED
  BY <1>1, <1>2 DEF PagesAccounted

\* A step that makes an address space.
LEMMA PagesPlanted ==
    ASSUME TablesInv, TablesInv', NEW g \in VSPACE \ AddressSpaces, arena' = arena + 1,
           AddressSpaces' = AddressSpaces \cup {g}, root' = [root EXCEPT ![g] = arena], table' = table
    PROVE  PagesAccounted
<1>1. root'[g] = arena /\ \A v \in AddressSpaces : root'[v] = root[v]
  BY SpacesInPool DEF TablesInv
<1>2. {root'[v] : v \in AddressSpaces'} = {root[v] : v \in AddressSpaces} \cup {arena}
  BY <1>1
<1>3. arena .. arena' - 1 = {arena}
  BY SpacesInPool
<1>4. LinkedPages' = LinkedPages \cup {arena}
  BY <1>2, PagesLinked
<1>5. arena \notin LinkedPages
  BY PagesLinked, PagesBelow
<1> QED
  BY <1>3, <1>4, <1>5 DEF PagesAccounted

LEMMA RetypePages ==
    ASSUME TablesInv, TablesInv', NEW r \in Frame, NEW c, NEW word, NEW dest,
           UntypedRetype(c, word, dest, r)
    PROVE  PagesAccounted \/ frame'.err = TRUE
<1>1. ASSUME NEW checks, Refused(checks, r)
      PROVE  frame'.err = TRUE
  BY <1>1, RefusedMarked
<1>2. ASSUME NEW type \in DOMAIN Pool, Retyped(c, type, dest, r)
      PROVE  /\ taken'[type] = taken[type] \cup {Fresh(type)}
             /\ \A other \in DOMAIN Pool \ {type} : taken'[other] = taken[other]
  BY <1>2 DEF Retyped, Take, TablesInv, FrameInv, FramesMade
<1>3. {"VSpace", "Frame"} \subseteq DOMAIN Pool
  BY DEF Pool
<1>4. ASSUME NEW type \in DOMAIN Pool \ {"VSpace"}, Retyped(c, type, dest, r),
             UNCHANGED <<arena, root, table>>
      PROVE  PagesAccounted
  <2>1. AddressSpaces' = AddressSpaces
    BY <1>2, <1>3, <1>4 DEF AddressSpaces
  <2> QED
    BY <1>4, <2>1, PagesKept
<1>5. ASSUME Free("VSpace") # {}, Retyped(c, "VSpace", dest, r), arena' = arena + 1,
             root' = [root EXCEPT ![Fresh("VSpace")] = arena], table' = table
      PROVE  PagesAccounted
  <2>1. PICK g \in VSPACE \ AddressSpaces : g = Fresh("VSpace")
    BY <1>3, <1>5, NewCapType DEF AddressSpaces, Pool
  <2>2. AddressSpaces' = AddressSpaces \cup {g}
    BY <1>2, <1>3, <1>5, <2>1 DEF AddressSpaces
  <2> QED
    BY <1>5, <2>1, <2>2, PagesPlanted
<1>6. ASSUME word \in DOMAIN Pool \ {"VSpace", "Frame"}, RetypePooled(c, word, dest, r)
      PROVE  PagesAccounted \/ frame'.err = TRUE
  BY <1>1, <1>4, <1>6 DEF RetypePooled
<1>7. ASSUME RetypeVSpace(c, dest, r)
      PROVE  PagesAccounted \/ frame'.err = TRUE
  BY <1>1, <1>5, <1>7 DEF RetypeVSpace
<1>8. ASSUME NEW size, RetypeFrame(c, size, dest, r)
      PROVE  PagesAccounted \/ frame'.err = TRUE
  BY <1>1, <1>3, <1>4, <1>8 DEF RetypeFrame
<1> QED
  BY <1>1, <1>6, <1>7, <1>8 DEF UntypedRetype

LEMMA InvokePages ==
    ASSUME TablesInv, TablesInv', Owned, current # None, NEW r \in Frame,
           NEW c, NEW label, NEW v, NEW vaddr \in Nat, FrameInvoke(c, label, v, vaddr, r)
    PROVE  PagesAccounted \/ frame'.err = TRUE
<1>1. CASE UNCHANGED memVars
  BY <1>1, PagesKept DEF memVars, AddressSpaces
<1>2. ASSUME NEW f \in Frames, MappingAdded(f)
      PROVE  PagesAccounted
  <2>1. /\ Linkeds(table') \ Linkeds(table) = arena .. arena' - 1
        /\ root' = root /\ AddressSpaces' = AddressSpaces
    BY <1>2 DEF MappingAdded, AddressSpaces
  <2>2. PICK roots : roots = {root[u] : u \in AddressSpaces}
    OBVIOUS
  <2>3. LinkedPages = roots \cup Linkeds(table) /\ LinkedPages' = roots \cup Linkeds(table')
    BY <2>1, <2>2, PagesLinked
  <2>4. \A q \in arena .. arena' - 1 : q \notin roots
    <3>1. arena \in Nat /\ arena' \in Nat
      BY SpacesInPool DEF TablesInv, Forest
    <3>2. \A q \in roots : q \in Nat /\ q < arena
      BY <2>2, PagesBelow
    <3> QED
      BY <3>1, <3>2
  <2> QED
    BY <2>1, <2>3, <2>4 DEF PagesAccounted
<1>3. ASSUME NEW f \in Frames, MappingRemoved(f)
      PROVE  PagesAccounted
  BY <1>3, PagesKept DEF MappingRemoved, AddressSpaces
<1> QED
  BY <1>1, <1>2, <1>3, InvokeMaps DEF MapRefused

LEMMA StepPages ==
    ASSUME TablesInv, TablesInv', Owned, MemoryNext
    PROVE  PagesAccounted \/ frame'.err = TRUE
<1>1. CASE UNCHANGED memVars
  BY <1>1, PagesKept DEF memVars, AddressSpaces
<1>2. CASE MemoryTrap
  <2>1. PICK err \in Flags :
          LET r == Request(current, 0, err)
          IN  \/ \E w \in Retypes : UntypedRetype(w[1], w[2], w[3], r)
              \/ \E w \in FrameWords : FrameInvoke(w[1], w[2], w[3], w[4], r)
    BY <1>2 DEF MemoryTrap
  <2> DEFINE r == Request(current, 0, err)
  <2> HIDE DEF r
  <2>2. current # None /\ r \in Frame
    BY <1>2, CurrentRuns, RequestType, ProgramsAssumption
       DEF MemoryTrap, r, TablesInv, FrameInv, ObjectInv, StepInv
  <2>3. ASSUME NEW w \in FrameWords, FrameInvoke(w[1], w[2], w[3], w[4], r)
        PROVE  PagesAccounted \/ frame'.err = TRUE
    BY <2>2, <2>3, MemoryAssumption, InvokePages
  <2>4. ASSUME NEW w \in Retypes, UntypedRetype(w[1], w[2], w[3], r)
        PROVE  PagesAccounted \/ frame'.err = TRUE
    BY <2>2, <2>4, RetypePages
  <2> QED
    BY <2>1, <2>3, <2>4 DEF r
<1> QED
  BY <1>1, <1>2 DEF MemoryNext

\* An operation that succeeds takes from the arena exactly the pages that it makes a
\* root or a branch table of, whatever the programs map over what.
THEOREM PagesCorrect == MemorySpec => PagesNotWasted
<1>1. TablesInv /\ TablesInv' /\ Owned /\ [MemoryNext]_allVars =>
         [LinkedPages' \ LinkedPages = arena .. arena' - 1 \/ frame'.err]_allVars
  BY StepPages DEF PagesAccounted
<1> QED
  BY <1>1, TablesInvariance, OwnedInvariance, PTL DEF MemorySpec, PagesNotWasted

(***************************************************************************)
(* Addresses in one place are those of one page, or one megapage           *)
(***************************************************************************)

\* A multiple at or below x, by less than the divisor, is the one division finds.
LEMMA QuotientUnique ==
    ASSUME NEW x \in Nat, NEW d \in Nat \ {0}, NEW k \in Nat, k * d <= x, x < k * d + d
    PROVE  x \div d = k
<1>1. PICK q \in Nat : q = x \div d
  BY Quotient
<1>2. q * d <= x /\ x < q * d + d
  BY <1>1, Quotient
<1>3. \A y, z \in Nat : y < z => y * d + d <= z * d
  <2>1. ASSUME NEW y \in Nat, NEW z \in Nat, y < z
        PROVE  y * d + d <= z * d
    <3>1. PICK e \in Nat : z = y + 1 + e
      BY <2>1
    <3>2. z * d = y * d + d + e * d /\ e * d \in Nat
      BY <3>1
    <3> QED
      BY <3>2
  <2> QED
    BY <2>1
<1>4. ~(q < k) /\ ~(k < q)
  <2>1. q * d \in Nat /\ k * d \in Nat
    OBVIOUS
  <2> QED
    BY <1>2, <1>3, <2>1
<1> QED
  BY <1>1, <1>4

\* Dividing twice is dividing by the product.
LEMMA QuotientTwice ==
    ASSUME NEW x \in Nat, NEW m \in Nat \ {0}, NEW t \in Nat \ {0}
    PROVE  (x \div m) \div t = x \div (m * t)
<1>1. PICK q \in Nat : q = x \div m /\ q * m <= x /\ x < q * m + m
  BY Quotient
<1>2. PICK s \in Nat : s = q \div t /\ s * t <= q /\ q < s * t + t
  BY Quotient
<1>3. m * t \in Nat \ {0}
  OBVIOUS
<1>4. s * (m * t) <= x
  <2>1. PICK e \in Nat : q = s * t + e
    BY <1>2
  <2>2. q * m = s * (m * t) + e * m /\ e * m \in Nat /\ s * (m * t) \in Nat
    BY <2>1
  <2> QED
    BY <1>1, <2>2
<1>5. x < s * (m * t) + m * t
  <2>1. PICK e \in Nat : s * t + t = q + 1 + e
    <3>1. PICK z \in Nat : z = s * t + t
      OBVIOUS
    <3>2. q < z
      BY <1>2, <3>1
    <3>3. PICK e \in Nat : z = q + 1 + e
      BY <3>2
    <3> QED
      BY <3>1, <3>3
  <2>2. s * (m * t) + m * t = (s * t + t) * m
    OBVIOUS
  <2>3. (s * t + t) * m = q * m + m + e * m /\ e * m \in Nat
    <3>1. PICK z \in Nat : z = s * t + t
      OBVIOUS
    <3>2. \A y, n \in Nat : (q + 1 + y) * n = q * n + n + y * n /\ y * n \in Nat
      OBVIOUS
    <3> QED
      BY <2>1, <3>1, <3>2
  <2> QED
    BY <1>1, <2>2, <2>3
<1> QED
  BY <1>1, <1>2, <1>3, <1>4, <1>5, QuotientUnique

\* What a quotient leaves of a number.
LEMMA QuotientRest ==
    ASSUME NEW x \in Nat, NEW d \in Nat \ {0}
    PROVE  x = d * (x \div d) + (x % d) /\ x \div d \in Nat /\ x % d \in 0 .. d - 1
  OBVIOUS

\* The numbers that divide like a multiple of d are the d from it on.
LEMMA QuotientBlock ==
    ASSUME NEW x \in Nat, NEW s \in Nat, NEW d \in Nat \ {0}, s % d = 0
    PROVE  /\ (x \div d = s \div d) <=> (s <= x /\ x < s + d)
           /\ s <= x /\ x < s + d => x % d = x - s
<1>1. PICK k \in Nat : k = s \div d
  BY QuotientRest
<1>2. s = k * d /\ k * d \in Nat
  <2>1. s = d * k + 0
    BY <1>1, QuotientRest
  <2> QED
    BY <2>1
<1>3. s <= x /\ x < s + d => x \div d = k
  BY <1>2, QuotientUnique
<1>4. x \div d = k => s <= x /\ x < s + d /\ x % d = x - s
  <2>1. x = d * (x \div d) + (x % d) /\ x \div d \in Nat /\ x % d \in 0 .. d - 1
    BY QuotientRest
  <2>2. x \div d = k => x = k * d + (x % d)
    <3>1. \A q \in Nat : d * q = q * d
      OBVIOUS
    <3>2. d * (x \div d) = (x \div d) * d
      BY <2>1, <3>1
    <3> QED
      BY <2>1, <3>2
  <2>3. PICK y \in Nat : y = x % d /\ y < d
    BY <2>1
  <2>4. PICK n \in Nat : n = k * d /\ s = n
    BY <1>2
  <2> QED
    BY <2>2, <2>3, <2>4
<1> QED
  BY <1>1, <1>3, <1>4

\* The three indices of an address are the digits of its page's number.
LEMMA IndexDigits ==
    ASSUME NEW x \in Nat, x < Reach
    PROVE  /\ RootIndex(x) = (x \div MegaSize) \div TableEntries
           /\ MegaIndex(x) = (x \div MegaSize) % TableEntries
           /\ x \div MegaSize = TableEntries * RootIndex(x) + MegaIndex(x)
           /\ PageIndex(x) = (x \div PageSize) % TableEntries
           /\ x \div MegaSize = (x \div PageSize) \div TableEntries
           /\ x \div PageSize = TableEntries * (x \div MegaSize) + PageIndex(x)
<1>1. PICK t \in Nat \ {0} : t = TableEntries
  BY PageTableAssumption
<1>2. PICK p \in Nat \ {0} : p = PageSize
  BY PageTableAssumption
<1>3. PICK m \in Nat \ {0} : m = MegaSize /\ m = p * t
  <2>1. p * t \in Nat \ {0}
    OBVIOUS
  <2> QED
    BY <1>1, <1>2, <2>1 DEF MegaSize
<1>4. PICK b \in Nat \ {0} : b = m * t
  OBVIOUS
<1>5. x < b * t /\ b * t \in Nat
  BY <1>1, <1>3, <1>4 DEF Reach
<1>6. PICK q \in Nat : q = x \div m
  BY QuotientRest
<1>7. PICK s \in Nat : s = q \div t
  BY QuotientRest
<1>8. s = x \div b
  <2>1. (x \div m) \div t = x \div (m * t)
    BY QuotientTwice
  <2>2. PICK k : k = m * t /\ k = b
    BY <1>4
  <2>3. (x \div m) \div t = x \div k
    BY <2>1, <2>2
  <2> QED
    BY <1>6, <1>7, <2>2, <2>3
<1>9. s < t
  <2>1. s * b <= x /\ s * b \in Nat
    <3>1. b * (x \div b) <= x
      BY Quotient
    <3>2. b * s = s * b
      OBVIOUS
    <3> QED
      BY <1>8, <3>1, <3>2
  <2>2. ASSUME s >= t
        PROVE  FALSE
    <3>1. PICK e \in Nat : s = t + e
      BY <2>2
    <3>2. \A y \in Nat : (t + y) * b = b * t + y * b /\ y * b \in Nat
      OBVIOUS
    <3> QED
      BY <1>5, <2>1, <3>1, <3>2
  <2> QED
    BY <2>2
<1>10. RootIndex(x) = s
  <2>1. s % t = s
    BY <1>9
  <2> QED
    BY <1>1, <1>3, <1>4, <1>8, <2>1 DEF RootIndex
<1>11. q = t * (q \div t) + (q % t)
  BY QuotientRest
<1>12. PICK n \in Nat : n = x \div p
  BY QuotientRest
<1>13. q = n \div t
  <2>1. (x \div p) \div t = x \div (p * t)
    BY QuotientTwice
  <2>2. PICK k : k = p * t /\ k = m
    BY <1>3
  <2>3. (x \div p) \div t = x \div k
    BY <2>1, <2>2
  <2> QED
    BY <1>6, <1>12, <2>2, <2>3
<1>14. n = t * (n \div t) + (n % t)
  BY QuotientRest
<1> QED
  BY <1>1, <1>2, <1>3, <1>6, <1>7, <1>10, <1>11, <1>12, <1>13, <1>14 DEF MegaIndex, PageIndex

LEMMA PlaceNumber ==
    ASSUME NEW size \in Sizes, NEW a \in Nat, NEW b \in Nat, a < Reach, b < Reach
    PROVE  SamePlace(size, a, b) <=> a \div Bytes(size) = b \div Bytes(size)
<1>1. CASE size = "Mega"
  <2>1. Bytes(size) = MegaSize
    BY <1>1 DEF Bytes
  <2>2. SamePlace(size, a, b) => a \div MegaSize = b \div MegaSize
    BY <1>1, IndexDigits DEF SamePlace
  <2>3. a \div MegaSize = b \div MegaSize => SamePlace(size, a, b)
    BY <1>1, IndexDigits DEF SamePlace
  <2> QED
    BY <2>1, <2>2, <2>3
<1>2. CASE size = "Small"
  <2>1. Bytes(size) = PageSize
    BY <1>2 DEF Bytes
  <2>2. SamePlace(size, a, b) => a \div PageSize = b \div PageSize
    BY <1>2, IndexDigits DEF SamePlace
  <2>3. a \div PageSize = b \div PageSize => SamePlace(size, a, b)
    BY <1>2, IndexDigits DEF SamePlace
  <2> QED
    BY <2>1, <2>2, <2>3
<1> QED
  BY <1>1, <1>2 DEF Sizes

\* An address is in the place of an aligned one when it is in the chunk from there on.
LEMMA PlaceChunk ==
    ASSUME NEW size \in Sizes, NEW s \in Nat, s % Bytes(size) = 0, s + Bytes(size) <= Reach,
           NEW a \in Nat, a < Reach
    PROVE  /\ SamePlace(size, s, a) <=> a \in s .. s + Bytes(size) - 1
           /\ a \in s .. s + Bytes(size) - 1 => a % Bytes(size) = a - s
<1>1. PICK n \in Nat \ {0} : n = Bytes(size)
  BY FrameBytes DEF Sizes
<1>2. s < Reach
  <2>1. Reach \in Nat
    <3>1. \A x, y \in Nat : x * y \in Nat
      OBVIOUS
    <3> QED
      BY <3>1, PageTableAssumption DEF Reach, MegaSize
  <2> QED
    BY <1>1, <2>1
<1>3. SamePlace(size, s, a) <=> a \div n = s \div n
  BY <1>1, <1>2, PlaceNumber
<1>4. a \in s .. s + n - 1 <=> s <= a /\ a < s + n
  OBVIOUS
<1>5. /\ (a \div n = s \div n) <=> (s <= a /\ a < s + n)
      /\ s <= a /\ a < s + n => a % n = a - s
  <2>1. s % n = 0
    BY <1>1
  <2> QED
    BY <2>1, QuotientBlock
<1>6. SamePlace(size, s, a) <=> a \in s .. s + n - 1
  BY <1>3, <1>4, <1>5
<1>7. a \in s .. s + n - 1 => a % n = a - s
  BY <1>4, <1>5
<1> QED
  BY <1>1, <1>6, <1>7

\* Every page address is one that the three levels can tell apart.
LEMMA PageAddressReach ==
    ASSUME NEW vaddr \in PageAddress
    PROVE  vaddr \in Nat /\ vaddr < Reach
<1>1. PICK t \in Nat \ {0}, p \in Nat \ {0} : t = TableEntries /\ p = PageSize
  BY PageTableAssumption
<1>2. PICK c \in Nat \ {0} : c = t * t * t
  <2>1. \A x, y \in Nat \ {0} : x * y \in Nat \ {0}
    OBVIOUS
  <2> QED
    BY <2>1
<1>3. PICK n \in 0 .. c - 1 : vaddr = p * n
  BY <1>1, <1>2 DEF PageAddress
<1>4. Reach = p * c
  BY <1>1, <1>2 DEF Reach, MegaSize
<1>5. PICK e \in Nat : c = n + 1 + e
  BY <1>3
<1>6. p * c = p * n + p + p * e /\ p * n \in Nat /\ p * e \in Nat
  BY <1>5
<1> QED
  BY <1>3, <1>4, <1>6

\* The kernel's place is its megapage.
LEMMA KernelPlaces ==
    ASSUME NEW v, NEW vaddr \in PageAddress
    PROVE  /\ KernelPlace(v, vaddr) <=> KernelAt("Mega", v, vaddr)
           /\ KernelPlace(v, vaddr) => vaddr % MegaSize = vaddr - KernelBase
<1>1. vaddr \in Nat /\ vaddr < Reach
  BY PageAddressReach
<1>2. PICK base \in Nat : base = KernelBase /\ base % MegaSize = 0 /\ base + MegaSize <= Reach
  BY KernelAssumption
<1>3. Bytes("Mega") = MegaSize /\ "Mega" \in Sizes
  BY DEF Bytes, Sizes
<1>4. /\ SamePlace("Mega", base, vaddr) <=> vaddr \in base .. base + MegaSize - 1
      /\ vaddr \in base .. base + MegaSize - 1 => vaddr % MegaSize = vaddr - base
  BY <1>1, <1>2, <1>3, PlaceChunk
<1> QED
  BY <1>2, <1>4 DEF KernelPlace, KernelAt

(***************************************************************************)
(* What is translated whatever the programs map over what                  *)
(***************************************************************************)
LEMMA OwnedMapped == Owned => KernelMapped
<1> SUFFICES ASSUME Owned, NEW v \in BootObjects.VSpace, NEW vaddr \in PageAddress,
                    KernelPlace(v, vaddr)
             PROVE  Translation(v, vaddr) = Leaf(vaddr)
  BY DEF KernelMapped
<1>1. PICK mega, page : /\ mega = LeafAt("Mega", table, root[v], vaddr)
                        /\ page = LeafAt("Small", table, root[v], vaddr)
  OBVIOUS
<1>2. SamePlace("Mega", KernelBase, vaddr) /\ vaddr % MegaSize = vaddr - KernelBase
  BY KernelPlaces DEF KernelAt
<1>3. LeafAt("Mega", table, root[v], KernelBase) = Leaf(KernelBase)
  BY DEF Owned, KernelKept
<1>4. mega = Leaf(KernelBase)
  BY <1>1, <1>2, <1>3, PlaceShared DEF Sizes
<1>5. Translation(v, vaddr) = Leaf(KernelBase + (vaddr % MegaSize))
  BY <1>1, <1>4, LeavesTranslate, LeafKinds DEF Translation
<1>6. KernelBase + (vaddr % MegaSize) = vaddr
  BY <1>2, PageAddressReach, KernelAssumption
<1> QED
  BY <1>5, <1>6

LEMMA OwnedRecorded == Owned => NothingUnrecorded
<1> SUFFICES ASSUME Owned, NEW v \in AddressSpaces, NEW vaddr \in PageAddress,
                    Translation(v, vaddr) # Invalid, ~KernelPlace(v, vaddr)
             PROVE  \E f \in Frames : \E i \in MappingsInto(f, v) :
                       /\ SamePlace(mapping[f].size, mapping[f].mapped_at[i][2], vaddr)
                       /\ Translation(v, vaddr) =
                             Leaf(mapping[f].paddr + (vaddr % Bytes(mapping[f].size)))
  BY DEF NothingUnrecorded
<1>1. PICK mega, page : /\ mega = LeafAt("Mega", table, root[v], vaddr)
                        /\ page = LeafAt("Small", table, root[v], vaddr)
  OBVIOUS
<1>2. vaddr \in Nat
  BY PageAddressReach
<1>3. ASSUME NEW size \in Sizes, NEW leaf, leaf = LeafAt(size, table, root[v], vaddr),
             leaf.kind = "Leaf", Translation(v, vaddr) = Leaf(leaf.to + (vaddr % Bytes(size)))
      PROVE  \E f \in Frames : \E i \in MappingsInto(f, v) :
                /\ SamePlace(mapping[f].size, mapping[f].mapped_at[i][2], vaddr)
                /\ Translation(v, vaddr) =
                      Leaf(mapping[f].paddr + (vaddr % Bytes(mapping[f].size)))
  <2>1. LeafAt(size, table, root[v], vaddr) # Invalid /\ ~KernelAt(size, v, vaddr)
    BY <1>3, LeafKinds, KernelPlaces DEF KernelAt
  <2>2. PICK f \in Frames, i \in 1 .. MaxFrameMappings :
           /\ mapping[f].size = size /\ InPlace(f, i, v, size, vaddr)
           /\ leaf = Leaf(mapping[f].paddr)
    BY <1>2, <1>3, <2>1 DEF Owned, LeavesOwned
  <2>3. i \in MappingsInto(f, v) /\ SamePlace(mapping[f].size, mapping[f].mapped_at[i][2], vaddr)
    BY <2>2 DEF MappingsInto, InPlace, At
  <2>4. leaf.to = mapping[f].paddr
    BY <2>2, LeafKinds
  <2>5. Translation(v, vaddr) = Leaf(mapping[f].paddr + (vaddr % Bytes(mapping[f].size)))
    BY <1>3, <2>2, <2>4
  <2> QED
    BY <2>3, <2>5
<1>4. CASE mega.kind = "Leaf"
  BY <1>1, <1>3, <1>4, LeavesTranslate DEF Translation, Sizes, Bytes
<1>5. CASE mega.kind # "Leaf"
  <2>1. page.kind = "Leaf" /\ Translation(v, vaddr) = Leaf(page.to + (vaddr % PageSize))
    BY <1>1, <1>5, LeavesTranslate DEF Translation
  <2> QED
    BY <1>1, <1>3, <2>1 DEF Sizes, Bytes
<1> QED
  BY <1>4, <1>5

\* Whatever the programs map over what: but for the kernel's megapage, where an address is
\* translated, some frame records a mapping of the page or megapage found there, and the
\* translation is into that frame.
THEOREM RecordsCorrect == MemorySpec => []NothingUnrecorded
  BY OwnedRecorded, OwnedInvariance, PTL

\* And every address space that the loader has made translates the kernel's megapage to
\* itself for ever: Map refuses what is translated, and no frame's record is in its place,
\* so that Unmap never gets at it.
THEOREM KernelMappedCorrect == MemorySpec => []KernelMapped
  BY OwnedMapped, OwnedInvariance, PTL

(***************************************************************************)
(* What the frames record and what the tables hold agree, in the address   *)
(* spaces of careful programs: there is a leaf of a frame's size, and with *)
(* its address, at every place the frame records, and a frame records no   *)
(* place twice.                                                            *)
(***************************************************************************)
RecordsPlaced ==
    \A f \in Frames, i \in 1 .. MaxFrameMappings : At(f, i) # None /\ At(f, i)[1] \in Careful =>
       /\ At(f, i)[1] \in AddressSpaces /\ At(f, i)[2] \in Nat
       /\ At(f, i)[2] % Bytes(mapping[f].size) = 0
       /\ At(f, i)[2] + Bytes(mapping[f].size) <= Reach
       /\ LeafAt(mapping[f].size, table, root[At(f, i)[1]], At(f, i)[2]) = Leaf(mapping[f].paddr)

RecordsApart ==
    \A f \in Frames, i, j \in 1 .. MaxFrameMappings :
       i # j /\ At(f, i) # None /\ At(f, i)[1] \in Careful =>
          ~InPlace(f, j, At(f, i)[1], mapping[f].size, At(f, i)[2])

Agreed == RecordsPlaced /\ RecordsApart

\* One leaf of one address space is another one, as far as careful programs can see.
CarefulSet(size, v, a, e) ==
    \A s \in Sizes, w \in AddressSpaces \cap Careful, b \in Nat :
       LeafAt(s, table', root[w], b) =
          IF s = size /\ w = v /\ SamePlace(size, a, b) THEN e ELSE LeafAt(s, table, root[w], b)

LEMMA CarefulOver ==
    ASSUME NEW size, NEW v, NEW a, NEW e, LeavesOver(table, table', size, v, a, e),
           v \in Careful => LeavesSet(table, table', size, v, a, e)
    PROVE  CarefulSet(size, v, a, e)
<1>1. CASE v \in Careful
  BY <1>1 DEF LeavesSet, CarefulSet
<1>2. CASE v \notin Careful
  BY <1>2 DEF LeavesOver, CarefulSet
<1> QED
  BY <1>1, <1>2

LEMMA MapAgrees ==
    ASSUME TablesInv, Agreed, NEW f \in Frames, NEW i \in 1 .. MaxFrameMappings, At(f, i) = None,
           NEW v \in AddressSpaces, NEW a \in Nat, NEW size, size = mapping[f].size,
           a % Bytes(size) = 0, v \in Careful => a + Bytes(size) <= Reach,
           LeafAt(size, table, root[v], a) = Invalid,
           CarefulSet(size, v, a, Leaf(mapping[f].paddr)),
           UNCHANGED <<root, taken>>,
           mapping' = [mapping EXCEPT ![f].mapped_at[i] = <<v, a>>]
    PROVE  Agreed'
<1>1. /\ Frames' = Frames /\ AddressSpaces' = AddressSpaces
      /\ At(f, i)' = <<v, a>> /\ <<v, a>> # None
      /\ \A g \in Frames, j \in 1 .. MaxFrameMappings :
            ~(g = f /\ j = i) => At(g, j)' = At(g, j)
      /\ \A g \in Frames : /\ mapping'[g].size = mapping[g].size
                           /\ mapping'[g].paddr = mapping[g].paddr
                           /\ mapping[g].size \in Sizes /\ mapping[g].paddr \in Nat
      /\ \A g \in Frames, j \in 1 .. MaxFrameMappings :
            At(g, j) # None => At(g, j)[1] \in VSPACE /\ At(g, j)[2] \in Nat
  <2>1. <<v, a>> \in VSPACE \X Nat
    BY SpacesInPool
  <2>2. <<v, a>> # None
    BY <2>1, NoMappingAssumption
  <2>3. OneRecordSet(f, i, <<v, a>>)
    BY RecordSet
  <2> QED
    BY <2>2, <2>3 DEF OneRecordSet
<1>2. /\ size \in Sizes /\ mapping'[f].size = size
      /\ \A s \in Sizes, w \in AddressSpaces \cap Careful, b \in Nat :
            LeafAt(s, table', root'[w], b) =
               IF s = size /\ w = v /\ SamePlace(size, a, b)
               THEN Leaf(mapping[f].paddr) ELSE LeafAt(s, table, root[w], b)
  BY <1>1 DEF CarefulSet
\* No place that a frame records is the new one.
<1>3. ASSUME NEW g \in Frames, NEW j \in 1 .. MaxFrameMappings, At(g, j) # None,
             mapping[g].size = size, At(g, j)[1] = v, v \in Careful
      PROVE  ~SamePlace(size, a, At(g, j)[2])
  <2>1. LeafAt(size, table, root[v], At(g, j)[2]) # Invalid
    BY <1>3, LeafKinds DEF Agreed, RecordsPlaced
  <2> QED
    BY <1>2, <2>1, PlaceShared
<1>4. RecordsPlaced'
  <2> SUFFICES ASSUME NEW g \in Frames, NEW j \in 1 .. MaxFrameMappings, At(g, j)' # None,
                      At(g, j)'[1] \in Careful
               PROVE  /\ At(g, j)'[1] \in AddressSpaces /\ At(g, j)'[2] \in Nat
                      /\ At(g, j)'[2] % Bytes(mapping[g].size) = 0
                      /\ At(g, j)'[2] + Bytes(mapping[g].size) <= Reach
                      /\ LeafAt(mapping[g].size, table', root'[At(g, j)'[1]], At(g, j)'[2])
                            = Leaf(mapping[g].paddr)
    BY <1>1 DEF RecordsPlaced
  <2>1. CASE g = f /\ j = i
    BY <1>1, <1>2, <2>1, PlaceEqual
  <2>2. CASE ~(g = f /\ j = i)
    <3>1. At(g, j)' = At(g, j) /\ At(g, j) # None
      BY <1>1, <2>2
    <3>2. /\ At(g, j)[1] \in AddressSpaces /\ At(g, j)[2] \in Nat
          /\ At(g, j)[2] % Bytes(mapping[g].size) = 0
          /\ At(g, j)[2] + Bytes(mapping[g].size) <= Reach
          /\ LeafAt(mapping[g].size, table, root[At(g, j)[1]], At(g, j)[2]) = Leaf(mapping[g].paddr)
      BY <3>1 DEF Agreed, RecordsPlaced
    <3> QED
      BY <1>1, <1>2, <1>3, <3>1, <3>2
  <2> QED
    BY <2>1, <2>2
<1>5. RecordsApart'
  <2> SUFFICES ASSUME NEW g \in Frames, NEW j \in 1 .. MaxFrameMappings,
                      NEW k \in 1 .. MaxFrameMappings, j # k, At(g, j)' # None, At(g, k)' # None,
                      At(g, k)'[1] = At(g, j)'[1], At(g, j)'[1] \in Careful
               PROVE  ~SamePlace(mapping[g].size, At(g, k)'[2], At(g, j)'[2])
    BY <1>1 DEF RecordsApart, InPlace
  <2>1. CASE g = f /\ j = i
    BY <1>1, <1>3, <2>1, PlaceEqual
  <2>2. CASE g = f /\ k = i
    BY <1>1, <1>3, <2>2
  <2>3. CASE g # f \/ (j # i /\ k # i)
    BY <1>1, <2>3 DEF Agreed, RecordsApart, InPlace
  <2> QED
    BY <2>1, <2>2, <2>3
<1> QED
  BY <1>4, <1>5 DEF Agreed

LEMMA UnmapAgrees ==
    ASSUME TablesInv, Agreed, NEW f \in Frames, NEW i \in 1 .. MaxFrameMappings, At(f, i) # None,
           NEW v \in AddressSpaces, v = At(f, i)[1], NEW a \in Nat, a = At(f, i)[2],
           NEW size, size = mapping[f].size,
           CarefulSet(size, v, a, Invalid), UNCHANGED <<root, taken>>,
           mapping' = [mapping EXCEPT ![f].mapped_at[i] = None]
    PROVE  Agreed'
<1>1. /\ Frames' = Frames /\ AddressSpaces' = AddressSpaces
      /\ At(f, i)' = None
      /\ \A g \in Frames, j \in 1 .. MaxFrameMappings :
            ~(g = f /\ j = i) => At(g, j)' = At(g, j)
      /\ \A g \in Frames : /\ mapping'[g].size = mapping[g].size
                           /\ mapping'[g].paddr = mapping[g].paddr
                           /\ mapping[g].size \in Sizes /\ mapping[g].paddr \in Nat
      /\ \A g \in Frames, j \in 1 .. MaxFrameMappings :
            At(g, j) # None => At(g, j)[1] \in VSPACE /\ At(g, j)[2] \in Nat
  <2>1. OneRecordSet(f, i, None)
    BY RecordSet
  <2> QED
    BY <2>1 DEF OneRecordSet
<1>2. /\ size \in Sizes
      /\ v \in Careful => LeafAt(size, table, root[v], a) = Leaf(mapping[f].paddr)
  BY <1>1 DEF Agreed, RecordsPlaced
<1>3. \A s \in Sizes, w \in AddressSpaces \cap Careful, b \in Nat :
         LeafAt(s, table', root'[w], b) =
            IF s = size /\ w = v /\ SamePlace(size, a, b)
            THEN Invalid ELSE LeafAt(s, table, root[w], b)
  BY DEF CarefulSet
\* No other record is of the place that is cleared.
<1>4. ASSUME NEW g \in Frames, NEW j \in 1 .. MaxFrameMappings, At(g, j) # None,
             ~(g = f /\ j = i), mapping[g].size = size, At(g, j)[1] = v, v \in Careful
      PROVE  ~SamePlace(size, a, At(g, j)[2])
  <2> SUFFICES ASSUME SamePlace(size, a, At(g, j)[2])
               PROVE  FALSE
    OBVIOUS
  <2>1. LeafAt(size, table, root[v], At(g, j)[2]) = Leaf(mapping[g].paddr)
    BY <1>4 DEF Agreed, RecordsPlaced
  <2>2. LeafAt(size, table, root[v], At(g, j)[2]) = Leaf(mapping[f].paddr)
    BY <1>2, <1>4, PlaceShared
  <2>3. mapping[g].paddr = mapping[f].paddr
    <3>1. \A x, y : Leaf(x) = Leaf(y) => x = y
      BY LeafKinds
    <3>2. Leaf(mapping[g].paddr) = Leaf(mapping[f].paddr)
      BY <2>1, <2>2
    <3> QED
      BY <3>1, <3>2
  <2>4. g = f
    BY <1>4, <2>3, FrameAt DEF TablesInv
  <2>5. InPlace(f, j, At(f, i)[1], size, At(f, i)[2])
    BY <1>4, <2>4, PlaceEqual DEF InPlace
  <2> QED
    BY <1>4, <2>4, <2>5 DEF Agreed, RecordsApart
<1>5. RecordsPlaced'
  <2> SUFFICES ASSUME NEW g \in Frames, NEW j \in 1 .. MaxFrameMappings, At(g, j)' # None,
                      At(g, j)'[1] \in Careful
               PROVE  /\ At(g, j)'[1] \in AddressSpaces /\ At(g, j)'[2] \in Nat
                      /\ At(g, j)'[2] % Bytes(mapping[g].size) = 0
                      /\ At(g, j)'[2] + Bytes(mapping[g].size) <= Reach
                      /\ LeafAt(mapping[g].size, table', root'[At(g, j)'[1]], At(g, j)'[2])
                            = Leaf(mapping[g].paddr)
    BY <1>1 DEF RecordsPlaced
  <2>1. At(g, j)' = At(g, j) /\ At(g, j) # None /\ ~(g = f /\ j = i)
    BY <1>1
  <2>2. /\ At(g, j)[1] \in AddressSpaces /\ At(g, j)[2] \in Nat
        /\ At(g, j)[2] % Bytes(mapping[g].size) = 0
        /\ At(g, j)[2] + Bytes(mapping[g].size) <= Reach
        /\ LeafAt(mapping[g].size, table, root[At(g, j)[1]], At(g, j)[2]) = Leaf(mapping[g].paddr)
    BY <2>1 DEF Agreed, RecordsPlaced
  <2> QED
    BY <1>1, <1>3, <1>4, <2>1, <2>2
<1>6. RecordsApart'
  <2> SUFFICES ASSUME NEW g \in Frames, NEW j \in 1 .. MaxFrameMappings,
                      NEW k \in 1 .. MaxFrameMappings, j # k, At(g, j)' # None, At(g, k)' # None,
                      At(g, k)'[1] = At(g, j)'[1], At(g, j)'[1] \in Careful
               PROVE  ~SamePlace(mapping[g].size, At(g, k)'[2], At(g, j)'[2])
    BY <1>1 DEF RecordsApart, InPlace
  <2>1. At(g, j)' = At(g, j) /\ At(g, k)' = At(g, k)
    BY <1>1
  <2> QED
    BY <2>1 DEF Agreed, RecordsApart, InPlace
<1> QED
  BY <1>5, <1>6 DEF Agreed

LEMMA GrownAgrees ==
    ASSUME TablesInv, Agreed, MappingsGrown
    PROVE  Agreed'
<1>1. /\ \A f \in Frames : f \in Frames' /\ mapping'[f] = mapping[f]
      /\ \A f \in Frames, i \in 1 .. MaxFrameMappings : At(f, i)' = At(f, i)
      /\ \A f \in Frames', i \in 1 .. MaxFrameMappings : At(f, i)' # None => f \in Frames
  BY DEF MappingsGrown, At, Unmapped
<1>2. \A v \in AddressSpaces : v \in AddressSpaces' /\ root'[v] = root[v]
  BY DEF MappingsGrown
<1>3. \A v \in AddressSpaces : \A s, a : LeafAt(s, table', root'[v], a) = LeafAt(s, table, root[v], a)
  BY <1>2 DEF MappingsGrown
<1>4. RecordsPlaced'
  <2> SUFFICES ASSUME NEW f \in Frames', NEW i \in 1 .. MaxFrameMappings, At(f, i)' # None,
                      At(f, i)'[1] \in Careful
               PROVE  /\ At(f, i)'[1] \in AddressSpaces' /\ At(f, i)'[2] \in Nat
                      /\ At(f, i)'[2] % Bytes(mapping'[f].size) = 0
                      /\ At(f, i)'[2] + Bytes(mapping'[f].size) <= Reach
                      /\ LeafAt(mapping'[f].size, table', root'[At(f, i)'[1]], At(f, i)'[2])
                            = Leaf(mapping'[f].paddr)
    BY DEF RecordsPlaced
  <2>1. f \in Frames /\ At(f, i)' = At(f, i) /\ mapping'[f] = mapping[f]
    BY <1>1
  <2> QED
    BY <1>2, <1>3, <2>1 DEF Agreed, RecordsPlaced
<1>5. RecordsApart'
  <2> SUFFICES ASSUME NEW f \in Frames', NEW i \in 1 .. MaxFrameMappings,
                      NEW j \in 1 .. MaxFrameMappings, i # j, At(f, i)' # None, At(f, j)' # None,
                      At(f, j)'[1] = At(f, i)'[1], At(f, i)'[1] \in Careful
               PROVE  ~SamePlace(mapping'[f].size, At(f, j)'[2], At(f, i)'[2])
    BY DEF RecordsApart, InPlace
  <2>1. /\ f \in Frames /\ At(f, i)' = At(f, i) /\ At(f, j)' = At(f, j)
        /\ mapping'[f] = mapping[f]
    BY <1>1
  <2> QED
    BY <2>1 DEF Agreed, RecordsApart, InPlace
<1> QED
  BY <1>4, <1>5 DEF Agreed

LEMMA AgreedAdded ==
    ASSUME TablesInv, Owned, Agreed, MapsApart, NEW f \in Frames, MappingAdded(f)
    PROVE  Agreed'
<1>1. PICK i \in 1 .. MaxFrameMappings, v \in AddressSpaces, a \in Nat :
         /\ At(f, i) = None
         /\ a % Bytes(mapping[f].size) = 0 /\ Translate(table, root[v], a) = Invalid
         /\ LeavesOver(table, table', mapping[f].size, v, a, Leaf(mapping[f].paddr))
         /\ v \in Careful =>
               /\ a + Bytes(mapping[f].size) <= Reach
               /\ LeavesSet(table, table', mapping[f].size, v, a, Leaf(mapping[f].paddr))
         /\ UNCHANGED <<root, taken>>
         /\ mapping' = [mapping EXCEPT ![f].mapped_at[i] = <<v, a>>]
  BY DEF MappingAdded
<1>2. mapping[f].size \in Sizes
  BY DEF TablesInv, FrameObject, Sizes
<1>3. LeafAt(mapping[f].size, table, root[v], a) = Invalid
  BY <1>1, <1>2, UntranslatedOwned
<1>4. CarefulSet(mapping[f].size, v, a, Leaf(mapping[f].paddr))
  BY <1>1, CarefulOver
<1> QED
  BY <1>1, <1>3, <1>4, MapAgrees

LEMMA AgreedRemoved ==
    ASSUME TablesInv, Agreed, NEW f \in Frames, MappingRemoved(f)
    PROVE  Agreed'
<1>1. PICK i \in 1 .. MaxFrameMappings :
         LET size == mapping[f].size
             v    == At(f, i)[1]
             a    == At(f, i)[2]
         IN  /\ At(f, i) # None /\ v \in AddressSpaces /\ a \in Nat
             /\ LeavesOver(table, table', size, v, a, Invalid)
             /\ LeafAt(size, table, root[v], a).kind = "Leaf" =>
                   LeavesSet(table, table', size, v, a, Invalid)
             /\ UNCHANGED <<root, taken>>
             /\ mapping' = [mapping EXCEPT ![f].mapped_at[i] = None]
  BY DEF MappingRemoved
<1>2. PICK v \in AddressSpaces, a \in Nat : v = At(f, i)[1] /\ a = At(f, i)[2]
  BY <1>1
<1>3. v \in Careful => LeafAt(mapping[f].size, table, root[v], a).kind = "Leaf"
  BY <1>1, <1>2, LeafKinds DEF Agreed, RecordsPlaced
<1>4. CarefulSet(mapping[f].size, v, a, Invalid)
  BY <1>1, <1>2, <1>3, CarefulOver
<1> QED
  BY <1>1, <1>2, <1>4, UnmapAgrees

LEMMA AgreedNext ==
    ASSUME TablesInv, Owned, Agreed, [MemoryNext /\ MapsApart]_allVars
    PROVE  Agreed'
<1>1. CASE UNCHANGED allVars
  BY <1>1, MappingsSame, GrownAgrees DEF allVars, memVars
<1>2. CASE MemoryNext /\ MapsApart
  BY <1>2, StepMappings, GrownAgrees, AgreedAdded, AgreedRemoved DEF MappingStep
<1> QED
  BY <1>1, <1>2

LEMMA AgreedInit == MemoryInit => Agreed
<1> SUFFICES ASSUME MemoryInit
             PROVE  Agreed
  OBVIOUS
<1>1. Frames = {}
  BY BootForest
<1> QED
  BY <1>1 DEF Agreed, RecordsPlaced, RecordsApart

(***************************************************************************)
(* Recorded mappings are what translations come from                       *)
(***************************************************************************)

\* A frame is recorded at an address when the address is in the place of one of its
\* mappings; then that is what the address is translated to.
LEMMA RecordedPlace ==
    ASSUME TablesInv, Agreed, NEW f \in Frames, NEW v \in AddressSpaces \cap Careful,
           NEW vaddr \in PageAddress
    PROVE  LET size == mapping[f].size
           IN  /\ \A i \in MappingsInto(f, v) :
                     vaddr \in At(f, i)[2] .. At(f, i)[2] + Bytes(size) - 1 =>
                        InPlace(f, i, v, size, vaddr)
               /\ \A i \in 1 .. MaxFrameMappings : InPlace(f, i, v, size, vaddr) =>
                     /\ Recorded(f, v, vaddr)
                     /\ Translation(v, vaddr) = Leaf(mapping[f].paddr + (vaddr % Bytes(size)))
<1>1. PICK size \in Sizes : size = mapping[f].size
  BY DEF TablesInv, FrameObject, Sizes
<1>2. vaddr \in Nat /\ vaddr < Reach
  BY PageAddressReach
<1>3. \A i \in MappingsInto(f, v) : i \in 1 .. MaxFrameMappings /\ At(f, i) # None /\ At(f, i)[1] = v
  BY DEF MappingsInto, At
<1>4. ASSUME NEW i \in 1 .. MaxFrameMappings, At(f, i) # None, At(f, i)[1] = v
      PROVE  /\ At(f, i)[2] \in Nat
             /\ SamePlace(size, At(f, i)[2], vaddr) <=>
                   vaddr \in At(f, i)[2] .. At(f, i)[2] + Bytes(size) - 1
             /\ vaddr \in At(f, i)[2] .. At(f, i)[2] + Bytes(size) - 1 =>
                   vaddr % Bytes(size) = vaddr - At(f, i)[2]
  <2>1. PICK s \in Nat : s = At(f, i)[2] /\ s % Bytes(size) = 0 /\ s + Bytes(size) <= Reach
    BY <1>1, <1>4 DEF Agreed, RecordsPlaced
  <2> QED
    BY <1>2, <2>1, PlaceChunk
<1>5. ASSUME NEW i \in 1 .. MaxFrameMappings, InPlace(f, i, v, size, vaddr)
      PROVE  /\ Recorded(f, v, vaddr)
             /\ Translation(v, vaddr) = Leaf(mapping[f].paddr + (vaddr % Bytes(size)))
  <2>1. At(f, i) # None /\ At(f, i)[1] = v /\ SamePlace(size, At(f, i)[2], vaddr)
    BY <1>5 DEF InPlace
  <2>2. LeafAt(size, table, root[v], At(f, i)[2]) = Leaf(mapping[f].paddr)
    BY <1>1, <2>1 DEF Agreed, RecordsPlaced
  <2>3. LeafAt(size, table, root[v], vaddr) = Leaf(mapping[f].paddr)
    BY <2>1, <2>2, PlaceShared
  <2>4. PICK mega, page : /\ mega = LeafAt("Mega", table, root[v], vaddr)
                          /\ page = LeafAt("Small", table, root[v], vaddr)
    OBVIOUS
  <2>5. /\ Translation(v, vaddr) =
              IF mega.kind = "Leaf" THEN Leaf(mega.to + (vaddr % MegaSize))
              ELSE IF page.kind = "Leaf" THEN Leaf(page.to + (vaddr % PageSize))
              ELSE Invalid
        /\ mega.kind = "Leaf" => page = Invalid
    BY <2>4, LeavesTranslate DEF Translation
  <2>6. Translation(v, vaddr) = Leaf(mapping[f].paddr + (vaddr % Bytes(size)))
    <3>1. CASE size = "Mega"
      <4>1. mega = Leaf(mapping[f].paddr) /\ Bytes(size) = MegaSize
        BY <2>3, <2>4, <3>1 DEF Bytes
      <4> QED
        BY <2>5, <4>1, LeafKinds
    <3>2. CASE size = "Small"
      <4>1. page = Leaf(mapping[f].paddr) /\ Bytes(size) = PageSize
        BY <2>3, <2>4, <3>2 DEF Bytes
      <4> QED
        BY <2>5, <4>1, LeafKinds
    <3> QED
      BY <3>1, <3>2 DEF Sizes
  <2>7. /\ vaddr \in At(f, i)[2] .. At(f, i)[2] + Bytes(size) - 1
        /\ vaddr % Bytes(size) = vaddr - At(f, i)[2]
    BY <1>4, <2>1
  <2>8. i \in MappingsInto(f, v)
    BY <2>1 DEF MappingsInto, At
  <2> QED
    BY <1>1, <2>6, <2>7, <2>8 DEF Recorded, At
<1>6. ASSUME NEW i \in MappingsInto(f, v), vaddr \in At(f, i)[2] .. At(f, i)[2] + Bytes(size) - 1
      PROVE  InPlace(f, i, v, size, vaddr)
  BY <1>3, <1>4, <1>6 DEF InPlace
<1> QED
  BY <1>1, <1>5, <1>6

\* What is translated is what is recorded, by which only the frame and the place count.
RecordsTranslate ==
    \A v \in AddressSpaces \cap Careful, vaddr \in PageAddress :
       /\ \A f \in Frames :
             Recorded(f, v, vaddr) <=>
                \E i \in 1 .. MaxFrameMappings : InPlace(f, i, v, mapping[f].size, vaddr)
       /\ \A f \in Frames : Recorded(f, v, vaddr) =>
             Translation(v, vaddr) = Leaf(mapping[f].paddr + (vaddr % Bytes(mapping[f].size)))
       /\ Translation(v, vaddr) # Invalid /\ ~KernelPlace(v, vaddr) =>
             \E f \in Frames : Recorded(f, v, vaddr)

LEMMA RecordsTranslated == TablesInv /\ Owned /\ Agreed => RecordsTranslate /\ MappingsAgree
<1> SUFFICES ASSUME TablesInv, Owned, Agreed
             PROVE  RecordsTranslate /\ MappingsAgree
  OBVIOUS
<1>1. ASSUME NEW v \in AddressSpaces \cap Careful, NEW vaddr \in PageAddress, NEW f \in Frames,
             Recorded(f, v, vaddr)
      PROVE  \E i \in 1 .. MaxFrameMappings : InPlace(f, i, v, mapping[f].size, vaddr)
  <2>1. PICK i \in MappingsInto(f, v) :
           vaddr \in At(f, i)[2] .. At(f, i)[2] + Bytes(mapping[f].size) - 1
    BY <1>1 DEF Recorded, At
  <2>2. i \in 1 .. MaxFrameMappings
    BY DEF MappingsInto
  <2> QED
    BY <2>1, <2>2, RecordedPlace
<1>2. ASSUME NEW v \in AddressSpaces \cap Careful, NEW vaddr \in PageAddress,
             Translation(v, vaddr) # Invalid, ~KernelPlace(v, vaddr)
      PROVE  \E f \in Frames : Recorded(f, v, vaddr)
  <2>1. PICK mega, page : /\ mega = LeafAt("Mega", table, root[v], vaddr)
                          /\ page = LeafAt("Small", table, root[v], vaddr)
    OBVIOUS
  <2>2. mega.kind = "Leaf" \/ page.kind = "Leaf"
    BY <1>2, <2>1, LeavesTranslate DEF Translation
  <2>3. PICK size \in Sizes : LeafAt(size, table, root[v], vaddr) # Invalid
    BY <2>1, <2>2, LeafKinds DEF Sizes
  <2>4. vaddr \in Nat /\ ~KernelAt(size, v, vaddr)
    BY <1>2, PageAddressReach, KernelPlaces DEF KernelAt
  <2>5. PICK f \in Frames, i \in 1 .. MaxFrameMappings :
           mapping[f].size = size /\ InPlace(f, i, v, size, vaddr)
    BY <2>3, <2>4 DEF Owned, LeavesOwned
  <2> QED
    BY <2>5, RecordedPlace
<1>3. RecordsTranslate
  BY <1>1, <1>2, RecordedPlace DEF RecordsTranslate
<1>4. ASSUME NEW v \in AddressSpaces \cap Careful, NEW vaddr \in PageAddress, NEW f \in Frames,
             NEW i \in MappingsInto(f, v),
             vaddr \in mapping[f].mapped_at[i][2] .. mapping[f].mapped_at[i][2]
                                                       + Bytes(mapping[f].size) - 1
      PROVE  Recorded(f, v, vaddr)
  <2>1. InPlace(f, i, v, mapping[f].size, vaddr)
    BY <1>4, RecordedPlace DEF At
  <2>2. i \in 1 .. MaxFrameMappings
    BY DEF MappingsInto
  <2> QED
    BY <2>1, <2>2, RecordedPlace
<1>5. MappingsAgree
  BY <1>2, <1>4 DEF MappingsAgree
<1> QED
  BY <1>3, <1>5

\* No mapping comes or goes but the step's own frame's.
LEMMA RecordsOfOthers ==
    ASSUME TablesInv, NEW f \in Frames, MappingAdded(f) \/ MappingRemoved(f)
    PROVE  /\ Frames' = Frames /\ AddressSpaces' = AddressSpaces /\ root' = root
           /\ \A g \in Frames : /\ mapping'[g].size = mapping[g].size
                                /\ mapping'[g].paddr = mapping[g].paddr
           /\ \A g \in Frames \ {f}, i \in 1 .. MaxFrameMappings : \A v, size, a :
                 InPlace(g, i, v, size, a)' <=> InPlace(g, i, v, size, a)
<1>1. taken' = taken /\ root' = root
  BY DEF MappingAdded, MappingRemoved
<1>2. PICK i \in 1 .. MaxFrameMappings : \E x : mapping' = [mapping EXCEPT ![f].mapped_at[i] = x]
  BY DEF MappingAdded, MappingRemoved
<1>3. /\ Frames' = Frames /\ AddressSpaces' = AddressSpaces
      /\ \A g \in Frames, j \in 1 .. MaxFrameMappings :
            ~(g = f /\ j = i) => At(g, j)' = At(g, j)
      /\ \A g \in Frames : /\ mapping'[g].size = mapping[g].size
                           /\ mapping'[g].paddr = mapping[g].paddr
  <2>1. PICK x : mapping' = [mapping EXCEPT ![f].mapped_at[i] = x]
    BY <1>2
  <2> QED
    BY <1>1, <2>1, RecordSet DEF OneRecordSet
<1> QED
  BY <1>1, <1>3 DEF InPlace

LEMMA StepAuthorised ==
    ASSUME TablesInv, Owned, RecordsTranslate, RecordsTranslate', KernelMapped, KernelMapped',
           [MemoryNext]_allVars, NEW v \in AddressSpaces \cap Careful, NEW vaddr \in PageAddress,
           Translation(v, vaddr)' # Translation(v, vaddr)
    PROVE  /\ Turned(v, vaddr) # {}
           /\ \A f \in Turned(v, vaddr) : Wields("Frame", f, "WRITE")
<1>1. PICK f \in Frames : Wields("Frame", f, "WRITE") /\ (MappingAdded(f) \/ MappingRemoved(f))
  <2>1. ~MappingsGrown
    BY DEF MappingsGrown, Translation
  <2> QED
    BY <2>1, StepMappings DEF MappingStep
<1>2. /\ Frames' = Frames /\ AddressSpaces' = AddressSpaces
      /\ \A g \in Frames : /\ mapping'[g].size = mapping[g].size
                           /\ mapping'[g].paddr = mapping[g].paddr
      /\ \A g \in Frames \ {f}, i \in 1 .. MaxFrameMappings : \A size :
            InPlace(g, i, v, size, vaddr)' <=> InPlace(g, i, v, size, vaddr)
  BY <1>1, RecordsOfOthers
<1>3. ~KernelPlace(v, vaddr)
  BY DEF KernelMapped, KernelPlace
\* Before and after the step a translation comes from what is recorded.
<1>4. /\ \A g \in Frames :
            Recorded(g, v, vaddr) <=>
               \E i \in 1 .. MaxFrameMappings : InPlace(g, i, v, mapping[g].size, vaddr)
      /\ \A g \in Frames : Recorded(g, v, vaddr) =>
            Translation(v, vaddr) = Leaf(mapping[g].paddr + (vaddr % Bytes(mapping[g].size)))
      /\ Translation(v, vaddr) # Invalid => \E g \in Frames : Recorded(g, v, vaddr)
  BY <1>3 DEF RecordsTranslate
<1>5. /\ \A g \in Frames :
            Recorded(g, v, vaddr)' <=>
               \E i \in 1 .. MaxFrameMappings : InPlace(g, i, v, mapping[g].size, vaddr)'
      /\ \A g \in Frames : Recorded(g, v, vaddr)' =>
            Translation(v, vaddr)' = Leaf(mapping[g].paddr + (vaddr % Bytes(mapping[g].size)))
      /\ Translation(v, vaddr)' # Invalid => \E g \in Frames : Recorded(g, v, vaddr)'
  BY <1>2, <1>3 DEF RecordsTranslate
<1>6. ASSUME NEW g \in Frames \ {f}
      PROVE  Recorded(g, v, vaddr) = Recorded(g, v, vaddr)'
  <2>1. Recorded(g, v, vaddr) <=> Recorded(g, v, vaddr)'
    BY <1>2, <1>4, <1>5
  <2> QED
    BY <2>1 DEF Recorded
<1>7. Turned(v, vaddr) \subseteq {f}
  BY <1>6 DEF Turned
<1>8. ASSUME Turned(v, vaddr) = {}
      PROVE  FALSE
  <2>1. \A g \in Frames : Recorded(g, v, vaddr) <=> Recorded(g, v, vaddr)'
    BY <1>8 DEF Turned
  <2>2. CASE \E g \in Frames : Recorded(g, v, vaddr)
    BY <1>4, <1>5, <2>1, <2>2
  <2>3. CASE ~\E g \in Frames : Recorded(g, v, vaddr)
    BY <1>4, <1>5, <2>1, <2>3
  <2> QED
    BY <2>2, <2>3
<1> QED
  BY <1>1, <1>7, <1>8

\* A system of careful programs is one of programs.
LEMMA CarefulIsMemory == CarefulSpec => MemorySpec
<1>1. [MemoryNext /\ MapsApart]_allVars => [MemoryNext]_allVars
  OBVIOUS
<1> QED
  BY <1>1, PTL DEF CarefulSpec, MemorySpec

\* In every reachable state of a system in which whoever maps into a careful program's
\* address space maps where nothing is, its records and its page tables agree.
THEOREM AgreedInvariance == CarefulSpec => []Agreed
  BY AgreedInit, AgreedNext, CarefulIsMemory, TablesInvariance, OwnedInvariance, PTL
     DEF CarefulSpec

\* Whatever frames are made, mapped and unmapped, in whatever order, a mapping recorded in a
\* careful program's address space translates every page of its frame, and but for the kernel
\* nothing is translated there that no frame records, so that Unmap could not remove it. The
\* other programs may map what they like; the kernel does not see to it that a megapage goes
\* over no table of pages, and nothing beyond what the three levels reach (frame.rs:116).
THEOREM MappingsCorrect == CarefulSpec => []MappingsAgree
  BY RecordsTranslated, CarefulIsMemory, TablesInvariance, OwnedInvariance, AgreedInvariance, PTL

\* Then a translation there only ever changes together with what some frame records, and with
\* the records of none that the running thread has no authority over.
THEOREM TranslationsCorrect == CarefulSpec => TranslationAuthorised
<1>1. TablesInv /\ Owned /\ RecordsTranslate /\ RecordsTranslate' /\ KernelMapped
         /\ KernelMapped' /\ [MemoryNext]_allVars =>
            [\A v \in AddressSpaces \cap Careful, vaddr \in PageAddress :
                Translation(v, vaddr)' # Translation(v, vaddr) =>
                   /\ Turned(v, vaddr) # {}
                   /\ \A f \in Turned(v, vaddr) : Wields("Frame", f, "WRITE")]_allVars
  BY StepAuthorised
<1>2. CarefulSpec => []TablesInv /\ []Owned /\ []RecordsTranslate /\ []KernelMapped
  BY RecordsTranslated, CarefulIsMemory, TablesInvariance, OwnedInvariance, AgreedInvariance,
     KernelMappedCorrect, PTL
<1> QED
  BY <1>1, <1>2, CarefulIsMemory, PTL DEF MemorySpec, TranslationAuthorised
=============================================================================
