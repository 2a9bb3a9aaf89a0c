-------------------------- MODULE ArrayQueueProofs --------------------------
(***************************************************************************)
(* Proofs that the ring buffer of ArrayQueue, whatever its capacity, is    *)
(* the bounded FIFO of Fifo.                                               *)
(***************************************************************************)
EXTENDS ArrayQueue, TLAPS, SequenceTheorems

\* What every reachable state of the ring buffer satisfies, and what the
\* correctness of each step rests on.
Sound == TypeOK /\ WriteBehindRead /\ FilledExactly

(***************************************************************************)
(* Places of the array                                                     *)
(***************************************************************************)

\* Wrapping an index that runs at most once around the array.
LEMMA Wrap ==
    ASSUME NEW h \in Index, NEW k \in 0 .. MaxTcbs
    PROVE  (h + k) % MaxTcbs = IF h + k < MaxTcbs THEN h + k ELSE h + k - MaxTcbs
<1>1. MaxTcbs \in Nat \ {0}
  BY CapacityAssumption
<1>2. \A x \in 0 .. MaxTcbs - 1 : x % MaxTcbs = x
  BY <1>1
<1>3. \A x \in MaxTcbs .. 2 * MaxTcbs - 1 : x % MaxTcbs = x - MaxTcbs
  BY <1>1
<1>4. CASE h + k < MaxTcbs
  BY <1>1, <1>2, <1>4 DEF Index
<1>5. CASE h + k >= MaxTcbs
  BY <1>1, <1>3, <1>5 DEF Index
<1> QED
  BY <1>1, <1>4, <1>5 DEF Index

\* The places behind the head are different indices, the head is the first, and
\* the cursor that follows one moves to the next.
LEMMA PlacesDiffer ==
    ASSUME head \in Index
    PROVE  /\ \A k \in Index : At(k) \in Index
           /\ \A k, m \in Index : At(k) = At(m) => k = m
           /\ At(0) = head
           /\ \A k \in Index : (At(k) + 1) % MaxTcbs = At(k + 1)
<1>1. MaxTcbs \in Nat \ {0}
  BY CapacityAssumption
<1>2. \A k \in 0 .. MaxTcbs :
         At(k) = IF head + k < MaxTcbs THEN head + k ELSE head + k - MaxTcbs
  BY Wrap DEF At
<1>3. \A k \in Index : At(k) \in Index
  BY <1>1, <1>2 DEF Index
<1>4. \A k, m \in Index : At(k) = At(m) => k = m
  BY <1>1, <1>2 DEF Index
<1>5. At(0) = head
  BY <1>1, <1>2 DEF Index
<1>6. ASSUME NEW k \in Index
      PROVE  (At(k) + 1) % MaxTcbs = At(k + 1)
  <2>1. At(k) \in Index /\ 1 \in 0 .. MaxTcbs
    BY <1>1, <1>3
  <2>2. (At(k) + 1) % MaxTcbs = IF At(k) + 1 < MaxTcbs THEN At(k) + 1 ELSE At(k) + 1 - MaxTcbs
    BY <2>1, Wrap
  <2>3. k \in 0 .. MaxTcbs /\ k + 1 \in 0 .. MaxTcbs
    BY <1>1 DEF Index
  <2> QED
    BY <1>1, <1>2, <2>2, <2>3 DEF Index
<1> QED
  BY <1>3, <1>4, <1>5, <1>6

\* Moving the head one place on renumbers the places.
LEMMA HeadMoves ==
    ASSUME head \in Index, head' = At(1)
    PROVE  /\ head' \in Index
           /\ \A k \in Index : At(k)' = IF k = MaxTcbs - 1 THEN At(0) ELSE At(k + 1)
<1>1. MaxTcbs \in Nat \ {0}
  BY CapacityAssumption
<1>2. \A k \in 0 .. MaxTcbs :
         At(k) = IF head + k < MaxTcbs THEN head + k ELSE head + k - MaxTcbs
  BY Wrap DEF At
<1>3. head' \in Index
  BY <1>1, <1>2 DEF Index
<1>4. \A k \in Index :
         At(k)' = IF head' + k < MaxTcbs THEN head' + k ELSE head' + k - MaxTcbs
  <2>1. \A k \in Index : k \in 0 .. MaxTcbs
    BY <1>1 DEF Index
  <2>2. \A k \in Index : At(k)' = (head' + k) % MaxTcbs
    BY DEF At
  <2> QED
    BY <1>3, <2>1, <2>2, Wrap
<1>5. \A k \in Index : k \in 0 .. MaxTcbs /\ k + 1 \in 0 .. MaxTcbs
  BY <1>1 DEF Index
<1>6. 0 \in 0 .. MaxTcbs /\ 1 \in 0 .. MaxTcbs
  BY <1>1
<1>7. head' = IF head + 1 < MaxTcbs THEN head + 1 ELSE head + 1 - MaxTcbs
  BY <1>2, <1>6
<1>8. ASSUME NEW k \in Index
      PROVE  At(k)' = IF k = MaxTcbs - 1 THEN At(0) ELSE At(k + 1)
  <2>1. /\ At(0) = head
        /\ At(k + 1) = IF head + (k + 1) < MaxTcbs THEN head + (k + 1)
                      ELSE head + (k + 1) - MaxTcbs
    BY <1>1, <1>2, <1>5, <1>6 DEF Index
  <2>2. At(k)' = IF head' + k < MaxTcbs THEN head' + k ELSE head' + k - MaxTcbs
    BY <1>4
  <2>3. head \in Index /\ k \in Index
    OBVIOUS
  <2> HIDE DEF At
  <2>4. CASE head + 1 < MaxTcbs
    BY <1>1, <1>7, <2>1, <2>2, <2>3, <2>4 DEF Index
  <2>5. CASE head + 1 >= MaxTcbs
    <3>1. head = MaxTcbs - 1 /\ head' = 0
      BY <1>1, <1>7, <2>3, <2>5 DEF Index
    <3>2. At(k)' = k
      BY <1>1, <2>2, <2>3, <3>1 DEF Index
    <3> QED
      BY <1>1, <2>1, <2>3, <3>1, <3>2 DEF Index
  <2> QED
    BY <1>1, <2>3, <2>4, <2>5 DEF Index
<1> QED
  BY <1>3, <1>8

(***************************************************************************)
(* The invariant                                                           *)
(***************************************************************************)

\* The locals of a remove, under way or not.
LEMMA PassType ==
    ASSUME TypeOK, WriteBehindRead
    PROVE  /\ MaxTcbs \in Nat \ {0} /\ len \in 0 .. MaxTcbs /\ head \in Index
           /\ pass.on \in BOOLEAN /\ pass.found \in BOOLEAN
           /\ pass.i \in 0 .. len /\ pass.new_len \in 0 .. pass.i
           /\ pass.new_len = pass.i - (IF pass.found THEN 1 ELSE 0)
           /\ ~pass.on => pass = Idle /\ pass.i = 0 /\ pass.new_len = 0 /\ ~pass.found
           /\ pass.on => pass.value \in Value /\ pass.write \in Index
<1>1. MaxTcbs \in Nat \ {0} /\ len \in 0 .. MaxTcbs /\ head \in Index
  BY CapacityAssumption DEF TypeOK
<1>2. CASE pass = Idle
  BY <1>1, <1>2 DEF Idle
<1>3. CASE pass # Idle
  <2>1. pass \in [on : {TRUE}, value : Value, i : 0 .. len, write : Index,
                  new_len : 0 .. len, found : BOOLEAN]
    BY <1>3 DEF TypeOK
  <2>2. /\ pass.on = TRUE /\ pass.value \in Value /\ pass.i \in 0 .. len
        /\ pass.write \in Index /\ pass.new_len \in 0 .. len /\ pass.found \in BOOLEAN
    BY <2>1
  <2>3. pass.new_len = pass.i - (IF pass.found THEN 1 ELSE 0)
    BY <2>2 DEF WriteBehindRead
  <2>4. CASE pass.found
    <3>1. pass.new_len = pass.i - 1
      BY <2>3, <2>4
    <3>2. pass.new_len \in 0 .. pass.i
      BY <1>1, <2>2, <3>1
    <3> QED
      BY <1>1, <2>2, <2>3, <3>2
  <2>5. CASE ~pass.found
    <3>1. pass.new_len = pass.i
      BY <2>2, <2>3, <2>5
    <3>2. pass.new_len \in 0 .. pass.i
      BY <1>1, <2>2, <3>1
    <3> QED
      BY <1>1, <2>2, <2>3, <3>2
  <2> QED
    BY <2>4, <2>5
<1> QED
  BY <1>2, <1>3

\* Queueing a value preserves the invariant (push_back).
LEMMA PushSound ==
    ASSUME Sound, NEW v \in Value, Push(v)
    PROVE  Sound'
<1>1. TypeOK /\ WriteBehindRead /\ FilledExactly
  BY DEF Sound
<1>2. CASE len >= MaxTcbs
  <2>1. UNCHANGED <<items, len, head, pass>> /\ answer' = FALSE
    BY <1>1, <1>2, PassType DEF Push
  <2> QED
    BY <1>1, <2>1 DEF Sound, TypeOK, WriteBehindRead, FilledExactly, Places, At
<1>3. CASE len < MaxTcbs
  <2>1. /\ items' = [items EXCEPT ![At(len)] = v] /\ len' = len + 1 /\ answer' = TRUE
        /\ ~pass.on /\ pass = Idle /\ UNCHANGED <<head, pass>>
    BY <1>1, <1>3, PassType DEF Push
  <2>2. /\ MaxTcbs \in Nat \ {0} /\ len \in Index /\ head \in Index
        /\ v # None /\ pass.i = 0 /\ pass.new_len = 0
    BY <1>1, <1>3, <2>1, PassType, ValueAssumption DEF Index
  <2>3. At(len) \in Index /\ \A k \in Index : At(k) \in Index /\ At(k)' = At(k)
    BY <2>1, <2>2, PlacesDiffer DEF At
  <2>4. TypeOK'
    BY <1>1, <2>1, <2>2, <2>3 DEF TypeOK, Index
  <2>5. ASSUME NEW k \in Index
        PROVE  items'[At(k)] # None <=> k \in Places'
    <3>1. items'[At(k)] = IF k = len THEN v ELSE items[At(k)]
      BY <1>1, <2>1, <2>2, <2>3, PlacesDiffer DEF TypeOK
    <3>2. k \in Places' <=> k \in Places \/ k = len
      BY <2>1, <2>2 DEF Places, Index
    <3> QED
      BY <1>1, <2>2, <3>1, <3>2 DEF FilledExactly
  <2>6. FilledExactly'
    BY <2>3, <2>5 DEF FilledExactly
  <2> QED
    BY <2>1, <2>4, <2>6 DEF Sound, WriteBehindRead
<1> QED
  BY <1>1, <1>2, <1>3, PassType

\* Taking the first entry preserves the invariant (pop_front).
LEMMA PopSound ==
    ASSUME Sound, Pop
    PROVE  Sound'
<1>1. TypeOK /\ WriteBehindRead /\ FilledExactly
  BY DEF Sound
<1>2. /\ MaxTcbs \in Nat \ {0} /\ head \in Index /\ len \in 0 .. MaxTcbs
      /\ pass' = pass /\ ~pass.on /\ pass.i = 0 /\ pass.new_len = 0
  BY <1>1, PassType DEF Pop
<1>3. CASE len = 0
  <2>1. UNCHANGED <<items, len, head, pass>> /\ answer' = None
    BY <1>2, <1>3 DEF Pop
  <2> QED
    BY <1>1, <2>1 DEF Sound, TypeOK, WriteBehindRead, FilledExactly, Places, At
<1>4. CASE len > 0
  <2>1. /\ answer' = items[head] /\ items' = [items EXCEPT ![head] = None]
        /\ head' = At(1) /\ len' = len - 1
    BY <1>2, <1>4 DEF Pop
  <2>2. TypeOK'
    <3>1. head' \in Index
      BY <1>2, <2>1, HeadMoves
    <3>2. items' \in [Index -> Value \cup {None}] /\ answer' \in Value \cup {None}
      BY <1>1, <1>2, <2>1 DEF TypeOK
    <3>3. len' \in 0 .. MaxTcbs /\ pass' = Idle
      BY <1>1, <1>2, <1>4, <2>1, PassType
    <3> QED
      BY <3>1, <3>2, <3>3 DEF TypeOK
  <2>3. ASSUME NEW k \in Index
        PROVE  items'[At(k)'] # None <=> k \in Places'
    <3>1. At(k)' = IF k = MaxTcbs - 1 THEN At(0) ELSE At(k + 1)
      BY <1>2, <2>1, HeadMoves
    <3>2. k \in Places' <=> k < len - 1
      BY <1>2, <2>1 DEF Places, Index
    <3>3. CASE k = MaxTcbs - 1
      BY <1>1, <1>2, <2>1, <3>1, <3>2, <3>3, PlacesDiffer DEF TypeOK
    <3>4. CASE k # MaxTcbs - 1
      <4>1. k + 1 \in Index /\ k + 1 # 0 /\ 0 \in Index
        BY <1>2, <3>4 DEF Index
      <4>2. items'[At(k)'] = items[At(k + 1)]
        BY <1>1, <1>2, <2>1, <3>1, <3>4, <4>1, PlacesDiffer DEF TypeOK
      <4>3. items[At(k + 1)] # None <=> k + 1 < len
        <5>1. k + 1 \in Places <=> k + 1 < len
          BY <1>2, <4>1 DEF Places, Index
        <5> QED
          BY <1>1, <4>1, <5>1 DEF FilledExactly
      <4> QED
        BY <1>2, <3>2, <4>2, <4>3 DEF Index
    <3> QED
      BY <3>3, <3>4
  <2>4. FilledExactly'
    BY <2>3 DEF FilledExactly
  <2> QED
    BY <1>2, <2>2, <2>4 DEF Sound, WriteBehindRead
<1> QED
  BY <1>2, <1>3, <1>4

\* Starting a removal preserves the invariant.
LEMMA StartRemoveSound ==
    ASSUME Sound, NEW v \in Value, StartRemove(v)
    PROVE  Sound'
<1>1. TypeOK /\ WriteBehindRead /\ FilledExactly
  BY DEF Sound
<1>2. /\ MaxTcbs \in Nat \ {0} /\ head \in Index /\ len \in 0 .. MaxTcbs
      /\ pass.i = 0 /\ pass.new_len = 0 /\ UNCHANGED <<items, head, len, answer>>
  BY <1>1, PassType DEF StartRemove
<1>3. /\ pass' \in [on : {TRUE}, value : Value, i : 0 .. len, write : Index,
                    new_len : 0 .. len, found : BOOLEAN]
      /\ pass'.on = TRUE /\ pass'.value = v /\ pass'.write = head
      /\ pass'.i = 0 /\ pass'.new_len = 0 /\ pass'.found = FALSE
  <2>1. pass' = [on |-> TRUE, value |-> v, i |-> 0, write |-> head, new_len |-> 0, found |-> FALSE]
    BY DEF StartRemove, Idle
  <2>2. 0 \in 0 .. len
    BY <1>2
  <2> QED
    BY <1>2, <2>1, <2>2
<1>4. TypeOK'
  BY <1>1, <1>2, <1>3 DEF TypeOK
<1>5. WriteBehindRead'
  <2>1. At(0) = head
    BY <1>2, PlacesDiffer
  <2>2. At(pass.new_len)' = At(0)
    BY <1>2, <1>3 DEF At
  <2>3. \A k \in 0 .. pass'.i - 1 : items'[At(k)'] # pass'.value
    BY <1>3
  <2>4. pass'.new_len = pass'.i - (IF pass'.found THEN 1 ELSE 0)
    <3>1. pass'.i = 0 /\ pass'.new_len = 0 /\ (IF pass'.found THEN 1 ELSE 0) = 0
      BY <1>3
    <3>2. 0 = 0 - 0
      OBVIOUS
    <3> QED
      BY <3>1, <3>2, Zenon
  <2> QED
    BY <1>2, <1>3, <2>1, <2>2, <2>3, <2>4 DEF WriteBehindRead, At
<1>6. FilledExactly'
  BY <1>1, <1>2, <1>3 DEF FilledExactly, Places, At
<1> QED
  BY <1>4, <1>5, <1>6 DEF Sound

\* What a removal that has not reached the end reads: an entry, at its read cursor.
LEMMA ReadCursor ==
    ASSUME Sound, Reading
    PROVE  /\ MaxTcbs \in Nat \ {0} /\ head \in Index /\ len \in 0 .. MaxTcbs
           /\ pass.i \in Index /\ pass.i < len
           /\ pass.new_len \in Index /\ pass.new_len <= pass.i
           /\ pass \in [on : {TRUE}, value : Value, i : 0 .. len, write : Index,
                        new_len : 0 .. len, found : BOOLEAN]
           /\ pass.write = At(pass.new_len) /\ At(pass.i) \in Index
           /\ items[At(pass.i)] \in Value
<1>1. TypeOK /\ WriteBehindRead /\ FilledExactly
  BY DEF Sound
<1>2. /\ MaxTcbs \in Nat \ {0} /\ head \in Index /\ len \in 0 .. MaxTcbs
      /\ pass.i \in 0 .. len /\ pass.new_len \in 0 .. pass.i /\ pass.on /\ pass.i < len
  BY <1>1, PassType DEF Reading
<1>3. pass.i \in Index /\ pass.new_len \in Index /\ pass.new_len <= pass.i
  BY <1>2 DEF Index
<1>4. pass \in [on : {TRUE}, value : Value, i : 0 .. len, write : Index,
                new_len : 0 .. len, found : BOOLEAN]
  <2>1. pass # Idle
    BY <1>2 DEF Idle
  <2> QED
    BY <1>1, <2>1 DEF TypeOK
<1>5. pass.write = At(pass.new_len)
  BY <1>1, <1>2 DEF WriteBehindRead
<1>6. At(pass.i) \in Index
  BY <1>2, <1>3, PlacesDiffer
<1>7. items[At(pass.i)] \in Value
  <2>1. pass.i \in Places
    BY <1>2, <1>3 DEF Places, Index
  <2>2. items[At(pass.i)] # None
    BY <1>1, <1>3, <2>1 DEF FilledExactly
  <2> QED
    BY <1>1, <1>6, <2>2 DEF TypeOK
<1> QED
  BY <1>2, <1>3, <1>4, <1>5, <1>6, <1>7

\* Dropping the value opens the gap between the cursors.
LEMMA DropItemSound ==
    ASSUME Sound, DropItem
    PROVE  Sound'
<1>1. TypeOK /\ WriteBehindRead /\ FilledExactly /\ Reading /\ Dropped
  BY DEF Sound, DropItem
<1>2. /\ MaxTcbs \in Nat \ {0} /\ head \in Index /\ len \in 0 .. MaxTcbs
      /\ pass.i \in Index /\ pass.i < len
      /\ pass \in [on : {TRUE}, value : Value, i : 0 .. len, write : Index,
                   new_len : 0 .. len, found : BOOLEAN]
      /\ pass.write = At(pass.new_len) /\ At(pass.i) \in Index
  BY <1>1, ReadCursor
<1>3. /\ items' = [items EXCEPT ![At(pass.i)] = None]
      /\ pass' = [pass EXCEPT !.found = TRUE, !.i = @ + 1]
      /\ UNCHANGED <<head, len, answer>>
  BY DEF DropItem
<1>4. pass.new_len = pass.i
  BY <1>1, <1>2 DEF WriteBehindRead, Reading, Dropped
<1>5. /\ pass'.on = TRUE /\ pass'.value = pass.value /\ pass'.write = pass.write
      /\ pass'.i = pass.i + 1 /\ pass'.new_len = pass.i /\ pass'.found = TRUE
  BY <1>2, <1>3, <1>4
<1>6. TypeOK'
  <2>1. pass' \in [on : {TRUE}, value : Value, i : 0 .. len, write : Index,
                   new_len : 0 .. len, found : BOOLEAN]
    <3>1. pass.i + 1 \in 0 .. len
      BY <1>2 DEF Index
    <3> QED
      BY <1>2, <1>3, <3>1
  <2> QED
    BY <1>1, <1>2, <1>3, <2>1 DEF TypeOK
<1>7. \A k \in Index : At(k)' = At(k)
  BY <1>3 DEF At
<1>8. WriteBehindRead'
  <2>1. pass'.write = At(pass.new_len)'
    BY <1>2, <1>3, <1>4, <1>5 DEF At
  <2>2. pass'.new_len = pass'.i - 1
    BY <1>2, <1>5 DEF Index
  <2> QED
    BY <1>5, <2>1, <2>2 DEF WriteBehindRead
<1>9. ASSUME NEW k \in Index
      PROVE  items'[At(k)] # None <=> k \in Places'
  <2>1. items'[At(k)] = IF k = pass.i THEN None ELSE items[At(k)]
    BY <1>1, <1>2, <1>3, PlacesDiffer DEF TypeOK
  <2>2. k \in Places' <=> k \in Places /\ k # pass.i
    BY <1>2, <1>3, <1>4, <1>5 DEF Places, Index
  <2> QED
    BY <1>1, <2>1, <2>2 DEF FilledExactly
<1>10. FilledExactly'
  BY <1>7, <1>9 DEF FilledExactly
<1> QED
  BY <1>6, <1>8, <1>10 DEF Sound

\* Keeping an entry moves it to the write cursor; before the value is found it
\* stays where it was.
LEMMA KeepItemMoves ==
    ASSUME Sound, KeepItem
    PROVE  \A k \in Index :
              items'[At(k)] = IF k = pass.new_len THEN items[At(pass.i)]
                              ELSE IF k = pass.i THEN None ELSE items[At(k)]
<1>1. Reading /\ items \in [Index -> Value \cup {None}]
  BY DEF Sound, TypeOK, KeepItem
<1>2. /\ head \in Index /\ pass.i \in Index /\ pass.new_len \in Index
      /\ pass.write = At(pass.new_len)
  BY <1>1, ReadCursor
<1>3. items' = [items EXCEPT ![At(pass.i)] = None, ![pass.write] = items[At(pass.i)]]
  BY DEF KeepItem
<1>4. ASSUME NEW k \in Index
      PROVE  items'[At(k)] = IF At(k) = pass.write THEN items[At(pass.i)]
                             ELSE IF At(k) = At(pass.i) THEN None ELSE items[At(k)]
  <2>1. At(k) \in Index
    BY <1>2, PlacesDiffer
  <2> QED
    BY <1>1, <1>3, <2>1
<1> QED
  BY <1>2, <1>4, PlacesDiffer

\* Keeping an entry preserves the invariant.
LEMMA KeepItemSound ==
    ASSUME Sound, KeepItem
    PROVE  Sound'
<1>1. TypeOK /\ WriteBehindRead /\ FilledExactly /\ Reading /\ ~Dropped
  BY DEF Sound, KeepItem
<1>2. /\ MaxTcbs \in Nat \ {0} /\ head \in Index /\ len \in 0 .. MaxTcbs
      /\ pass.i \in Index /\ pass.i < len /\ pass.new_len \in Index /\ pass.new_len <= pass.i
      /\ pass \in [on : {TRUE}, value : Value, i : 0 .. len, write : Index,
                   new_len : 0 .. len, found : BOOLEAN]
      /\ pass.write = At(pass.new_len) /\ At(pass.i) \in Index
      /\ items[At(pass.i)] \in Value
  BY <1>1, ReadCursor
<1>3. /\ items' = [items EXCEPT ![At(pass.i)] = None, ![pass.write] = items[At(pass.i)]]
      /\ pass' = [pass EXCEPT !.write = (@ + 1) % MaxTcbs, !.new_len = @ + 1, !.i = @ + 1]
      /\ UNCHANGED <<head, len, answer>>
  BY DEF KeepItem
<1>4. pass.new_len = pass.i - (IF pass.found THEN 1 ELSE 0)
  BY <1>1, <1>2, PassType
<1>5. /\ pass'.on = TRUE /\ pass'.value = pass.value /\ pass'.found = pass.found
      /\ pass'.write = (At(pass.new_len) + 1) % MaxTcbs
      /\ pass'.i = pass.i + 1 /\ pass'.new_len = pass.new_len + 1
  BY <1>2, <1>3
<1>6. pass'.write = At(pass.new_len + 1) /\ pass'.write \in Index
  <2>1. At(pass.new_len) \in Index /\ 1 \in 0 .. MaxTcbs
    BY <1>2, PlacesDiffer
  <2>2. (At(pass.new_len) + 1) % MaxTcbs \in Index
    <3>1. (At(pass.new_len) + 1) % MaxTcbs =
             IF At(pass.new_len) + 1 < MaxTcbs THEN At(pass.new_len) + 1
             ELSE At(pass.new_len) + 1 - MaxTcbs
      BY <2>1, Wrap
    <3> QED
      BY <1>2, <2>1, <3>1 DEF Index
  <2> QED
    BY <1>2, <1>5, <2>2, PlacesDiffer
<1>7. \A k \in Index : At(k)' = At(k)
  BY <1>3 DEF At
<1>8. TypeOK'
  <2>1. pass.i + 1 \in 0 .. len /\ pass.new_len + 1 \in 0 .. len
    BY <1>2 DEF Index
  <2>2. pass' = [on |-> TRUE, value |-> pass.value, i |-> pass.i + 1,
                 write |-> At(pass.new_len + 1), new_len |-> pass.new_len + 1,
                 found |-> pass.found]
    BY <1>2, <1>3, <1>5, <1>6
  <2>3. pass' \in [on : {TRUE}, value : Value, i : 0 .. len, write : Index,
                   new_len : 0 .. len, found : BOOLEAN]
    <3>1. pass.value \in Value /\ pass.found \in BOOLEAN /\ At(pass.new_len + 1) \in Index
      BY <1>2, <1>6
    <3> QED
      BY <2>1, <2>2, <3>1
  <2>4. items' \in [Index -> Value \cup {None}]
    BY <1>1, <1>2, <1>3 DEF TypeOK
  <2> QED
    BY <1>1, <1>2, <1>3, <2>3, <2>4 DEF TypeOK
<1>9. WriteBehindRead'
  <2>1. pass'.write = At(pass.new_len)'
    BY <1>3, <1>5, <1>6 DEF At
  <2>2. pass'.new_len = pass'.i - (IF pass'.found THEN 1 ELSE 0)
    BY <1>2, <1>4, <1>5 DEF Index
  <2>3. ASSUME ~pass.found, NEW k \in 0 .. pass.i
        PROVE  items'[At(k)] # pass.value
    <3>1. k \in Index /\ pass.new_len = pass.i
      BY <1>2, <1>4, <2>3 DEF Index
    <3>2. items'[At(k)] = items[At(k)]
      BY <1>1, <3>1, KeepItemMoves DEF Sound
    <3>3. CASE k = pass.i
      BY <1>1, <2>3, <3>2, <3>3 DEF Dropped
    <3>4. CASE k # pass.i
      <4>1. k \in 0 .. pass.i - 1
        BY <1>2, <3>4 DEF Index
      <4> QED
        BY <1>1, <2>3, <3>2, <4>1 DEF WriteBehindRead, Reading
    <3> QED
      BY <3>3, <3>4
  <2>4. ~pass'.found => \A k \in 0 .. pass'.i - 1 : items'[At(k)'] # pass'.value
    <3>1. 0 .. pass'.i - 1 = 0 .. pass.i /\ 0 .. pass.i \subseteq Index
      BY <1>2, <1>5 DEF Index
    <3> QED
      BY <1>5, <1>7, <2>3, <3>1
  <2> QED
    BY <2>1, <2>2, <2>4 DEF WriteBehindRead
<1>10. ASSUME NEW k \in Index
       PROVE  items'[At(k)] # None <=> k \in Places'
  <2>1. items'[At(k)] = IF k = pass.new_len THEN items[At(pass.i)]
                        ELSE IF k = pass.i THEN None ELSE items[At(k)]
    BY KeepItemMoves
  <2>2. k \in Places' <=> k = pass.new_len \/ (k \in Places /\ k # pass.i)
    BY <1>2, <1>3, <1>4, <1>5 DEF Places, Index
  <2>3. items[At(pass.i)] # None
    BY <1>2, ValueAssumption
  <2>4. items[At(k)] # None <=> k \in Places
    BY <1>1 DEF FilledExactly
  <2> QED
    BY <2>1, <2>2, <2>3, <2>4
<1>11. FilledExactly'
  BY <1>7, <1>10 DEF FilledExactly
<1> QED
  BY <1>8, <1>9, <1>11 DEF Sound

\* The end of a removal preserves the invariant.
LEMMA FinishRemoveSound ==
    ASSUME Sound, FinishRemove
    PROVE  Sound'
<1>1. TypeOK /\ WriteBehindRead /\ FilledExactly
  BY DEF Sound
<1>2. /\ MaxTcbs \in Nat \ {0} /\ len \in 0 .. MaxTcbs
      /\ pass.found \in BOOLEAN /\ pass.i = len /\ pass.new_len \in 0 .. len
  BY <1>1, PassType DEF FinishRemove
<1>3. /\ len' = pass.new_len /\ answer' = pass.found /\ pass' = Idle
      /\ UNCHANGED <<items, head>>
  BY DEF FinishRemove
<1>4. pass'.on = FALSE /\ pass'.i = 0 /\ pass'.new_len = 0
  BY <1>3 DEF Idle
<1>5. TypeOK'
  BY <1>1, <1>2, <1>3 DEF TypeOK
<1>6. WriteBehindRead'
  BY <1>4 DEF WriteBehindRead
<1>7. \A k \in Index : k \in Places' <=> k \in Places
  BY <1>2, <1>3, <1>4 DEF Places, Index
<1>8. FilledExactly'
  BY <1>1, <1>3, <1>7 DEF FilledExactly, At
<1> QED
  BY <1>5, <1>6, <1>8 DEF Sound

\* Every step preserves the invariant.
LEMMA NextSound ==
    ASSUME Sound, [Next]_vars
    PROVE  Sound'
<1>1. CASE Next
  <2>1. CASE Front
    <3>1. /\ UNCHANGED <<items, head, len, pass>>
          /\ answer' \in Value \cup {None}
      BY <2>1 DEF Front, Sound, TypeOK
    <3> QED
      BY <3>1 DEF Sound, TypeOK, WriteBehindRead, FilledExactly, Places, At
  <2>2. CASE Pop
    BY <2>2, PopSound
  <2>3. CASE DropItem
    BY <2>3, DropItemSound
  <2>4. CASE KeepItem
    BY <2>4, KeepItemSound
  <2>5. CASE FinishRemove
    BY <2>5, FinishRemoveSound
  <2>6. CASE \E v \in Value : Push(v) \/ StartRemove(v)
    BY <2>6, PushSound, StartRemoveSound
  <2> QED
    BY <1>1, <2>1, <2>2, <2>3, <2>4, <2>5, <2>6 DEF Next
<1>2. CASE UNCHANGED vars
  BY <1>2 DEF vars, Sound, TypeOK, WriteBehindRead, FilledExactly, Places, At
<1> QED
  BY <1>1, <1>2

\* The empty buffer satisfies the invariant.
LEMMA InitSound == Init => Sound
<1> SUFFICES ASSUME Init PROVE Sound
  OBVIOUS
<1>1. /\ items = [j \in Index |-> None] /\ head = 0 /\ len = 0 /\ pass = Idle /\ answer = None
  BY DEF Init
<1>2. pass.on = FALSE /\ 0 \in Index
  BY <1>1, CapacityAssumption DEF Idle, Index
<1>3. TypeOK /\ WriteBehindRead
  BY <1>1, <1>2, CapacityAssumption DEF TypeOK, WriteBehindRead
<1>4. \A k \in Index : At(k) \in Index /\ k \notin Places
  BY <1>1, <1>2, CapacityAssumption, PlacesDiffer DEF Places, Index
<1>5. FilledExactly
  BY <1>1, <1>4 DEF FilledExactly
<1> QED
  BY <1>3, <1>5 DEF Sound

\* In every reachable state of a ring buffer of any capacity, the variables have
\* their types, remove writes only behind what it still has to read, and exactly
\* the indices from the head on hold an entry.
THEOREM RingSound == Spec => [](TypeOK /\ WriteBehindRead /\ FilledExactly)
<1>1. Init => Sound
  BY InitSound
<1>2. Sound /\ [Next]_vars => Sound'
  BY NextSound
<1>3. Sound => TypeOK /\ WriteBehindRead /\ FilledExactly
  BY DEF Sound
<1> QED
  BY <1>1, <1>2, <1>3, PTL DEF Spec

\* The cursors and the length stay in the array (queue.rs push_back, pop_front).
THEOREM RingTyped == Spec => []TypeOK
<1>1. TypeOK /\ WriteBehindRead /\ FilledExactly => TypeOK
  OBVIOUS
<1> QED
  BY <1>1, RingSound, PTL

\* remove's write cursor never overtakes the entries it has still to read.
THEOREM RingWritesBehind == Spec => []WriteBehindRead
<1>1. TypeOK /\ WriteBehindRead /\ FilledExactly => WriteBehindRead
  OBVIOUS
<1> QED
  BY <1>1, RingSound, PTL

\* Exactly the entries from the head on are filled: front never finds None in a
\* queue that has entries, and no stale entry keeps a thread alive.
THEOREM RingFilled == Spec => []FilledExactly
<1>1. TypeOK /\ WriteBehindRead /\ FilledExactly => FilledExactly
  OBVIOUS
<1> QED
  BY <1>1, RingSound, PTL

(***************************************************************************)
(* The contract                                                            *)
(***************************************************************************)

\* The place of the array the k-th entry of the queue is in.
Place(k) == IF k <= pass.new_len THEN k - 1 ELSE k - 1 + (pass.i - pass.new_len)

\* How many entries the queue has.
Length == pass.new_len + (len - pass.i)

\* The queue the ring buffer stands for is a sequence of values.
LEMMA ContentsLists ==
    ASSUME Sound
    PROVE  /\ Length \in 0 .. MaxTcbs /\ MaxTcbs \in Nat
           /\ Contents \in Seq(Value) /\ Len(Contents) = Length
           /\ \A k \in 1 .. Length : /\ Place(k) \in Places /\ Place(k) \in Index
                                     /\ Contents[k] = items[At(Place(k))]
<1>1. TypeOK /\ WriteBehindRead /\ FilledExactly
  BY DEF Sound
<1>2. /\ MaxTcbs \in Nat \ {0} /\ len \in 0 .. MaxTcbs /\ head \in Index
      /\ pass.i \in 0 .. len /\ pass.new_len \in 0 .. pass.i
  BY <1>1, PassType
<1>3. Length \in 0 .. MaxTcbs
  BY <1>2 DEF Length
<1>4. ASSUME NEW k \in 1 .. Length
      PROVE  Place(k) \in Places /\ Place(k) \in Index
  BY <1>2, <1>4 DEF Length, Place, Places, Index
<1>5. ASSUME NEW k \in 1 .. Length
      PROVE  items[At(Place(k))] \in Value
  <2>1. At(Place(k)) \in Index
    BY <1>2, <1>4, PlacesDiffer
  <2>2. items[At(Place(k))] # None
    BY <1>1, <1>4 DEF FilledExactly
  <2> QED
    BY <1>1, <2>1, <2>2 DEF TypeOK
<1>6. Contents = [k \in 1 .. Length |-> items[At(Place(k))]]
  BY DEF Contents, Length, Place
<1>7. Contents \in Seq(Value) /\ Len(Contents) = Length
  BY <1>2, <1>3, <1>5, <1>6
<1> QED
  BY <1>2, <1>3, <1>4, <1>6, <1>7

\* What Contents is, as a predicate of one state.
Listed == /\ Contents \in Seq(Value) /\ Len(Contents) = Length /\ Length \in Nat
          /\ \A k \in 1 .. Length : Contents[k] = items[At(Place(k))]

\* So it is in every sound state, the next one included.
LEMMA SoundLists == Sound => Listed
<1> SUFFICES ASSUME Sound PROVE Listed
  OBVIOUS
<1> QED
  BY ContentsLists DEF Listed

\* Peeking answers the head of the queue (front).
LEMMA FrontRefines ==
    ASSUME Sound, Front
    PROVE  Queue!Next
<1>1. /\ UNCHANGED <<items, head, len, pass>> /\ answer' = IF len = 0 THEN None ELSE items[head]
      /\ pass.i = 0 /\ pass.new_len = 0 /\ ~pass.found /\ head \in Index /\ len \in Nat
  BY PassType DEF Front, Sound
<1>2. Contents' = Contents
  BY <1>1 DEF Contents, At
<1>3. answer' = Queue!First(Contents)
  <2>1. Length = len /\ Contents \in Seq(Value) /\ Len(Contents) = len
    BY <1>1, ContentsLists DEF Length
  <2>2. CASE len = 0
    BY <1>1, <2>1, <2>2 DEF Queue!First
  <2>3. CASE len # 0
    <3>1. 1 \in 1 .. Length /\ Place(1) = 0 /\ At(0) = head
      BY <1>1, <2>1, <2>3, PlacesDiffer DEF Place
    <3>2. Contents[1] = items[head] /\ Contents # <<>>
      BY <2>1, <3>1, ContentsLists
    <3>3. Head(Contents) = Contents[1]
      BY <2>1, <3>2
    <3> QED
      BY <1>1, <2>3, <3>2, <3>3 DEF Queue!First
  <2> QED
    BY <2>2, <2>3
<1>4. (IF pass.found THEN TRUE ELSE answer)' = answer'
  BY <1>1
<1> QED
  BY <1>2, <1>3, <1>4 DEF Queue!Next, Queue!Peek

\* Queueing appends, and drops the value only when the queue is full (push_back).
LEMMA PushRefines ==
    ASSUME Sound, NEW v \in Value, Push(v)
    PROVE  Queue!Next
<1>1. Sound' /\ TypeOK /\ WriteBehindRead
  BY PushSound DEF Sound
<1>2. /\ MaxTcbs \in Nat \ {0} /\ head \in Index /\ len \in 0 .. MaxTcbs
      /\ pass' = pass /\ head' = head /\ pass.i = 0 /\ pass.new_len = 0 /\ ~pass.found
  BY <1>1, PassType DEF Push
<1>3. /\ Length = len /\ Contents \in Seq(Value) /\ Len(Contents) = len
      /\ \A k \in 1 .. len : Contents[k] = items[At(Place(k))]
  BY <1>2, ContentsLists DEF Length
<1>4. \A k \in 1 .. MaxTcbs : Place(k) = k - 1 /\ Place(k)' = k - 1
  BY <1>2 DEF Place
<1>5. CASE len >= MaxTcbs
  <2>1. UNCHANGED <<items, len>> /\ answer' = FALSE
    BY <1>2, <1>5 DEF Push
  <2>2. Contents' = Contents
    BY <1>2, <2>1 DEF Contents, At
  <2>3. Contents' = Queue!PushBack(Contents, v) /\ answer' = ~Queue!Full(Contents)
    BY <1>2, <1>3, <1>5, <2>1, <2>2 DEF Queue!PushBack, Queue!Full
  <2> QED
    BY <1>2, <2>3 DEF Queue!Next, Queue!Push
<1>6. CASE len < MaxTcbs
  <2>1. items' = [items EXCEPT ![At(len)] = v] /\ len' = len + 1 /\ answer' = TRUE
    BY <1>2, <1>6 DEF Push
  <2>2. Length' = len + 1 /\ len \in Index
    BY <1>2, <1>6, <2>1 DEF Length, Index
  <2>3. /\ Append(Contents, v) \in Seq(Value) /\ Len(Append(Contents, v)) = len + 1
        /\ Append(Contents, v)[len + 1] = v
        /\ \A k \in 1 .. len : Append(Contents, v)[k] = Contents[k]
    BY <1>2, <1>3
  <2>4. ASSUME NEW k \in 1 .. len + 1
        PROVE  Append(Contents, v)[k] = items'[At(k - 1)]
    <3>1. k - 1 \in Index
      BY <1>2, <1>6 DEF Index
    <3>2. items'[At(k - 1)] = IF k - 1 = len THEN v ELSE items[At(k - 1)]
      BY <1>1, <1>2, <2>1, <2>2, <3>1, PlacesDiffer DEF TypeOK
    <3>3. CASE k = len + 1
      BY <1>2, <2>3, <3>2, <3>3
    <3>4. CASE k # len + 1
      <4>1. k \in 1 .. len /\ k \in 1 .. MaxTcbs /\ k - 1 # len
        BY <1>2, <3>4
      <4> QED
        BY <1>3, <1>4, <2>3, <3>2, <4>1
    <3> QED
      BY <3>3, <3>4
  <2>5. \A k \in 1 .. len + 1 : At(Place(k))' = At(k - 1)
    <3>1. \A k \in 1 .. len + 1 : Place(k)' = k - 1
      BY <1>2, <1>4, <1>6
    <3> QED
      BY <1>2, <3>1 DEF At
  <2>6. Contents' = Append(Contents, v)
    <3>1. \A k \in 1 .. Length' : Append(Contents, v)[k] = items'[At(Place(k))']
      BY <2>2, <2>4, <2>5
    <3>2. /\ Contents' \in Seq(Value) /\ Len(Contents') = Length' /\ Length' \in Nat
          /\ \A k \in 1 .. Length' : Contents'[k] = items'[At(Place(k))']
      <4>1. Listed'
        BY <1>1, SoundLists, PTL
      <4> QED
        BY <4>1 DEF Listed
    <3> QED
      BY <2>2, <2>3, <3>1, <3>2, SeqEqual
  <2>7. Contents' = Queue!PushBack(Contents, v) /\ answer' = ~Queue!Full(Contents)
    <3>1. ~Queue!Full(Contents)
      BY <1>2, <1>3, <1>6 DEF Queue!Full
    <3> QED
      BY <2>1, <2>6, <3>1 DEF Queue!PushBack
  <2> QED
    BY <1>2, <2>7 DEF Queue!Next, Queue!Push
<1> QED
  BY <1>2, <1>5, <1>6

\* Taking the first entry leaves the others in order (pop_front).
LEMMA PopRefines ==
    ASSUME Sound, Pop
    PROVE  Queue!Next
<1>1. Sound' /\ TypeOK /\ WriteBehindRead
  BY PopSound DEF Sound
<1>2. /\ MaxTcbs \in Nat \ {0} /\ head \in Index /\ len \in 0 .. MaxTcbs
      /\ pass' = pass /\ pass.i = 0 /\ pass.new_len = 0 /\ ~pass.found
  BY <1>1, PassType DEF Pop
<1>3. /\ Length = len /\ Contents \in Seq(Value) /\ Len(Contents) = len
      /\ \A k \in 1 .. len : Contents[k] = items[At(Place(k))]
  BY <1>2, ContentsLists DEF Length
<1>4. \A k \in 1 .. MaxTcbs : Place(k) = k - 1 /\ Place(k)' = k - 1
  BY <1>2 DEF Place
<1>5. CASE len = 0
  <2>1. UNCHANGED <<items, head, len>> /\ answer' = None
    BY <1>2, <1>5 DEF Pop
  <2>2. Contents' = Contents /\ Contents = <<>>
    BY <1>2, <1>3, <1>5, <2>1 DEF Contents, At
  <2> QED
    BY <1>2, <2>1, <2>2 DEF Queue!Next, Queue!Pop, Queue!First
<1>6. CASE len > 0
  <2>1. /\ answer' = items[head] /\ items' = [items EXCEPT ![head] = None]
        /\ head' = At(1) /\ len' = len - 1
    BY <1>2, <1>6 DEF Pop
  <2>2. Length' = len - 1
    BY <1>2, <2>1 DEF Length
  <2>3. /\ Contents # <<>> /\ Head(Contents) = Contents[1]
        /\ Tail(Contents) \in Seq(Value) /\ Len(Tail(Contents)) = len - 1
        /\ \A k \in 1 .. len - 1 : Tail(Contents)[k] = Contents[k + 1]
    BY <1>2, <1>3, <1>6
  <2>4. Head(Contents) = items[head]
    <3>1. 1 \in 1 .. len /\ 1 \in 1 .. MaxTcbs /\ At(0) = head
      BY <1>2, <1>6, PlacesDiffer
    <3>2. Place(1) = 0
      BY <1>4, <3>1
    <3> QED
      BY <1>3, <2>3, <3>1, <3>2
  <2>5. ASSUME NEW k \in 1 .. len - 1
        PROVE  Tail(Contents)[k] = items'[At(Place(k))']
    <3>1. /\ k - 1 \in Index /\ k \in Index /\ k - 1 # MaxTcbs - 1
          /\ k \in 1 .. MaxTcbs /\ k + 1 \in 1 .. MaxTcbs /\ k + 1 \in 1 .. len /\ k # 0 /\ 0 \in Index
      BY <1>2 DEF Index
    <3>2. At(k - 1)' = At(k)
      BY <1>2, <2>1, <3>1, HeadMoves
    <3>3. At(Place(k))' = At(k - 1)'
      BY <1>4, <3>1 DEF At
    <3>4. items'[At(k)] = items[At(k)]
      BY <1>1, <1>2, <2>1, <3>1, PlacesDiffer DEF TypeOK
    <3>5. Contents[k + 1] = items[At(k)]
      BY <1>3, <1>4, <3>1
    <3> QED
      BY <2>3, <3>2, <3>3, <3>4, <3>5
  <2>6. Contents' = Tail(Contents)
    <3>1. /\ Contents' \in Seq(Value) /\ Len(Contents') = Length' /\ Length' \in Nat
          /\ \A k \in 1 .. Length' : Contents'[k] = items'[At(Place(k))']
      <4>1. Listed'
        BY <1>1, SoundLists, PTL
      <4> QED
        BY <4>1 DEF Listed
    <3> QED
      BY <2>2, <2>3, <2>5, <3>1, SeqEqual
  <2> QED
    BY <1>2, <2>1, <2>3, <2>4, <2>6 DEF Queue!Next, Queue!Pop, Queue!First
<1> QED
  BY <1>2, <1>5, <1>6

\* The abstract answer: a removal answers for the callers once it has dropped
\* the value.
Answered == IF pass.found THEN TRUE ELSE answer

\* Starting a removal shows the callers nothing.
LEMMA StartRemoveRefines ==
    ASSUME Sound, NEW v \in Value, StartRemove(v)
    PROVE  UNCHANGED <<Contents, Answered>>
<1>1. /\ pass.i = 0 /\ pass.new_len = 0 /\ ~pass.found /\ len \in Nat
      /\ UNCHANGED <<items, head, len, answer>>
  BY PassType DEF Sound, StartRemove
<1>2. pass'.i = 0 /\ pass'.new_len = 0 /\ ~pass'.found
  BY DEF StartRemove, Idle
<1> QED
  BY <1>1, <1>2 DEF Contents, Answered, At

\* Nor does keeping an entry: it only moves it.
LEMMA KeepItemRefines ==
    ASSUME Sound, KeepItem
    PROVE  UNCHANGED <<Contents, Answered>>
<1>1. Reading /\ Sound'
  BY KeepItemSound DEF KeepItem
<1>2. /\ MaxTcbs \in Nat \ {0} /\ head \in Index /\ len \in 0 .. MaxTcbs
      /\ pass.i \in Index /\ pass.i < len /\ pass.new_len \in Index
      /\ pass.found \in BOOLEAN /\ pass.new_len = pass.i - (IF pass.found THEN 1 ELSE 0)
      /\ pass \in [on : {TRUE}, value : Value, i : 0 .. len, write : Index,
                   new_len : 0 .. len, found : BOOLEAN]
  BY <1>1, ReadCursor, PassType DEF Sound
<1>3. /\ pass'.i = pass.i + 1 /\ pass'.new_len = pass.new_len + 1 /\ pass'.found = pass.found
      /\ UNCHANGED <<head, len, answer>>
  BY <1>2 DEF KeepItem
<1>4. Length' = Length
  BY <1>2, <1>3 DEF Length, Index
<1>5. /\ Contents \in Seq(Value) /\ Len(Contents) = Length /\ Length \in 0 .. MaxTcbs
      /\ \A k \in 1 .. Length : Place(k) \in Index /\ Contents[k] = items[At(Place(k))]
  BY ContentsLists
<1>6. /\ Contents' \in Seq(Value) /\ Len(Contents') = Length'
      /\ \A k \in 1 .. Length' : Contents'[k] = items'[At(Place(k))']
  <2>1. Listed'
    BY <1>1, SoundLists, PTL
  <2> QED
    BY <2>1 DEF Listed
<1>7. ASSUME NEW k \in 1 .. Length
      PROVE  Contents'[k] = Contents[k]
  <2>1. Place(k)' = IF k <= pass.new_len + 1 THEN k - 1 ELSE k - 1 + (pass.i - pass.new_len)
    BY <1>2, <1>3 DEF Place, Index
  <2>2. k \in Int /\ k >= 1 /\ k - 1 >= 0
    BY <1>5
  <2>3. Place(k)' \in Index
    BY <1>2, <1>5, <2>1, <2>2 DEF Place, Index
  <2>4. At(Place(k))' = At(Place(k)')
    BY <1>3 DEF At
  <2>5. items'[At(Place(k)')] = IF Place(k)' = pass.new_len THEN items[At(pass.i)]
                                ELSE IF Place(k)' = pass.i THEN None ELSE items[At(Place(k)')]
    BY <2>3, KeepItemMoves
  <2>6. CASE k = pass.new_len + 1
    <3>1. Place(k)' = pass.new_len /\ Place(k) = pass.i
      BY <1>2, <2>1, <2>6 DEF Place, Index
    <3> QED
      BY <1>4, <1>5, <1>6, <2>4, <2>5, <3>1
  <2>7. CASE k # pass.new_len + 1
    <3>1. Place(k)' = Place(k) /\ Place(k) # pass.new_len /\ Place(k) # pass.i
      BY <1>2, <2>1, <2>2, <2>7 DEF Place, Index
    <3> QED
      BY <1>4, <1>5, <1>6, <2>4, <2>5, <3>1
  <2> QED
    BY <2>6, <2>7
<1>8. Contents' = Contents
  BY <1>4, <1>5, <1>6, <1>7, SeqEqual
<1>9. Answered' = Answered
  BY <1>3 DEF Answered
<1> QED
  BY <1>8, <1>9

\* Dropping the value takes its first occurrence out of the queue.
LEMMA DropItemRefines ==
    ASSUME Sound, DropItem
    PROVE  Queue!Next
<1>1. Reading /\ Dropped /\ Sound' /\ TypeOK /\ WriteBehindRead
  BY DropItemSound DEF DropItem, Sound
<1>2. /\ MaxTcbs \in Nat \ {0} /\ head \in Index /\ len \in 0 .. MaxTcbs
      /\ pass.i \in Index /\ pass.i < len /\ pass.on /\ ~pass.found
      /\ pass.new_len = pass.i /\ pass.value \in Value /\ items[At(pass.i)] = pass.value
      /\ At(pass.i) \in Index
      /\ pass \in [on : {TRUE}, value : Value, i : 0 .. len, write : Index,
                   new_len : 0 .. len, found : BOOLEAN]
  <2>1. pass.on /\ ~pass.found /\ items[At(pass.i)] = pass.value
    BY <1>1 DEF Reading, Dropped
  <2>2. pass.found \in BOOLEAN /\ pass.new_len = pass.i - (IF pass.found THEN 1 ELSE 0)
    BY <1>1, PassType
  <2>3. pass.new_len = pass.i
    BY <1>1, <2>1, <2>2, ReadCursor DEF Index
  <2> QED
    BY <1>1, <2>1, <2>3, ReadCursor, PassType
<1>3. /\ pass'.i = pass.i + 1 /\ pass'.new_len = pass.new_len /\ pass'.found = TRUE
      /\ items' = [items EXCEPT ![At(pass.i)] = None] /\ UNCHANGED <<head, len, answer>>
  BY <1>2 DEF DropItem
<1>4. Length = len /\ Length' = len - 1
  BY <1>2, <1>3 DEF Length, Index
<1>5. /\ Contents \in Seq(Value) /\ Len(Contents) = len
      /\ \A k \in 1 .. len : Contents[k] = items[At(k - 1)]
  <2>1. \A k \in 1 .. len : Place(k) = k - 1
    BY <1>2 DEF Place, Index
  <2> QED
    BY <1>4, <2>1, ContentsLists
<1>6. /\ Contents' \in Seq(Value) /\ Len(Contents') = len - 1
      /\ \A k \in 1 .. len - 1 : Contents'[k] = IF k <= pass.i THEN Contents[k] ELSE Contents[k + 1]
  <2>1. Listed'
    BY <1>1, SoundLists, PTL
  <2>2. ASSUME NEW k \in 1 .. len - 1
        PROVE  Contents'[k] = IF k <= pass.i THEN Contents[k] ELSE Contents[k + 1]
    <3>1. Place(k)' = IF k <= pass.i THEN k - 1 ELSE k
      BY <1>2, <1>3 DEF Place, Index
    <3>2. Contents'[k] = items'[At(Place(k))']
      BY <1>4, <2>1 DEF Listed
    <3>3. At(Place(k))' = At(Place(k)')
      BY <1>3 DEF At
    <3>4. Place(k)' \in Index /\ Place(k)' # pass.i
      BY <1>2, <3>1 DEF Index
    <3>5. items'[At(Place(k)')] = items[At(Place(k)')]
      BY <1>1, <1>2, <1>3, <3>4, PlacesDiffer DEF TypeOK
    <3>6. k \in 1 .. len /\ k + 1 \in 1 .. len /\ (k + 1) - 1 = k
      BY <1>2
    <3>7. CASE k <= pass.i
      BY <1>5, <3>1, <3>2, <3>3, <3>5, <3>6, <3>7
    <3>8. CASE ~(k <= pass.i)
      BY <1>5, <3>1, <3>2, <3>3, <3>5, <3>6, <3>8
    <3> QED
      BY <3>7, <3>8
  <2> QED
    BY <1>4, <2>1, <2>2 DEF Listed
<1> DEFINE found == {k \in 1 .. Len(Contents) : Contents[k] = pass.value}
<1> DEFINE first == CHOOSE i \in found : \A j \in found : i <= j
<1>7. /\ pass.i + 1 \in found
      /\ \A j \in found : pass.i + 1 <= j
  <2>1. pass.i + 1 \in 1 .. len /\ (pass.i + 1) - 1 = pass.i
    BY <1>2 DEF Index
  <2>2. pass.i + 1 \in found
    BY <1>2, <1>5, <2>1
  <2>3. ASSUME NEW j \in 1 .. len, Contents[j] = pass.value, j < pass.i + 1
        PROVE  FALSE
    <3>1. j - 1 \in 0 .. pass.i - 1
      BY <1>2, <2>3 DEF Index
    <3>2. items[At(j - 1)] # pass.value
      BY <1>1, <1>2, <3>1 DEF WriteBehindRead
    <3> QED
      BY <1>5, <2>3, <3>2
  <2> QED
    BY <1>2, <1>5, <2>2, <2>3 DEF Index
<1>8. first = pass.i + 1
  <2>1. first \in found /\ \A j \in found : first <= j
    BY <1>7
  <2>2. found \subseteq Int
    BY <1>5, <1>2
  <2> HIDE DEF first, found
  <2>3. first \in Int /\ pass.i \in Int
    BY <1>2, <2>1, <2>2 DEF Index
  <2>4. first <= pass.i + 1 /\ pass.i + 1 <= first
    BY <1>7, <2>1
  <2> QED
    BY <2>3, <2>4
<1>9. Contents' = Queue!Remove(Contents, pass.value)
  <2> DEFINE q == [k \in 1 .. len - 1 |-> IF k < first THEN Contents[k] ELSE Contents[k + 1]]
  <2>1. Queue!Remove(Contents, pass.value) = q
    BY <1>5, <1>7 DEF Queue!Remove
  <2> HIDE DEF first, found
  <2>2. Contents' = [k \in 1 .. len - 1 |-> Contents'[k]]
    BY <1>2, <1>6
  <2>3. \A k \in 1 .. len - 1 : Contents'[k] = q[k]
    <3>1. \A k \in 1 .. len - 1 : k < first <=> k <= pass.i
      BY <1>2, <1>8 DEF Index
    <3> QED
      BY <1>6, <3>1
  <2>4. q = [k \in 1 .. len - 1 |-> q[k]]
    OBVIOUS
  <2> HIDE DEF q
  <2> QED
    BY <2>1, <2>2, <2>3, <2>4
<1>10. \E k \in DOMAIN Contents : Contents[k] = pass.value
  BY <1>5, <1>7
<1>11. (IF pass.found THEN TRUE ELSE answer)' = TRUE
  BY <1>3
<1> QED
  BY <1>2, <1>9, <1>10, <1>11 DEF Queue!Next, Queue!Drop

\* The end of a removal answers that the value was found, as the callers have
\* known since it was dropped, or that the queue does not hold it.
LEMMA FinishRemoveRefines ==
    ASSUME Sound, FinishRemove
    PROVE  Queue!Next \/ UNCHANGED <<Contents, Answered>>
<1>1. /\ pass.on /\ pass.i = len /\ len \in 0 .. MaxTcbs /\ MaxTcbs \in Nat
      /\ pass.found \in BOOLEAN /\ pass.value \in Value
      /\ pass.new_len \in 0 .. len /\ pass.new_len = pass.i - (IF pass.found THEN 1 ELSE 0)
      /\ len' = pass.new_len /\ answer' = pass.found /\ UNCHANGED <<items, head>>
  BY PassType DEF Sound, FinishRemove
<1>2. pass'.i = 0 /\ pass'.new_len = 0 /\ pass'.found = FALSE
  BY DEF FinishRemove, Idle
<1>3. Contents' = Contents
  <2>1. Length = pass.new_len /\ Length' = pass.new_len
    BY <1>1, <1>2 DEF Length
  <2>2. \A k \in 1 .. pass.new_len : Place(k) = k - 1 /\ Place(k)' = k - 1
    BY <1>1, <1>2 DEF Place
  <2>3. \A k \in 1 .. pass.new_len : At(Place(k))' = At(Place(k))
    BY <1>1, <2>2 DEF At
  <2>4. /\ Contents = [k \in 1 .. Length |-> items[At(Place(k))]]
        /\ Contents' = [k \in 1 .. Length' |-> items'[At(Place(k))']]
    BY DEF Contents, Length, Place
  <2> QED
    BY <1>1, <2>1, <2>3, <2>4
<1>4. CASE pass.found
  BY <1>1, <1>2, <1>3, <1>4 DEF Answered
<1>5. CASE ~pass.found
  <2>1. \A k \in 1 .. len : Contents[k] = items[At(k - 1)] /\ k - 1 \in 0 .. pass.i - 1
    <3>1. Length = len /\ \A k \in 1 .. len : Place(k) = k - 1
      BY <1>1, <1>5 DEF Length, Place
    <3> QED
      BY <1>1, <3>1, ContentsLists
  <2>2. Contents \in Seq(Value) /\ Len(Contents) = len
    BY <1>1, <1>5, ContentsLists DEF Length
  <2>3. \A k \in 1 .. Len(Contents) : Contents[k] # pass.value
    BY <1>1, <1>5, <2>1, <2>2 DEF Sound, WriteBehindRead
  <2>4. Queue!Remove(Contents, pass.value) = Contents
    BY <2>3 DEF Queue!Remove
  <2>5. ~\E k \in DOMAIN Contents : Contents[k] = pass.value
    BY <2>2, <2>3
  <2>6. (IF pass.found THEN TRUE ELSE answer)' = FALSE
    BY <1>1, <1>2, <1>5
  <2> QED
    BY <1>1, <1>3, <2>4, <2>5, <2>6 DEF Queue!Next, Queue!Drop
<1> QED
  BY <1>1, <1>4, <1>5

\* Every step of the ring buffer is a call on the queue it stands for, or shows
\* the callers nothing.
LEMMA NextRefines ==
    ASSUME Sound, [Next]_vars
    PROVE  Queue!Next \/ UNCHANGED <<Contents, Answered>>
<1>1. CASE Next
  <2>1. CASE Front \/ Pop \/ DropItem \/ KeepItem \/ FinishRemove
    BY <2>1, FrontRefines, PopRefines, DropItemRefines, KeepItemRefines, FinishRemoveRefines
  <2>2. CASE \E v \in Value : Push(v) \/ StartRemove(v)
    BY <2>2, PushRefines, StartRemoveRefines
  <2> QED
    BY <1>1, <2>1, <2>2 DEF Next
<1>2. CASE UNCHANGED vars
  BY <1>2 DEF vars, Contents, Answered, At
<1> QED
  BY <1>1, <1>2

\* The empty buffer is the empty queue.
LEMMA InitRefines == Init => Queue!Init
<1> SUFFICES ASSUME Init PROVE Queue!Init
  OBVIOUS
<1>1. len = 0 /\ answer = None /\ pass.i = 0 /\ pass.new_len = 0 /\ pass.found = FALSE
  BY DEF Init, Idle
<1>2. Contents = <<>>
  BY <1>1 DEF Contents
<1> QED
  BY <1>1, <1>2 DEF Queue!Init

\* The ring buffer of any capacity, with its wrapping indices and its removal in
\* place, is the bounded FIFO that the kernel's modules use for it.
THEOREM RingImplementsFifo == Spec => Contract
<1>1. Init => Sound
  BY InitSound
<1>2. Sound /\ [Next]_vars => Sound'
  BY NextSound
<1>3. Init => Queue!Init
  BY InitRefines
<1>4. Sound /\ [Next]_vars => [Queue!Next]_<<Contents, IF pass.found THEN TRUE ELSE answer>>
  BY NextRefines DEF Answered
<1> QED
  BY <1>1, <1>2, <1>3, <1>4, PTL DEF Spec, Contract, Queue!Spec
=============================================================================
