----------------------------- MODULE ArrayQueue -----------------------------
(***************************************************************************)
(* The ring buffer behind every queue of the kernel (src/queue.rs).        *)
(* push_back, pop_front and front are one step each; remove rewrites the   *)
(* buffer in place, one entry per step, so that what it relies on (its     *)
(* write cursor stays behind its read cursor) can be stated.               *)
(***************************************************************************)
EXTENDS Queues

CONSTANTS
    Value,   \* what may be queued
    None     \* Rust's Option::None

ASSUME CapacityAssumption == MaxTcbs \in Nat \ {0}
ASSUME ValueAssumption == None \notin Value \cup BOOLEAN

VARIABLES
    items,   \* the backing array
    head,    \* index of the first entry
    len,     \* number of entries
    pass,    \* the locals of a remove under way, or Idle
    answer   \* what the last call returned

vars == <<items, head, len, pass, answer>>

Index == 0 .. MaxTcbs - 1
Idle  == [on |-> FALSE, value |-> None, i |-> 0, write |-> 0, new_len |-> 0, found |-> FALSE]

\* The index of the entry k places behind the head.
At(k) == (head + k) % MaxTcbs

Init ==
    /\ items = [j \in Index |-> None]
    /\ head = 0 /\ len = 0
    /\ pass = Idle
    /\ answer = None

Front ==
    /\ ~pass.on
    /\ answer' = IF len = 0 THEN None ELSE items[head]
    /\ UNCHANGED <<items, head, len, pass>>

Push(v) ==
    /\ ~pass.on
    /\ \/ /\ len >= MaxTcbs
          /\ answer' = FALSE
          /\ UNCHANGED <<items, len>>
       \/ /\ len < MaxTcbs
          /\ items' = [items EXCEPT ![At(len)] = v]
          /\ len' = len + 1
          /\ answer' = TRUE
    /\ UNCHANGED <<head, pass>>

\* Mutants: the entry is copied out but not taken; the head runs off the array.
PopUntaken ==
    /\ ~pass.on /\ len > 0
    /\ answer' = items[head]
    /\ head' = At(1) /\ len' = len - 1
    /\ UNCHANGED <<items, pass>>

PopUnwrapped ==
    /\ ~pass.on /\ len > 0
    /\ answer' = items[head]
    /\ items' = [items EXCEPT ![head] = None]
    /\ head' = head + 1 /\ len' = len - 1
    /\ UNCHANGED pass

Pop ==
    /\ ~pass.on
    /\ \/ /\ len = 0
          /\ answer' = None
          /\ UNCHANGED <<items, head, len>>
       \/ /\ len > 0
          /\ answer' = items[head]
          /\ items' = [items EXCEPT ![head] = None]
          /\ head' = At(1)
          /\ len' = len - 1
    /\ UNCHANGED pass

(***************************************************************************)
(* remove: every entry is taken in turn; the first that equals the value   *)
(* is dropped, the others are written back at the write cursor.            *)
(***************************************************************************)
\* Mutant: the write cursor starts at the beginning of the array.
StartRemoveAtZero(v) ==
    /\ ~pass.on
    /\ pass' = [Idle EXCEPT !.on = TRUE, !.value = v]
    /\ UNCHANGED <<items, head, len, answer>>

StartRemove(v) ==
    /\ ~pass.on
    /\ pass' = [Idle EXCEPT !.on = TRUE, !.value = v, !.write = head]
    /\ UNCHANGED <<items, head, len, answer>>

Reading == pass.on /\ pass.i < len

Dropped == ~pass.found /\ items[At(pass.i)] = pass.value

DropItem ==
    /\ Reading /\ Dropped
    /\ items' = [items EXCEPT ![At(pass.i)] = None]
    /\ pass' = [pass EXCEPT !.found = TRUE, !.i = @ + 1]
    /\ UNCHANGED <<head, len, answer>>

KeepItem ==
    /\ Reading /\ ~Dropped
    /\ items' = [items EXCEPT ![At(pass.i)] = None, ![pass.write] = items[At(pass.i)]]
    /\ pass' = [pass EXCEPT !.write = (@ + 1) % MaxTcbs, !.new_len = @ + 1, !.i = @ + 1]
    /\ UNCHANGED <<head, len, answer>>

\* Mutant: remove reports that it found the value whether it did or not.
FinishRemoveFound ==
    /\ pass.on /\ pass.i = len
    /\ len' = pass.new_len
    /\ answer' = TRUE
    /\ pass' = Idle
    /\ UNCHANGED <<items, head>>

FinishRemove ==
    /\ pass.on /\ pass.i = len
    /\ len' = pass.new_len
    /\ answer' = pass.found
    /\ pass' = Idle
    /\ UNCHANGED <<items, head>>

Next ==
    \/ Front \/ Pop \/ DropItem \/ KeepItem \/ FinishRemove
    \/ \E v \in Value : Push(v) \/ StartRemove(v)

Spec == Init /\ [][Next]_vars

(***************************************************************************)
(* Properties                                                              *)
(***************************************************************************)

TypeOK ==
    /\ items \in [Index -> Value \cup {None}]
    /\ head \in Index
    /\ len \in 0 .. MaxTcbs
    /\ pass = Idle \/ pass \in [on : {TRUE}, value : Value, i : 0 .. len, write : Index,
                                new_len : 0 .. len, found : BOOLEAN]
    /\ answer \in Value \cup {None} \cup BOOLEAN

\* remove never writes over an entry it has still to read: its write cursor is
\* new_len entries behind the head, level with the read cursor until the value is
\* found and one behind it from then on; what it kept does not hold the value
\* before that (the claim of the comment on remove).
WriteBehindRead ==
    pass.on =>
        /\ pass.write = At(pass.new_len)
        /\ pass.new_len = pass.i - (IF pass.found THEN 1 ELSE 0)
        /\ ~pass.found => \A k \in 0 .. pass.i - 1 : items[At(k)] # pass.value

\* The places behind the head that hold an entry: all len of them, but for the
\* gap between the cursors of a remove under way.
Places == {k \in 0 .. len - 1 : k < pass.new_len \/ k >= pass.i}

\* Exactly these indices of the array are filled: front and pop_front of a queue
\* that is not empty answer an entry, and none is lost or kept past its removal.
FilledExactly ==
    \A k \in Index : items[At(k)] # None <=> k \in Places

(***************************************************************************)
(* What the ring buffer implements.  The removal happens for the callers   *)
(* at the step that drops the value or, when it is not there, at the end.  *)
(***************************************************************************)
Contents ==
    [k \in 1 .. pass.new_len + (len - pass.i) |->
        items[At(IF k <= pass.new_len THEN k - 1 ELSE k - 1 + (pass.i - pass.new_len))]]

Queue == INSTANCE Fifo WITH queue <- Contents,
                            answer <- IF pass.found THEN TRUE ELSE answer

\* Every call of the ring buffer does what it would do to a sequence: the FIFO
\* order of the scheduler and of the blocked threads survives wrapping around the
\* array and removal in the middle (push_back, pop_front, front, remove).
Contract == Queue!Spec
=============================================================================
