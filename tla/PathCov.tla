------------------------------ MODULE PathCov ------------------------------
(***************************************************************************)
(* The path-coverage record of the RefC run time (support/refc/pathcov.c): *)
(* an open-addressing set of "<label>\t<pathId>" keys in a table of fixed  *)
(* size, with the text of the keys in an arena of fixed size.              *)
(***************************************************************************)
EXTENDS Integers, FiniteSets

CONSTANTS
    Label, PathId,  \* labels of enterTest, ids of paths
    NoLabel,        \* the empty label
    Cut,            \* Cut[l]: the first LABEL_MAX - 1 bytes of l
    Oversized,      \* keys that do not fit in the buffer for a key
    Hash,           \* Hash[key]: the slot where the search for the key begins
    Bytes,          \* Bytes[key]: the length of the key and its end
    Capacity,       \* IDRIS2_PATHCOV_CAPACITY
    ArenaBytes,     \* IDRIS2_PATHCOV_ARENA_BYTES
    DumpBytes,      \* IDRIS2_PATHCOV_DUMP_BYTES
    MarkBytes,      \* the length of ";__TRUNCATED__"
    Reserve         \* the end of the dump kept free for it, 16 bytes

Key == Label \X PathId
Slot == 0..(Capacity - 1)
Empty == <<>>

ASSUME LabelAssumption ==
    /\ NoLabel \in Label
    /\ Cut \in [Label -> Label] /\ Cut[NoLabel] = NoLabel
ASSUME KeyAssumption ==
    /\ Oversized \subseteq Key
    /\ Hash \in [Key -> Slot]
    /\ Bytes \in [Key -> Nat]
ASSUME SizeAssumption == Capacity \in Nat \ {0} /\ ArenaBytes \in Nat
ASSUME DumpAssumption ==
    /\ {DumpBytes, MarkBytes, Reserve} \subseteq Nat
    /\ MarkBytes < Reserve /\ Reserve < DumpBytes

VARIABLES
    slots,      \* idris2_pathcov_slots
    count,      \* idris2_pathcov_count
    saturated,  \* idris2_pathcov_saturated
    label,      \* idris2_pathcov_label
    used,       \* idris2_pathcov_arena_used
    entered,    \* history: the label last given to enterTest, uncut
    hits        \* history: <<label, path id>> of every hit since the reset

vars == <<slots, count, saturated, label, used, entered, hits>>

Recorded == {slots[i] : i \in Slot} \ {Empty}

Init ==
    /\ slots = [i \in Slot |-> Empty]
    /\ count = 0 /\ saturated = FALSE
    /\ label = NoLabel /\ entered = NoLabel
    /\ used = 0
    /\ hits = {}

\* idris2_enterTest
EnterTest(l) ==
    /\ label' = Cut[l] /\ entered' = l
    /\ UNCHANGED <<slots, count, saturated, used, hits>>

\* The slot reached after d probes
Probe(key, d) == (Hash[key] + d) % Capacity

\* The search ends at the first slot that is empty or holds the key.
Ends(key, d) == slots[Probe(key, d)] \in {Empty, key}
First(key, d) == Ends(key, d) /\ \A e \in Slot : e < d => ~Ends(key, e)

Saturate == saturated' = TRUE /\ UNCHANGED <<slots, count, used>>

\* MUTANT a key that does not fit in the arena is dropped in silence
StoreSilently(key, i) ==
    IF used + Bytes[key] > ArenaBytes THEN UNCHANGED <<slots, count, used, saturated>>
    ELSE /\ slots' = [slots EXCEPT ![i] = key]
         /\ count' = count + 1
         /\ used' = used + Bytes[key]
         /\ UNCHANGED saturated

\* idris2_pathcov_intern, and the slot that gets its result
Store(key, i) ==
    IF used + Bytes[key] > ArenaBytes THEN Saturate
    ELSE /\ slots' = [slots EXCEPT ![i] = key]
         /\ count' = count + 1
         /\ used' = used + Bytes[key]
         /\ UNCHANGED saturated

\* MUTANT the search goes on past the key to an empty slot
InsertAgain(key) ==
    \/ \E d \in Slot : /\ slots[Probe(key, d)] = Empty
                       /\ \A e \in Slot : e < d => slots[Probe(key, e)] # Empty
                       /\ Store(key, Probe(key, d))
    \/ (\A d \in Slot : slots[Probe(key, d)] # Empty) /\ Saturate

Insert(key) ==
    \/ \E d \in Slot :
         /\ First(key, d)
         /\ IF slots[Probe(key, d)] = Empty THEN Store(key, Probe(key, d))
            ELSE UNCHANGED <<slots, count, saturated, used>>
    \/ (\A d \in Slot : ~Ends(key, d)) /\ Saturate

\* idris2_recordPathHit
RecordPathHit(p) ==
    /\ hits' = hits \cup {<<entered, p>>}
    /\ IF <<label, p>> \in Oversized THEN Saturate ELSE Insert(<<label, p>>)
    /\ UNCHANGED <<label, entered>>

\* __dfxcov_reset_path_hits
Reset ==
    /\ slots' = [i \in Slot |-> Empty]
    /\ count' = 0 /\ saturated' = FALSE
    /\ label' = NoLabel /\ entered' = NoLabel
    /\ used' = 0
    /\ hits' = {}

\* The dump as it grows: its keys, its length without the end, and whether it
\* has its mark.
EmptyDump == [keys |-> {}, pos |-> 0, truncated |-> FALSE]

\* MUTANT the dump ends without its mark
DumpKeyUnmarked(dump, cur) ==
    LET need == Bytes[cur] - 1 + (IF dump.keys = {} THEN 0 ELSE 1)
    IN  IF cur = Empty \/ dump.pos + need + 1 >= DumpBytes - Reserve THEN dump
        ELSE [dump EXCEPT !.keys = @ \cup {cur}, !.pos = @ + need]

\* One turn of the loop of __dfxcov_format_path_hits, with a separator before
\* each key but the first.
DumpKey(dump, cur) ==
    LET need == Bytes[cur] - 1 + (IF dump.keys = {} THEN 0 ELSE 1)
    IN  IF dump.truncated \/ cur = Empty THEN dump
        ELSE IF dump.pos + need + 1 >= DumpBytes - Reserve
        THEN [dump EXCEPT !.truncated = TRUE, !.pos = @ + MarkBytes]
        ELSE [dump EXCEPT !.keys = @ \cup {cur}, !.pos = @ + need]

\* __dfxcov_format_path_hits: the keys of the table in the order of the slots.
\* It changes nothing but the buffer that it fills anew each time.
Format ==
    LET after[n \in 0..Capacity] ==
            IF n = 0 THEN EmptyDump ELSE DumpKey(after[n - 1], slots[n - 1])
    IN  after[Capacity]

Next ==
    \/ \E l \in Label : EnterTest(l)
    \/ \E p \in PathId : RecordPathHit(p)
    \/ Reset

Spec == Init /\ [][Next]_vars

(***************************************************************************)
(* Properties                                                              *)
(***************************************************************************)
TypeOK ==
    /\ slots \in [Slot -> Key \cup {Empty}]
    /\ count \in 0..Capacity
    /\ saturated \in BOOLEAN
    /\ label \in Label /\ entered \in Label
    /\ used \in 0..ArenaBytes
    /\ hits \subseteq Key

CutHits == {<<Cut[hit[1]], hit[2]>> : hit \in hits}

\* What is recorded was hit, and unless the saturation flag is set every hit
\* is recorded: the record may be incomplete but never says it is complete
\* when it is not.
NoSilentLoss ==
    /\ Recorded \subseteq CutHits
    /\ ~saturated => CutHits \subseteq Recorded

\* A key is in one slot, so the count the collector reads is that of the keys.
CountIsExact ==
    /\ \A i, j \in Slot : slots[i] = slots[j] /\ slots[i] # Empty => i = j
    /\ count = Cardinality(Recorded)

\* No gap opens between the slot where the search for a key begins and the
\* slot of the key: a search that stops at an empty slot has missed nothing.
NoGap ==
    \A key \in Recorded :
        \E d \in Slot : /\ slots[Probe(key, d)] = key
                        /\ \A e \in Slot : e < d => slots[Probe(key, e)] # Empty

\* What the collector reads fits in the buffer with its end, and has every hit
\* unless the saturation flag is set or the dump has its mark ("no silent
\* loss", pathcov.c:158).
ReportComplete ==
    /\ Format.pos + 1 <= DumpBytes
    /\ ~saturated /\ ~Format.truncated => Format.keys = CutHits
=============================================================================
