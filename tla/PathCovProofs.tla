--------------------------- MODULE PathCovProofs ---------------------------
(***************************************************************************)
(* What PathCov guarantees for tables and arenas of any size, any labels   *)
(* and path ids, and any hash function.                                    *)
(***************************************************************************)
EXTENDS PathCov, FiniteSetTheorems, WellFoundedInduction, TLAPS

(* The types, without the bound on the counter, which follows from its being  *)
(* exact; and the label in use is the one entered, cut.                       *)
Typed ==
    /\ slots \in [Slot -> Key \cup {Empty}]
    /\ count \in Nat
    /\ saturated \in BOOLEAN
    /\ label \in Label /\ entered \in Label /\ label = Cut[entered]
    /\ used \in 0..ArenaBytes
    /\ hits \subseteq Key

(* Every probe is a slot of the table. *)
LEMMA ProbeInSlot == \A key \in Key, d \in Slot : Probe(key, d) \in Slot
<1> TAKE key \in Key, d \in Slot
<1>1. Hash[key] + d \in Nat
  BY KeyAssumption, SizeAssumption DEF Slot
<1>2. \A n \in Nat : n % Capacity \in 0..(Capacity - 1)
  BY SizeAssumption
<1> QED
  BY <1>1, <1>2 DEF Probe, Slot

(* An empty slot is no key. *)
LEMMA KeyNotEmpty == Empty \notin Key
BY DEF Key, Empty

(***************************************************************************)
(* One step of the record: what idris2_recordPathHit does to the table.    *)
(***************************************************************************)
Kept == UNCHANGED <<slots, count, saturated, used>>
Stored(key, i) ==
    /\ slots[i] = Empty
    /\ used + Bytes[key] <= ArenaBytes
    /\ slots' = [slots EXCEPT ![i] = key]
    /\ count' = count + 1
    /\ used' = used + Bytes[key]
    /\ UNCHANGED saturated

(* The table is left as it is, with the flag set or with the key in it, or    *)
(* gets the key in the first slot of the search that is empty.                *)
LEMMA InsertCases ==
    ASSUME Typed, NEW key \in Key, Insert(key)
    PROVE  \/ Saturate
           \/ Kept /\ key \in Recorded
           \/ \E d \in Slot : First(key, d) /\ Stored(key, Probe(key, d))
<1>1. CASE (\A d \in Slot : ~Ends(key, d)) /\ Saturate
  BY <1>1
<1>2. ASSUME NEW d \in Slot, First(key, d),
             IF slots[Probe(key, d)] = Empty THEN Store(key, Probe(key, d))
             ELSE UNCHANGED <<slots, count, saturated, used>>
      PROVE  \/ Saturate
             \/ Kept /\ key \in Recorded
             \/ First(key, d) /\ Stored(key, Probe(key, d))
  <2>1. CASE slots[Probe(key, d)] = Empty
    <3>1. Bytes[key] \in Nat /\ used \in Nat /\ ArenaBytes \in Nat
      BY KeyAssumption, SizeAssumption DEF Typed
    <3> QED
      BY <1>2, <2>1, <3>1 DEF Store, Stored
  <2>2. CASE slots[Probe(key, d)] # Empty
    <3>1. slots[Probe(key, d)] = key
      BY <1>2, <2>2 DEF First, Ends
    <3>2. key \in Recorded
      BY <3>1, ProbeInSlot, KeyNotEmpty DEF Recorded
    <3> QED
      BY <1>2, <2>2, <3>2 DEF Kept
  <2> QED
    BY <2>1, <2>2
<1> QED
  BY <1>1, <1>2 DEF Insert

(* Storing a key in an empty slot adds it to what is recorded, and removes    *)
(* nothing.                                                                   *)
LEMMA StoredRecorded ==
    ASSUME Typed, NEW key \in Key, NEW i \in Slot, Stored(key, i)
    PROVE  Recorded' = Recorded \cup {key}
<1>1. /\ slots \in [Slot -> Key \cup {Empty}]
      /\ slots[i] = Empty
      /\ slots' = [slots EXCEPT ![i] = key]
  BY DEF Typed, Stored
<1>2. \A j \in Slot : slots'[j] = IF j = i THEN key ELSE slots[j]
  BY <1>1
<1> QED
  BY <1>1, <1>2, KeyNotEmpty DEF Recorded

-----------------------------------------------------------------------------
\* The types of the state hold throughout.
LEMMA TypedCorrect == Spec => []Typed
<1>1. Init => Typed
  <2> SUFFICES ASSUME Init PROVE Typed
    OBVIOUS
  <2>1. slots \in [Slot -> Key \cup {Empty}]
    BY Zenon DEF Init
  <2>2. 0 \in 0..ArenaBytes /\ NoLabel = Cut[NoLabel] /\ NoLabel \in Label
    BY LabelAssumption, SizeAssumption
  <2> QED
    BY <2>1, <2>2 DEF Init, Typed
<1>2. Typed /\ [Next]_vars => Typed'
  <2> SUFFICES ASSUME Typed, [Next]_vars PROVE Typed'
    OBVIOUS
  <2>1. ASSUME NEW l \in Label, EnterTest(l) PROVE Typed'
    BY <2>1, LabelAssumption DEF EnterTest, Typed
  <2>2. ASSUME NEW p \in PathId, RecordPathHit(p) PROVE Typed'
    <3> DEFINE key == <<label, p>>
    <3>1. key \in Key /\ <<entered, p>> \in Key
      BY DEF Key, Typed
    <3>2. hits' \subseteq Key /\ label' = label /\ entered' = entered
      BY <2>2, <3>1 DEF RecordPathHit, Typed
    <3>3. CASE Saturate
      BY <3>2, <3>3 DEF Saturate, Typed
    <3>4. CASE Kept
      BY <3>2, <3>4 DEF Kept, Typed
    <3>5. ASSUME NEW d \in Slot, Stored(key, Probe(key, d)) PROVE Typed'
      <4>1. Bytes[key] \in Nat /\ Probe(key, d) \in Slot
        BY <3>1, ProbeInSlot, KeyAssumption
      <4> HIDE DEF key
      <4>2. used' \in 0..ArenaBytes /\ count' \in Nat
        BY <3>5, <4>1, SizeAssumption DEF Stored, Typed
      <4>3. slots' \in [Slot -> Key \cup {Empty}] /\ saturated' = saturated
        BY <3>1, <3>5, <4>1 DEF Stored, Typed
      <4> QED
        BY <3>2, <4>2, <4>3 DEF Typed
    <3> QED
      BY <2>2, <3>1, <3>3, <3>4, <3>5, InsertCases DEF RecordPathHit
  <2>3. CASE Reset
    <3>1. slots' \in [Slot -> Key \cup {Empty}]
      BY <2>3, Zenon DEF Reset
    <3>2. 0 \in 0..ArenaBytes /\ NoLabel = Cut[NoLabel] /\ NoLabel \in Label
      BY LabelAssumption, SizeAssumption
    <3> QED
      BY <2>3, <3>1, <3>2 DEF Reset, Typed
  <2>4. CASE UNCHANGED vars
    BY <2>4 DEF vars, Typed
  <2> QED
    BY <2>1, <2>2, <2>3, <2>4 DEF Next
<1> QED
  BY <1>1, <1>2, PTL DEF Spec

-----------------------------------------------------------------------------
(* The record never claims to be complete when a hit is missing from it,      *)
(* whatever ran out: the table, the arena or the buffer for the key.          *)
THEOREM LossIsFlagged == Spec => []NoSilentLoss
<1>1. Init => NoSilentLoss
  BY DEF Init, NoSilentLoss, Recorded, CutHits
<1>2. Typed /\ NoSilentLoss /\ [Next]_vars => NoSilentLoss'
  <2> SUFFICES ASSUME Typed, NoSilentLoss, [Next]_vars PROVE NoSilentLoss'
    OBVIOUS
  <2>1. ASSUME NEW l \in Label, EnterTest(l) PROVE NoSilentLoss'
    BY <2>1 DEF EnterTest, NoSilentLoss, Recorded, CutHits
  <2>2. ASSUME NEW p \in PathId, RecordPathHit(p) PROVE NoSilentLoss'
    <3> DEFINE key == <<label, p>>
    <3>1. key \in Key /\ CutHits' = CutHits \cup {key}
      <4>1. hits' = hits \cup {<<entered, p>>} /\ label = Cut[entered]
        BY <2>2 DEF RecordPathHit, Typed
      <4>2. CutHits' = CutHits \cup {<<Cut[<<entered, p>>[1]], <<entered, p>>[2]>>}
        BY <4>1, Zenon DEF CutHits
      <4>3. key \in Key
        BY DEF Typed, Key
      <4> QED
        BY <4>1, <4>2, <4>3
    <3> HIDE DEF key
    <3>2. CASE Saturate
      <4>1. Recorded' = Recorded /\ saturated'
        BY <3>2 DEF Saturate, Recorded
      <4> QED
        BY <3>1, <4>1 DEF NoSilentLoss
    <3>3. CASE Kept /\ key \in Recorded
      <4>1. Recorded' = Recorded /\ saturated' = saturated
        BY <3>3 DEF Kept, Recorded
      <4> QED
        BY <3>1, <3>3, <4>1 DEF NoSilentLoss
    <3>4. ASSUME NEW d \in Slot, Stored(key, Probe(key, d)) PROVE NoSilentLoss'
      <4>1. Recorded' = Recorded \cup {key} /\ saturated' = saturated
        BY <3>1, <3>4, ProbeInSlot, StoredRecorded DEF Stored
      <4> QED
        BY <3>1, <4>1 DEF NoSilentLoss
    <3> QED
      BY <2>2, <3>1, <3>2, <3>3, <3>4, InsertCases DEF RecordPathHit, key
  <2>3. CASE Reset
    BY <2>3 DEF Reset, NoSilentLoss, Recorded, CutHits
  <2>4. CASE UNCHANGED vars
    BY <2>4 DEF vars, NoSilentLoss, Recorded, CutHits
  <2> QED
    BY <2>1, <2>2, <2>3, <2>4 DEF Next
<1> QED
  BY <1>1, <1>2, TypedCorrect, PTL DEF Spec

-----------------------------------------------------------------------------
(***************************************************************************)
(* The search is sound, so that a key is stored once.                      *)
(***************************************************************************)

(* A search that ends at an empty slot shows that the key is nowhere: by      *)
(* NoGap it would have met the key before.                                    *)
LEMMA SearchFinds ==
    ASSUME Typed, NoGap, NEW key \in Key, NEW d \in Slot,
           First(key, d), slots[Probe(key, d)] = Empty
    PROVE  key \notin Recorded
<1> SUFFICES ASSUME key \in Recorded PROVE FALSE
  OBVIOUS
<1>1. PICK c \in Slot : /\ slots[Probe(key, c)] = key
                        /\ \A e \in Slot : e < c => slots[Probe(key, e)] # Empty
  BY DEF NoGap
<1>2. ~(c < d)
  BY <1>1 DEF First, Ends
<1>3. ~(d < c)
  BY <1>1
<1>4. c = d
  BY <1>2, <1>3, SizeAssumption DEF Slot
<1> QED
  BY <1>1, <1>4, KeyNotEmpty

(* The slots that are taken stay taken, so a search that found its key still  *)
(* does, and the new key is where its own search ended.                       *)
LEMMA StoredNoGap ==
    ASSUME Typed, NoGap, NEW key \in Key, NEW d \in Slot,
           First(key, d), Stored(key, Probe(key, d))
    PROVE  NoGap'
<1> DEFINE i == Probe(key, d)
<1>1. i \in Slot /\ \A k \in Key, e \in Slot : Probe(k, e) \in Slot
  BY ProbeInSlot
<1>2. slots[i] = Empty /\ \A j \in Slot : slots'[j] = IF j = i THEN key ELSE slots[j]
  BY <1>1 DEF Stored, Typed
<1>3. Recorded' = Recorded \cup {key}
  BY <1>1, StoredRecorded
<1>4. ASSUME NEW k \in Recorded'
      PROVE  \E c \in Slot : /\ slots'[Probe(k, c)] = k
                             /\ \A e \in Slot : e < c => slots'[Probe(k, e)] # Empty
  <2>1. CASE k = key
    <3>1. \A e \in Slot : e < d => slots[Probe(key, e)] # Empty
      BY DEF First, Ends
    <3>2. \A e \in Slot : e < d => slots'[Probe(key, e)] # Empty
      BY <1>1, <1>2, <3>1, KeyNotEmpty
    <3> QED
      BY <1>1, <1>2, <2>1, <3>2
  <2>2. CASE k # key
    <3>1. k \in Recorded /\ k \in Key
      BY <1>3, <2>2 DEF Recorded, Typed
    <3>2. PICK c \in Slot : /\ slots[Probe(k, c)] = k
                            /\ \A e \in Slot : e < c => slots[Probe(k, e)] # Empty
      BY <3>1 DEF NoGap
    <3>3. slots'[Probe(k, c)] = k
      BY <1>1, <1>2, <3>1, <3>2, KeyNotEmpty
    <3>4. \A e \in Slot : e < c => slots'[Probe(k, e)] # Empty
      BY <1>1, <1>2, <3>1, <3>2, KeyNotEmpty
    <3> QED
      BY <3>3, <3>4
  <2> QED
    BY <2>1, <2>2
<1>5. \A k, c : Probe(k, c)' = Probe(k, c)
  BY DEF Probe
<1> QED
  BY <1>4, <1>5 DEF NoGap

(* What is recorded is as many keys as there are slots, at most.              *)
LEMMA RecordedFinite ==
    ASSUME Typed
    PROVE  IsFiniteSet(Recorded) /\ Cardinality(Recorded) \in 0..Capacity
<1> DEFINE all == {slots[i] : i \in Slot}
<1>1. slots \in Surjection(Slot, all)
  BY DEF Typed, Surjection
<1>2. IsFiniteSet(Slot) /\ Cardinality(Slot) = Capacity
  BY FS_Interval, SizeAssumption DEF Slot
<1>3. IsFiniteSet(all) /\ Cardinality(all) <= Capacity
  BY <1>1, <1>2, FS_Surjection
<1>4. Recorded \in SUBSET all
  BY DEF Recorded
<1>5. IsFiniteSet(Recorded) /\ Cardinality(Recorded) <= Cardinality(all)
  BY <1>3, <1>4, FS_Subset
<1> HIDE DEF all
<1> QED
  BY <1>3, <1>5, FS_CardinalityType, SizeAssumption

(* What is recorded is one key more than before when a new one is stored.     *)
LEMMA StoredCounted ==
    ASSUME Typed, CountIsExact, NEW key \in Key, NEW i \in Slot,
           Stored(key, i), key \notin Recorded
    PROVE  CountIsExact'
<1>1. Recorded' = Recorded \cup {key}
  BY StoredRecorded
<1>2. Cardinality(Recorded') = Cardinality(Recorded) + 1
  BY <1>1, RecordedFinite, FS_AddElement
<1>3. count' = Cardinality(Recorded')
  BY <1>2 DEF Stored, CountIsExact
<1>4. \A j \in Slot : slots'[j] = IF j = i THEN key ELSE slots[j]
  BY DEF Stored, Typed
<1>5. \A j \in Slot : slots[j] # key
  BY KeyNotEmpty DEF Recorded
<1>6. \A j, k \in Slot : slots'[j] = slots'[k] /\ slots'[j] # Empty => j = k
  BY <1>4, <1>5 DEF CountIsExact
<1> QED
  BY <1>3, <1>6 DEF CountIsExact

(* An empty table holds nothing. *)
LEMMA EmptyTable ==
    ASSUME slots = [i \in Slot |-> Empty], count = 0
    PROVE  NoGap /\ CountIsExact
<1>1. \A i \in Slot : slots[i] = Empty
  BY Zenon
<1>2. Recorded = {}
  BY <1>1, Zenon DEF Recorded
<1> QED
  BY <1>1, <1>2, FS_EmptySet DEF NoGap, CountIsExact

(* The count the collector reads is that of the keys in the table, and every  *)
(* key is where a search for it will find it. Neither holds without the       *)
(* other: it is because the searches find what is there that no key is stored *)
(* twice.                                                                     *)
THEOREM SearchesAreSound == Spec => [](NoGap /\ CountIsExact)
<1>1. Init => NoGap /\ CountIsExact
  BY EmptyTable DEF Init
<1>2. Typed /\ NoGap /\ CountIsExact /\ [Next]_vars => NoGap' /\ CountIsExact'
  <2> SUFFICES ASSUME Typed, NoGap, CountIsExact, [Next]_vars
               PROVE  NoGap' /\ CountIsExact'
    OBVIOUS
  <2>1. ASSUME slots' = slots, count' = count PROVE NoGap' /\ CountIsExact'
    BY <2>1 DEF NoGap, CountIsExact, Recorded, Probe
  <2>2. ASSUME NEW l \in Label, EnterTest(l) PROVE NoGap' /\ CountIsExact'
    BY <2>1, <2>2 DEF EnterTest
  <2>3. ASSUME NEW p \in PathId, RecordPathHit(p) PROVE NoGap' /\ CountIsExact'
    <3> DEFINE key == <<label, p>>
    <3>1. key \in Key
      BY DEF Key, Typed
    <3> HIDE DEF key
    <3>2. ASSUME NEW d \in Slot, First(key, d), Stored(key, Probe(key, d))
          PROVE  NoGap' /\ CountIsExact'
      <4>1. Probe(key, d) \in Slot
        BY <3>1, ProbeInSlot
      <4>2. key \notin Recorded
        BY <3>1, <3>2, SearchFinds DEF Stored
      <4> QED
        BY <3>1, <3>2, <4>1, <4>2, StoredNoGap, StoredCounted
    <3>3. CASE Saturate
      BY <2>1, <3>3 DEF Saturate
    <3>4. CASE Kept
      BY <2>1, <3>4 DEF Kept
    <3> QED
      BY <2>3, <3>1, <3>2, <3>3, <3>4, InsertCases DEF RecordPathHit, key
  <2>4. CASE Reset
    <3>1. (slots = [i \in Slot |-> Empty])' /\ (count = 0)'
      BY <2>4 DEF Reset
    <3> QED
      BY <3>1, EmptyTable, PTL
  <2>5. CASE UNCHANGED vars
    BY <2>1, <2>5 DEF vars
  <2> QED
    BY <2>2, <2>3, <2>4, <2>5 DEF Next
<1> QED
  BY <1>1, <1>2, TypedCorrect, PTL DEF Spec

(* A key has one slot and the count is that of the keys. *)
THEOREM CountCorrect == Spec => []CountIsExact
BY SearchesAreSound, PTL

(* A search that stops at an empty slot has missed nothing. *)
THEOREM GapFree == Spec => []NoGap
BY SearchesAreSound, PTL

(* The counter never exceeds the table, nor the arena its size. *)
THEOREM TypeCorrect == Spec => []TypeOK
<1>1. Typed /\ CountIsExact => TypeOK
  <2> SUFFICES ASSUME Typed, CountIsExact PROVE TypeOK
    OBVIOUS
  <2>1. count \in 0..Capacity
    BY RecordedFinite DEF CountIsExact
  <2> QED
    BY <2>1 DEF Typed, TypeOK
<1> QED
  BY <1>1, TypedCorrect, SearchesAreSound, PTL

-----------------------------------------------------------------------------
(***************************************************************************)
(* The dump: what the loop over the slots leaves in the buffer.            *)
(***************************************************************************)

(* A set of numbers that has 0, and the next of each that it has below m, has *)
(* all of them up to m: induction over the turns of a loop.                   *)
LEMMA Induction ==
    ASSUME NEW m \in Nat, NEW S, 0 \in S, \A n \in S : n \in 0..(m - 1) => n + 1 \in S
    PROVE  0..m \subseteq S
<1> DEFINE T == 0..m \ S
<1> SUFFICES ASSUME T # {} PROVE FALSE
  BY Zenon
<1>1. T \subseteq Nat
  OBVIOUS
<1>2. PICK n \in T : \A k \in T : <<k, n>> \notin OpToRel(<, Nat)
  BY <1>1, WFMin, NatLessThanWellFounded, Zenon
<1>3. \A j, k \in Nat : j < k => <<j, k>> \in OpToRel(<, Nat)
  BY Zenon DEF OpToRel
<1>4. n \in Nat /\ n # 0 /\ n <= m /\ n \notin S
  OBVIOUS
<1>5. n - 1 \in Nat /\ n - 1 < n /\ n - 1 \in 0..(m - 1)
  BY <1>4
<1>6. n - 1 \notin T
  BY <1>1, <1>2, <1>3, <1>4, <1>5, Zenon
<1>7. n - 1 \in S
  BY <1>5, <1>6
<1>8. (n - 1) + 1 \in S
  BY <1>5, <1>7
<1> QED
  BY <1>4, <1>8

Turns(after, m) ==
    after = [n \in 0..m |-> IF n = 0 THEN EmptyDump ELSE DumpKey(after[n - 1], slots[n - 1])]

(* The loop has a result after any number of turns. *)
LEMMA TurnsExist == \A m \in Nat : \E after : Turns(after, m)
<1> DEFINE S == {m \in Nat : \E after : Turns(after, m)}
<1>1. 0 \in S
  <2> DEFINE after == [n \in 0..0 |-> EmptyDump]
  <2>1. Turns(after, 0)
    BY DEF Turns
  <2> QED
    BY <2>1
<1>2. ASSUME NEW m \in S PROVE m + 1 \in S
  <2>1. PICK f : Turns(f, m)
    OBVIOUS
  <2> DEFINE after == [n \in 0..(m + 1) |->
                         IF n = m + 1 THEN DumpKey(f[m], slots[m]) ELSE f[n]]
  <2>2. m \in Nat /\ \A n \in 0..(m + 1) : n # m + 1 => n \in 0..m
    OBVIOUS
  <2>3. \A n \in 0..m : after[n] = f[n]
    BY <2>2
  <2>4. \A n \in 0..m : f[n] = IF n = 0 THEN EmptyDump ELSE DumpKey(f[n - 1], slots[n - 1])
    BY <2>1, Zenon DEF Turns
  <2>5. \A n \in 0..(m + 1) : n # 0 => n - 1 \in 0..m
    BY <2>2
  <2>6. ASSUME NEW n \in 0..(m + 1)
        PROVE  after[n] = IF n = 0 THEN EmptyDump ELSE DumpKey(after[n - 1], slots[n - 1])
    <3>1. CASE n = m + 1
      <4>1. after[n] = DumpKey(f[m], slots[m]) /\ n # 0 /\ n - 1 = m /\ after[m] = f[m]
        BY <2>2, <2>3, <3>1
      <4> QED
        BY <4>1, Zenon
    <3>2. CASE n # m + 1
      <4>1. after[n] = f[n] /\ (n # 0 => after[n - 1] = f[n - 1])
        BY <2>2, <2>3, <2>5, <3>2
      <4> QED
        BY <2>2, <2>4, <3>2, <4>1, Zenon
    <3> QED
      BY <3>1, <3>2
  <2>7. Turns(after, m + 1)
    <3> HIDE DEF after
    <3>1. after = [n \in 0..(m + 1) |-> after[n]]
      BY Zenon DEF after
    <3> QED
      BY <2>6, <3>1, Zenon DEF Turns
  <2> QED
    BY <2>2, <2>7
<1> HIDE DEF S
<1>3. ASSUME NEW m \in Nat PROVE m \in S
  BY <1>1, <1>2, Induction
<1> QED
  BY <1>3 DEF S

(* The dump before a slot: it fits with the mark still to come, or has its    *)
(* mark, or else has the keys of all the slots so far.                        *)
Fits(dump, n) ==
    /\ dump = [keys |-> dump.keys, pos |-> dump.pos, truncated |-> dump.truncated]
    /\ dump.pos \in Int
    /\ dump.truncated \in BOOLEAN
    /\ dump.pos + 1 <= DumpBytes
    /\ ~dump.truncated =>
         /\ dump.pos + 1 <= DumpBytes - Reserve
         /\ dump.keys = {slots[j] : j \in 0..(n - 1)} \ {Empty}

(* One turn of the loop keeps it so. *)
LEMMA TurnFits ==
    ASSUME Typed, NEW n \in Slot, NEW dump, Fits(dump, n)
    PROVE  Fits(DumpKey(dump, slots[n]), n + 1)
<1> DEFINE cur == slots[n]
           need == Bytes[cur] - 1 + (IF dump.keys = {} THEN 0 ELSE 1)
           before == {slots[j] : j \in 0..(n - 1)}
           now == {slots[j] : j \in 0..((n + 1) - 1)}
<1>1. n \in Nat /\ n \in 0..n /\ \A j : j \in 0..((n + 1) - 1) <=> j = n \/ j \in 0..(n - 1)
  BY SizeAssumption DEF Slot
<1>2. now = before \cup {cur}
  BY <1>1
<1>3. /\ DumpBytes \in Nat /\ MarkBytes \in Nat /\ Reserve \in Nat
      /\ MarkBytes < Reserve /\ Reserve < DumpBytes
  BY DumpAssumption
<1> HIDE DEF before, now, cur
<1>4. CASE dump.truncated \/ cur = Empty
  <2>1. DumpKey(dump, cur) = dump
    BY <1>4, Zenon DEF DumpKey
  <2>2. ~dump.truncated => dump.keys = now \ {Empty}
    BY <1>2, <1>4 DEF Fits, before
  <2> QED
    BY <2>1, <2>2 DEF Fits, cur, now
<1>5. CASE ~dump.truncated /\ cur # Empty /\ dump.pos + need + 1 >= DumpBytes - Reserve
  <2>1. DumpKey(dump, cur) = [dump EXCEPT !.truncated = TRUE, !.pos = @ + MarkBytes]
    BY <1>5, Zenon DEF DumpKey
  <2>2. /\ dump.pos \in Int /\ dump.pos + 1 <= DumpBytes - Reserve
        /\ dump = [keys |-> dump.keys, pos |-> dump.pos, truncated |-> dump.truncated]
    BY <1>5 DEF Fits
  <2>3. DumpKey(dump, cur) = [keys |-> dump.keys, pos |-> dump.pos + MarkBytes, truncated |-> TRUE]
    BY <2>1, <2>2
  <2>4. dump.pos + MarkBytes \in Int /\ dump.pos + MarkBytes + 1 <= DumpBytes
    BY <1>3, <2>2
  <2> QED
    BY <2>3, <2>4 DEF Fits, cur
<1>6. CASE ~dump.truncated /\ cur # Empty /\ ~(dump.pos + need + 1 >= DumpBytes - Reserve)
  <2>1. DumpKey(dump, cur) = [dump EXCEPT !.keys = @ \cup {cur}, !.pos = @ + need]
    BY <1>6, Zenon DEF DumpKey
  <2>2. need \in Int
    <3>1. cur \in Key
      BY <1>6 DEF Typed, cur
    <3>2. Bytes[cur] \in Nat
      BY <3>1, KeyAssumption
    <3> QED
      BY <3>2
  <2> HIDE DEF need
  <2>3. /\ dump.pos \in Int
        /\ dump = [keys |-> dump.keys, pos |-> dump.pos, truncated |-> dump.truncated]
        /\ dump.truncated = FALSE
        /\ dump.keys = before \ {Empty}
    BY <1>6 DEF Fits, before
  <2>4. DumpKey(dump, cur) =
          [keys |-> dump.keys \cup {cur}, pos |-> dump.pos + need, truncated |-> FALSE]
    BY <1>6, <2>1, <2>3
  <2>5. dump.pos + need \in Int /\ dump.pos + need + 1 <= DumpBytes - Reserve
    BY <1>3, <1>6, <2>2, <2>3
  <2>6. dump.keys \cup {cur} = now \ {Empty}
    BY <1>2, <1>6, <2>3
  <2> QED
    BY <1>3, <2>4, <2>5, <2>6 DEF Fits, cur, now
<1> QED
  BY <1>4, <1>5, <1>6 DEF cur

(* After the last slot. *)
LEMMA FormatFits == Typed => Fits(Format, Capacity)
<1> SUFFICES ASSUME Typed PROVE Fits(Format, Capacity)
  OBVIOUS
<1> DEFINE after == CHOOSE after : Turns(after, Capacity)
           S == {n \in 0..Capacity : Fits(after[n], n)}
<1>1. Capacity \in Nat /\ \E f : Turns(f, Capacity)
  BY TurnsExist, SizeAssumption
<1>2. Turns(after, Capacity)
  BY <1>1, Zenon
<1>3. Format = after[Capacity]
  BY Zenon DEF Format, Turns
<1> HIDE DEF after
<1>4. \A n \in 0..Capacity :
        after[n] = IF n = 0 THEN EmptyDump ELSE DumpKey(after[n - 1], slots[n - 1])
  BY <1>2, Zenon DEF Turns
<1>5. 0 \in S
  <2>1. 0 \in 0..Capacity /\ {slots[j] : j \in 0..(0 - 1)} = {}
    BY <1>1
  <2>2. after[0] = EmptyDump
    BY <1>4, <2>1
  <2>3. Fits(EmptyDump, 0)
    <3>1. {slots[j] : j \in 0..(0 - 1)} \ {Empty} = {}
      BY <2>1
    <3>2. /\ DumpBytes \in Nat /\ Reserve \in Nat /\ Reserve < DumpBytes
          /\ 0 + 1 <= DumpBytes /\ 0 + 1 <= DumpBytes - Reserve
      BY DumpAssumption
    <3>3. /\ EmptyDump.keys = {} /\ EmptyDump.pos = 0 /\ EmptyDump.truncated = FALSE
          /\ EmptyDump = [keys |-> {}, pos |-> 0, truncated |-> FALSE]
      BY DEF EmptyDump
    <3>4. /\ EmptyDump = [keys |-> EmptyDump.keys, pos |-> EmptyDump.pos,
                          truncated |-> EmptyDump.truncated]
          /\ EmptyDump.pos \in Int /\ EmptyDump.truncated \in BOOLEAN
      BY <3>3
    <3>5. /\ EmptyDump.pos + 1 <= DumpBytes
          /\ EmptyDump.pos + 1 <= DumpBytes - Reserve
          /\ EmptyDump.keys = {slots[j] : j \in 0..(0 - 1)} \ {Empty}
      BY <3>1, <3>2, <3>3, Zenon
    <3> QED
      BY <3>4, <3>5, Zenon DEF Fits
  <2> QED
    BY <2>1, <2>2, <2>3
<1>6. ASSUME NEW n \in S, n \in 0..(Capacity - 1) PROVE n + 1 \in S
  <2>1. /\ n \in Slot /\ Fits(after[n], n)
        /\ n + 1 \in 0..Capacity /\ n + 1 # 0 /\ (n + 1) - 1 = n
    BY <1>1, <1>6 DEF Slot
  <2>2. after[n + 1] = DumpKey(after[n], slots[n])
    BY <1>4, <2>1
  <2> QED
    BY <2>1, <2>2, TurnFits
<1> HIDE DEF S
<1>7. Capacity \in S
  BY <1>1, <1>5, <1>6, Induction
<1> QED
  BY <1>3, <1>7 DEF S

(* What the collector reads fits in its buffer, and is complete where neither *)
(* the flag nor the mark says that it is not: for tables, arenas and buffers  *)
(* of any size and keys of any length.                                        *)
THEOREM DumpIsComplete == Spec => []ReportComplete
<1>1. Typed /\ NoSilentLoss => ReportComplete
  <2> SUFFICES ASSUME Typed, NoSilentLoss PROVE ReportComplete
    OBVIOUS
  <2>1. /\ Format.pos + 1 <= DumpBytes
        /\ ~Format.truncated => Format.keys = {slots[j] : j \in 0..(Capacity - 1)} \ {Empty}
    BY FormatFits DEF Fits
  <2>2. ~Format.truncated => Format.keys = Recorded
    BY <2>1, Zenon DEF Recorded, Slot
  <2> QED
    BY <2>1, <2>2 DEF ReportComplete, NoSilentLoss
<1> QED
  BY <1>1, TypedCorrect, LossIsFlagged, PTL
=============================================================================
