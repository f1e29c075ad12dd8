-------------------------- MODULE RefCCodeProofs --------------------------
(***************************************************************************)
(* What RefCCode guarantees for any program that its assumptions allow,    *)
(* any data it may find and a heap of any size: counts are exact, and data *)
(* that is also held elsewhere is not touched.                             *)
(***************************************************************************)
EXTENDS RefCCode, FiniteSetTheorems, WellFoundedInduction, TLAPS

(***************************************************************************)
(* Counting                                                                *)
(***************************************************************************)
\* How often f takes the value c on S.
Count(f, S, c) == Cardinality({x \in S : f[x] = c})
One(a, b) == IF a = b THEN 1 ELSE 0

(* A count is a number, and is zero where the value does not occur.          *)
LEMMA CountType ==
    ASSUME NEW f, NEW S, IsFiniteSet(S), NEW c
    PROVE  /\ IsFiniteSet({x \in S : f[x] = c})
           /\ Count(f, S, c) \in Nat
           /\ Count(f, S, c) = 0 <=> \A x \in S : f[x] # c
<1> DEFINE X == {x \in S : f[x] = c}
<1>1. IsFiniteSet(X)
  <2>1. X \in SUBSET S
    OBVIOUS
  <2> QED
    BY <2>1, FS_Subset
<1>2. Cardinality(X) \in Nat /\ (Cardinality(X) = 0 <=> X = {})
  BY <1>1, FS_CardinalityType, FS_EmptySet
<1> QED
  BY <1>1, <1>2 DEF Count

(* What is counted on two disjoint sets adds up.                             *)
LEMMA CountSplit ==
    ASSUME NEW f, NEW S, IsFiniteSet(S), NEW T, IsFiniteSet(T), S \cap T = {}, NEW c
    PROVE  Count(f, S \cup T, c) = Count(f, S, c) + Count(f, T, c)
<1> DEFINE X == {x \in S : f[x] = c}
           Y == {x \in T : f[x] = c}
<1>1. IsFiniteSet(X) /\ IsFiniteSet(Y) /\ Cardinality(X) \in Nat /\ Cardinality(Y) \in Nat
  BY CountType DEF Count
<1>2. X \cap Y = {} /\ {x \in S \cup T : f[x] = c} = X \cup Y
  OBVIOUS
<1>3. Cardinality(X \cup Y) = Cardinality(X) + Cardinality(Y) - Cardinality(X \cap Y)
  BY <1>1, FS_Union
<1>4. Cardinality(X \cap Y) = 0
  BY <1>2, FS_EmptySet
<1> QED
  BY <1>1, <1>2, <1>3, <1>4 DEF Count

(* Only the values on the set matter.                                        *)
LEMMA CountSame ==
    ASSUME NEW f, NEW g, NEW S, \A x \in S : f[x] = g[x], NEW c
    PROVE  Count(f, S, c) = Count(g, S, c)
<1>1. {x \in S : f[x] = c} = {x \in S : g[x] = c}
  OBVIOUS
<1> QED
  BY <1>1 DEF Count

\* m renames the places of f in S to those of g in T.
Renames(m, S, T, f, g) ==
    /\ m \in [S -> T]
    /\ \A x, y \in S : m[x] = m[y] => x = y
    /\ \A y \in T : \E x \in S : m[x] = y
    /\ \A x \in S : f[x] = g[m[x]]

(* A count does not change when the places are renamed.                      *)
LEMMA CountMap ==
    ASSUME NEW S, IsFiniteSet(S), NEW T, NEW m, NEW f, NEW g, Renames(m, S, T, f, g), NEW c
    PROVE  Count(f, S, c) = Count(g, T, c)
<1> DEFINE X == {x \in S : f[x] = c}
           Y == {y \in T : g[y] = c}
           b == [x \in X |-> m[x]]
<1>1. IsFiniteSet(X)
  <2>1. X \in SUBSET S
    OBVIOUS
  <2> QED
    BY <2>1, FS_Subset
<1>2. b \in Bijection(X, Y)
  <2>1. b \in [X -> Y]
    BY DEF Renames
  <2>2. \A x, y \in X : b[x] = b[y] => x = y
    BY DEF Renames
  <2>3. \A y \in Y : \E x \in X : b[x] = y
    BY DEF Renames
  <2> QED
    BY <2>1, <2>2, <2>3 DEF Bijection, Injection, Surjection, IsInjective
<1>3. Cardinality(Y) = Cardinality(X)
  BY <1>1, <1>2, FS_Bijection DEF ExistsBijection
<1> QED
  BY <1>3 DEF Count

(* One more place counts for what is in it.                                  *)
LEMMA CountMore ==
    ASSUME NEW f, NEW S, IsFiniteSet(S), NEW x, x \notin S, NEW c
    PROVE  Count(f, S \cup {x}, c) = Count(f, S, c) + One(f[x], c)
<1> DEFINE X == {y \in S : f[y] = c}
<1>1. IsFiniteSet(X) /\ Cardinality(X) \in Nat
  BY CountType DEF Count
<1>2. CASE f[x] = c
  <2>1. {y \in S \cup {x} : f[y] = c} = X \cup {x} /\ x \notin X
    BY <1>2
  <2> QED
    BY <1>1, <1>2, <2>1, FS_AddElement DEF Count, One
<1>3. CASE f[x] # c
  <2>1. {y \in S \cup {x} : f[y] = c} = X
    BY <1>3
  <2> QED
    BY <1>1, <1>3, <2>1, Cardinality(X) + 0 = Cardinality(X) DEF Count, One
<1> QED
  BY <1>2, <1>3

(***************************************************************************)
(* Sequences as places                                                     *)
(***************************************************************************)
(* What a sequence holds, one element more or less.                          *)
LEMMA OccurrencesType ==
    ASSUME NEW V, NEW s \in Seq(V), NEW c
    PROVE  /\ Occurrences(s, c) = Count(s, DOMAIN s, c)
           /\ IsFiniteSet(DOMAIN s)
           /\ Occurrences(s, c) \in Nat
           /\ Occurrences(s, c) = 0 <=> \A i \in DOMAIN s : s[i] # c
<1>1. DOMAIN s = 1..Len(s) /\ Len(s) \in Nat
  OBVIOUS
<1>2. IsFiniteSet(DOMAIN s)
  BY <1>1, FS_Interval
<1> QED
  BY <1>2, CountType DEF Occurrences, Count

(* One element more at the end of a sequence.                                *)
LEMMA OccurrencesAppend ==
    ASSUME NEW V, NEW s \in Seq(V), NEW v \in V, NEW c
    PROVE  Occurrences(Append(s, v), c) = Occurrences(s, c) + One(v, c)
<1> DEFINE n == Len(s)
           t == Append(s, v)
<1>1. t \in Seq(V) /\ n \in Nat /\ DOMAIN s = 1..n /\ DOMAIN t = (1..n) \cup {n + 1}
      /\ n + 1 \notin 1..n /\ t[n + 1] = v /\ \A i \in 1..n : t[i] = s[i]
  OBVIOUS
<1> HIDE DEF n, t
<1>2. Count(t, (1..n) \cup {n + 1}, c) = Count(t, 1..n, c) + One(v, c)
  <2>1. IsFiniteSet(1..n)
    BY <1>1, FS_Interval
  <2>2. Count(t, (1..n) \cup {n + 1}, c) = Count(t, 1..n, c) + One(t[n + 1], c)
    BY <1>1, <2>1, CountMore, SMTT(40)
  <2> QED
    BY <1>1, <2>2
<1>3. Count(t, 1..n, c) = Count(s, 1..n, c)
  BY <1>1, CountSame
<1> QED
  BY <1>1, <1>2, <1>3 DEF Occurrences, Count, t

(* What two sequences hold, their concatenation holds.                       *)
LEMMA OccurrencesConcat ==
    ASSUME NEW V, NEW s \in Seq(V), NEW t \in Seq(V), NEW c
    PROVE  Occurrences(s \o t, c) = Occurrences(s, c) + Occurrences(t, c)
<1> DEFINE n == Len(s)
           k == Len(t)
           u == s \o t
           later == (n + 1)..(n + k)
           m == [i \in later |-> i - n]
<1>1. /\ u \in Seq(V) /\ n \in Nat /\ k \in Nat /\ DOMAIN s = 1..n /\ DOMAIN t = 1..k
      /\ DOMAIN u = (1..n) \cup later /\ (1..n) \cap later = {}
      /\ \A i \in 1..n : u[i] = s[i]
      /\ \A i \in later : u[i] = t[i - n]
  OBVIOUS
<1>2. IsFiniteSet(1..n) /\ IsFiniteSet(later) /\ IsFiniteSet(1..k)
  BY <1>1, FS_Interval
<1>3. Count(u, (1..n) \cup later, c) = Count(u, 1..n, c) + Count(u, later, c)
  BY <1>1, <1>2, CountSplit
<1>4. Count(u, 1..n, c) = Count(s, 1..n, c)
  <2> HIDE DEF n, u
  <2> QED
    BY <1>1, CountSame
<1>5. Count(u, later, c) = Count(t, 1..k, c)
  <2>1. m \in [later -> 1..k]
    BY <1>1
  <2>2. \A x, y \in later : m[x] = m[y] => x = y
    BY <1>1
  <2>3. \A y \in 1..k : \E x \in later : m[x] = y
    <3> SUFFICES ASSUME NEW y \in 1..k PROVE \E x \in later : m[x] = y
      OBVIOUS
    <3>1. n + y \in later /\ m[n + y] = y
      BY <1>1
    <3> QED
      BY <3>1
  <2>4. \A x \in later : u[x] = t[m[x]]
    BY <1>1
  <2>5. Renames(m, later, 1..k, u, t)
    BY <2>1, <2>2, <2>3, <2>4 DEF Renames
  <2> HIDE DEF m, later, u
  <2> QED
    BY <1>2, <2>5, CountMap
<1> QED
  BY <1>1, <1>3, <1>4, <1>5 DEF Occurrences, Count

(* Sequences of no and of one element.                                       *)
LEMMA OccurrencesSmall ==
    /\ \A c : Occurrences(<<>>, c) = 0
    /\ \A v, c : Occurrences(<<v>>, c) = One(v, c)
<1>1. ASSUME NEW c PROVE Occurrences(<<>>, c) = 0
  <2>1. {i \in DOMAIN <<>> : <<>>[i] = c} = {}
    OBVIOUS
  <2> QED
    BY <2>1, FS_EmptySet DEF Occurrences
<1>2. ASSUME NEW v, NEW c PROVE Occurrences(<<v>>, c) = One(v, c)
  <2>1. <<v>> = Append(<<>>, v) /\ <<>> \in Seq({v})
    OBVIOUS
  <2>2. Occurrences(<<v>>, c) = Occurrences(<<>>, c) + One(v, c)
    BY <2>1, OccurrencesAppend, ZenonT(40)
  <2> QED
    BY <1>1, <2>2 DEF One
<1> QED
  BY <1>1, <1>2

(* A sequence is its head and its tail: the list of references to drop.      *)
LEMMA OccurrencesHead ==
    ASSUME NEW V, NEW s \in Seq(V), s # <<>>, NEW c
    PROVE  /\ Head(s) \in V /\ Tail(s) \in Seq(V)
           /\ Occurrences(s, c) = One(Head(s), c) + Occurrences(Tail(s), c)
<1>1. Head(s) \in V /\ Tail(s) \in Seq(V) /\ <<Head(s)>> \in Seq(V) /\ s = <<Head(s)>> \o Tail(s)
  OBVIOUS
<1>2. Occurrences(s, c) = Occurrences(<<Head(s)>>, c) + Occurrences(Tail(s), c)
  BY <1>1, OccurrencesConcat, ZenonT(40)
<1> QED
  BY <1>1, <1>2, OccurrencesSmall

(* The values of a finite set of variables, in some order.                   *)
LEMMA ValuesOfCount ==
    ASSUME NEW S, IsFiniteSet(S), NEW f, NEW V, \A x \in S : f[x] \in V
    PROVE  /\ ValuesOf(S, f) \in Seq(V)
           /\ \A c : Occurrences(ValuesOf(S, f), c) = Count(f, S, c)
<1> DEFINE n == Cardinality(S)
           m == SetToSeq(S)
           vs == ValuesOf(S, f)
<1>1. n \in Nat /\ ExistsBijection(1..n, S)
  BY FS_CardinalityType
<1>2. PICK b : b \in Bijection(1..n, S)
  BY <1>1 DEF ExistsBijection
<1>3. b \in [1..n -> S] /\ IsInjective(b)
  BY <1>2 DEF Bijection, Injection
<1>4. m \in [1..n -> S] /\ IsInjective(m)
  BY <1>3 DEF SetToSeq
<1>5. IsFiniteSet(1..n) /\ Cardinality(1..n) = n
  BY <1>1, FS_Interval
<1>6. m \in Surjection(1..n, S)
  <2>1. m \in Injection(1..n, S)
    BY <1>4 DEF Injection
  <2> QED
    BY <1>5, <2>1, FS_Injection
<1>7. DOMAIN vs = 1..n /\ \A i \in 1..n : vs[i] = f[m[i]]
  BY <1>4 DEF ValuesOf, Values
<1>8. vs \in Seq(V)
  <2>1. vs = [i \in 1..n |-> f[m[i]]]
    BY <1>4 DEF ValuesOf, Values
  <2>2. \A i \in 1..n : f[m[i]] \in V
    BY <1>4
  <2> QED
    BY <1>1, <2>1, <2>2
<1>9. ASSUME NEW c PROVE Occurrences(vs, c) = Count(f, S, c)
  <2>1. \A x, y \in 1..n : m[x] = m[y] => x = y
    BY <1>4 DEF IsInjective
  <2>2. \A y \in S : \E x \in 1..n : m[x] = y
    BY <1>6 DEF Surjection
  <2> HIDE DEF vs, m, n
  <2>3. Renames(m, 1..n, S, vs, f)
    BY <1>4, <1>7, <2>1, <2>2 DEF Renames
  <2>4. Count(vs, 1..n, c) = Count(f, S, c)
    BY <1>5, <2>3, CountMap
  <2> QED
    BY <1>7, <2>4 DEF Occurrences, Count
<1> QED
  BY <1>8, <1>9

(***************************************************************************)
(* The places in the heap                                                  *)
(***************************************************************************)
InHeap(h, c) == Cardinality(PlacesInHeap(h, c))

(* What a cell refers to are values.                                         *)
LEMMA FieldsType ==
    ASSUME NEW h \in [Cell -> CellType], NEW d \in Cell
    PROVE  /\ Fields(h, d) \in Seq(Value)
           /\ h[d].args \in Seq(Value)
           /\ Fields(h, d) \in {<<>>, h[d].args}
           /\ h[d].kind \notin {"token", "running"} => Fields(h, d) = h[d].args
<1>1. h[d] \in CellType
  OBVIOUS
<1>2. h[d].args \in Seq(Value)
  BY <1>1 DEF CellType
<1>3. <<>> \in Seq(Value)
  OBVIOUS
<1> QED
  BY <1>2, <1>3 DEF Fields

(* Pairing with one thing changes neither finiteness nor the number.         *)
LEMMA PairWith ==
    ASSUME NEW S, IsFiniteSet(S), NEW d
    PROVE  IsFiniteSet({d} \X S) /\ Cardinality({d} \X S) = Cardinality(S)
<1>1. IsFiniteSet({d}) /\ Cardinality({d}) = 1
  BY FS_Singleton
<1>2. IsFiniteSet({d} \X S) /\ Cardinality({d} \X S) = 1 * Cardinality(S)
  BY <1>1, FS_Product
<1>3. Cardinality(S) \in Nat
  BY FS_CardinalityType
<1> QED
  BY <1>2, <1>3

\* The places of c in cell d.
PlacesInCell(h, d, c) == {d} \X {i \in DOMAIN Fields(h, d) : Fields(h, d)[i] = c}

(* The fields of a cell that hold c are as many as c occurs in them.         *)
LEMMA CellPlaces ==
    ASSUME NEW h \in [Cell -> CellType], NEW d \in Cell, NEW c
    PROVE  /\ IsFiniteSet(PlacesInCell(h, d, c))
           /\ Cardinality(PlacesInCell(h, d, c)) = Occurrences(Fields(h, d), c)
<1>1. Fields(h, d) \in Seq(Value)
  BY FieldsType
<1>2. IsFiniteSet({i \in DOMAIN Fields(h, d) : Fields(h, d)[i] = c})
  <2>1. IsFiniteSet(DOMAIN Fields(h, d))
    BY <1>1, OccurrencesType
  <2> QED
    BY <2>1, FS_Subset
<1> QED
  BY <1>2, PairWith DEF PlacesInCell, Occurrences

(* The fields that hold c, of a heap that is finite, can be counted.         *)
LEMMA HeapPlaces ==
    ASSUME NEW h \in [Cell -> CellType], NEW c
    PROVE  IsFiniteSet(PlacesInHeap(h, c)) /\ InHeap(h, c) \in Nat
<1>1. PlacesInHeap(h, c) = UNION {PlacesInCell(h, d, c) : d \in Cell}
  BY DEF PlacesInHeap, PlacesInCell
<1>2. IsFiniteSet(Cell)
  BY MemoryAssumption, FS_Interval DEF Cell
<1>3. IsFiniteSet({PlacesInCell(h, d, c) : d \in Cell})
  <2> DEFINE all == {PlacesInCell(h, d, c) : d \in Cell}
             f == [d \in Cell |-> PlacesInCell(h, d, c)]
  <2>1. f \in [Cell -> all] /\ \A t \in all : \E d \in Cell : f[d] = t
    OBVIOUS
  <2>2. f \in Surjection(Cell, all)
    BY <2>1 DEF Surjection
  <2> HIDE DEF f, all
  <2>3. IsFiniteSet(all)
    BY <1>2, <2>2, FS_Surjection
  <2> QED
    BY <2>3 DEF all
<1>4. IsFiniteSet(PlacesInHeap(h, c))
  <2>1. \A T \in {PlacesInCell(h, d, c) : d \in Cell} : IsFiniteSet(T)
    BY CellPlaces
  <2>2. IsFiniteSet(UNION {PlacesInCell(h, d, c) : d \in Cell})
    BY <1>3, <2>1, FS_UNION
  <2> QED
    BY <1>1, <2>2
<1> QED
  BY <1>4, FS_CardinalityType DEF InHeap

(* Two heaps that differ in one cell differ by what that cell refers to.     *)
LEMMA HeapCountOne ==
    ASSUME NEW h \in [Cell -> CellType], NEW g \in [Cell -> CellType], NEW e \in Cell,
           \A d \in Cell \ {e} : Fields(h, d) = Fields(g, d), NEW c
    PROVE  InHeap(g, c) + Occurrences(Fields(h, e), c)
             = InHeap(h, c) + Occurrences(Fields(g, e), c)
<1> DEFINE Others(k) == UNION {PlacesInCell(k, d, c) : d \in Cell \ {e}}
<1>1. ASSUME NEW k \in [Cell -> CellType]
      PROVE  /\ IsFiniteSet(Others(k)) /\ Cardinality(Others(k)) \in Nat
             /\ Occurrences(Fields(k, e), c) \in Nat
             /\ InHeap(k, c) = Cardinality(Others(k)) + Occurrences(Fields(k, e), c)
  <2>1. PlacesInHeap(k, c) = Others(k) \cup PlacesInCell(k, e, c)
    BY DEF PlacesInHeap, PlacesInCell
  <2>2. Others(k) \cap PlacesInCell(k, e, c) = {}
    BY DEF PlacesInCell
  <2>3. IsFiniteSet(Others(k)) /\ Cardinality(Others(k)) \in Nat
    <3>1. Others(k) \in SUBSET PlacesInHeap(k, c)
      BY <2>1
    <3> QED
      BY <3>1, HeapPlaces, FS_Subset, FS_CardinalityType
  <2>4. /\ IsFiniteSet(PlacesInCell(k, e, c))
        /\ Cardinality(PlacesInCell(k, e, c)) = Occurrences(Fields(k, e), c)
        /\ Occurrences(Fields(k, e), c) \in Nat
    BY CellPlaces, FS_CardinalityType
  <2>5. Cardinality(Others(k) \cup PlacesInCell(k, e, c))
          = Cardinality(Others(k)) + Cardinality(PlacesInCell(k, e, c)) - 0
    BY <2>2, <2>3, <2>4, FS_Union, FS_EmptySet
  <2> QED
    BY <2>1, <2>3, <2>4, <2>5 DEF InHeap
<1>2. Others(h) = Others(g)
  BY DEF PlacesInCell
<1> HIDE DEF Others
<1> QED
  BY <1>1, <1>2

(* What counts is what the fields hold, and not the counters.                *)
LEMMA HeapCountSame ==
    ASSUME NEW h, NEW g, \A d \in Cell : Fields(h, d) = Fields(g, d), NEW c
    PROVE  PlacesInHeap(g, c) = PlacesInHeap(h, c) /\ InHeap(g, c) = InHeap(h, c)
<1>1. \A d \in Cell : PlacesInCell(g, d, c) = PlacesInCell(h, d, c)
  BY DEF PlacesInCell
<1>2. \A k : PlacesInHeap(k, c) = UNION {PlacesInCell(k, d, c) : d \in Cell}
  BY DEF PlacesInHeap, PlacesInCell
<1>3. UNION {PlacesInCell(g, d, c) : d \in Cell} = UNION {PlacesInCell(h, d, c) : d \in Cell}
  BY <1>1
<1> QED
  BY <1>2, <1>3 DEF InHeap

(* A field that holds c counts.                                              *)
LEMMA HeapCountSome ==
    ASSUME NEW h \in [Cell -> CellType], NEW d \in Cell, NEW i \in DOMAIN Fields(h, d)
    PROVE  InHeap(h, Fields(h, d)[i]) > 0
<1> DEFINE c == Fields(h, d)[i]
<1>1. <<d, i>> \in PlacesInHeap(h, c)
  BY DEF PlacesInHeap
<1> QED
  BY <1>1, HeapPlaces, FS_EmptySet, FS_CardinalityType DEF InHeap

(***************************************************************************)
(* The memory functions keep the ledger                                    *)
(***************************************************************************)
\* A cell is free exactly if its counter is zero; closures lack no more
\* arguments than their functions take, and an IORef has one field.
CellOK(cell) ==
    /\ cell.rc = 0 <=> cell.kind = "free"
    /\ cell.kind = "free" => cell = FreeCell
    /\ cell.kind = "clo" => cell.name \in DOMAIN Defs /\ Len(cell.args) <= Arity(cell.name)
    /\ cell.kind = "ref" => Len(cell.args) = 1
HeapOK(h) == h \in [Cell -> CellType] /\ \A c \in Cell : CellOK(h[c])

\* n[c] references to c are outside the heap.
Ledger(h, n) ==
    /\ HeapOK(h)
    /\ n \in [Cell -> Int]
    /\ \A c \in Cell : h[c].rc # RcMax => h[c].rc = n[c] + InHeap(h, c)

\* Only counters differ.
SameContents(h, g) == \A c \in Cell : Contents(g[c]) = Contents(h[c])
Live(h, v) == v = Null \/ (v \in Cell /\ h[v].kind # "free")

(* The fields of a record of a cell.                                         *)
LEMMA CellFields ==
    ASSUME NEW h \in [Cell -> CellType], NEW c \in Cell
    PROVE  /\ h[c] \in CellType
           /\ h[c].kind \in Kind /\ h[c].rc \in 0..RcMax /\ h[c].rc \in Int
           /\ h[c].name \in Name /\ h[c].args \in Seq(Value)
<1>1. h[c] \in CellType
  OBVIOUS
<1>2. RcMax \in Int
  BY MemoryAssumption
<1> QED
  BY <1>1, <1>2 DEF CellType

(* What is referred to is not free.                                          *)
LEMMA HeldIsLive ==
    ASSUME NEW h, NEW n, Ledger(h, n), NEW c \in Cell, n[c] >= 0,
           n[c] > 0 \/ InHeap(h, c) > 0
    PROVE  h[c].kind # "free"
<1>1. h \in [Cell -> CellType] /\ CellOK(h[c]) /\ n[c] \in Int
  BY DEF Ledger, HeapOK
<1>2. InHeap(h, c) \in Nat
  BY <1>1, HeapPlaces
<1>3. h[c].rc # 0
  BY <1>1, <1>2, MemoryAssumption DEF Ledger
<1> QED
  BY <1>1, <1>3 DEF CellOK

(* What a heap cell refers to is not free.                                   *)
LEMMA FieldIsLive ==
    ASSUME NEW h, NEW n, Ledger(h, n), \A c \in Cell : n[c] >= 0,
           NEW d \in Cell, NEW i \in DOMAIN Fields(h, d)
    PROVE  Live(h, Fields(h, d)[i])
<1> DEFINE v == Fields(h, d)[i]
<1>1. h \in [Cell -> CellType]
  BY DEF Ledger, HeapOK
<1>2. v \in Value
  <2>1. Fields(h, d) \in Seq(Value)
    BY <1>1, FieldsType
  <2> HIDE DEF v
  <2> QED
    BY <2>1 DEF v
<1>3. InHeap(h, v) > 0
  BY <1>1, HeapCountSome
<1>4. ASSUME v # Null PROVE v \in Cell /\ h[v].kind # "free"
  <2>1. v \in Cell
    BY <1>2, <1>4 DEF Value
  <2> HIDE DEF v
  <2> QED
    BY <1>3, <2>1, HeldIsLive
<1> HIDE DEF v
<1>5. Live(h, v)
  BY <1>4 DEF Live
<1> QED
  BY <1>5 DEF v

(* A counter that rises: it is not zero if it was not, and it is the sum if it *)
(* is not the maximum.                                                        *)
LEMMA RaisedType ==
    ASSUME NEW rc \in 0..RcMax, NEW k \in Nat
    PROVE  /\ Raised(rc, k) \in 0..RcMax
           /\ Raised(rc, 0) = rc
           /\ rc # 0 => Raised(rc, k) # 0
           /\ Raised(rc, k) # RcMax => rc # RcMax /\ Raised(rc, k) = rc + k
<1>1. RcMax \in Nat /\ RcMax > 1
  BY MemoryAssumption
<1> QED
  BY <1>1 DEF Raised

(* idris2_newReference: the counters rise with the references.               *)
LEMMA RaiseLedger ==
    ASSUME NEW h, NEW n, Ledger(h, n),
           NEW f, IsFiniteSet(DOMAIN f), \A x \in DOMAIN f : Live(h, f[x])
    PROVE  LET g == NewReferences(h, f)
           IN  /\ Ledger(g, [c \in Cell |-> n[c] + Occurrences(f, c)])
               /\ SameContents(h, g)
               /\ \A c \in Cell : (\A x \in DOMAIN f : f[x] # c) => g[c] = h[c]
<1> DEFINE g == NewReferences(h, f)
           k == [c \in Cell |-> n[c] + Occurrences(f, c)]
<1>1. h \in [Cell -> CellType] /\ n \in [Cell -> Int] /\ \A c \in Cell : CellOK(h[c])
  BY DEF Ledger, HeapOK
<1>2. RcMax \in Nat /\ RcMax > 1
  BY MemoryAssumption
<1>3. ASSUME NEW c \in Cell
      PROVE  /\ Occurrences(f, c) \in Nat
             /\ Occurrences(f, c) = 0 <=> \A x \in DOMAIN f : f[x] # c
  BY CountType DEF Occurrences, Count
<1>4. ASSUME NEW c \in Cell
      PROVE  /\ g[c] \in CellType
             /\ g[c] = [h[c] EXCEPT !.rc = Raised(@, Occurrences(f, c))]
             /\ g[c].kind = h[c].kind /\ g[c].name = h[c].name /\ g[c].args = h[c].args
             /\ g[c].rc = Raised(h[c].rc, Occurrences(f, c))
             /\ Occurrences(f, c) = 0 => g[c] = h[c]
  <2>1. h[c] \in CellType /\ h[c].rc \in 0..RcMax
    BY <1>1, CellFields
  <2>2. g[c] = [h[c] EXCEPT !.rc = Raised(@, Occurrences(f, c))]
    BY DEF NewReferences
  <2>3. Raised(h[c].rc, Occurrences(f, c)) \in 0..RcMax
    BY <1>3, <2>1, RaisedType
  <2>4. Occurrences(f, c) = 0 => Raised(h[c].rc, Occurrences(f, c)) = h[c].rc
    BY <2>1, RaisedType
  <2> QED
    BY <2>1, <2>2, <2>3, <2>4 DEF CellType
<1>5. g \in [Cell -> CellType]
  BY <1>4 DEF NewReferences
<1>6. SameContents(h, g)
  BY <1>4 DEF SameContents, Contents
<1>7. ASSUME NEW c \in Cell PROVE InHeap(g, c) = InHeap(h, c)
  <2>1. \A d \in Cell : Fields(h, d) = Fields(g, d)
    BY <1>4 DEF Fields
  <2> QED
    BY <2>1, HeapCountSame
<1>8. ASSUME NEW c \in Cell PROVE CellOK(g[c])
  <2>1. CASE Occurrences(f, c) = 0
    BY <1>1, <1>4, <2>1
  <2>2. CASE Occurrences(f, c) # 0
    <3>1. h[c].kind # "free"
      <4>1. PICK x \in DOMAIN f : f[x] = c
        BY <1>3, <2>2
      <4> QED
        BY <4>1, MemoryAssumption DEF Live, Cell, Null
    <3>2. h[c].rc # 0 /\ h[c].rc \in 0..RcMax
      BY <1>1, <3>1, CellFields DEF CellOK
    <3>3. g[c].rc # 0
      <4>1. Occurrences(f, c) \in Nat /\ g[c].rc = Raised(h[c].rc, Occurrences(f, c))
        BY <1>3, <1>4
      <4> QED
        BY <3>2, <4>1, RaisedType
    <3> QED
      BY <1>1, <1>4, <3>1, <3>3 DEF CellOK
  <2> QED
    BY <2>1, <2>2
<1>9. ASSUME NEW c \in Cell, g[c].rc # RcMax PROVE g[c].rc = k[c] + InHeap(g, c)
  <2>1. h[c].rc \in 0..RcMax /\ n[c] \in Int /\ InHeap(h, c) \in Nat
    BY <1>1, CellFields, HeapPlaces
  <2>2. h[c].rc # RcMax /\ g[c].rc = h[c].rc + Occurrences(f, c)
    <3>1. Occurrences(f, c) \in Nat /\ g[c].rc = Raised(h[c].rc, Occurrences(f, c))
      BY <1>3, <1>4
    <3> QED
      BY <1>9, <2>1, <3>1, RaisedType
  <2>3. h[c].rc = n[c] + InHeap(h, c)
    BY <2>2 DEF Ledger
  <2>4. k[c] = n[c] + Occurrences(f, c)
    OBVIOUS
  <2> QED
    BY <1>3, <1>7, <2>1, <2>2, <2>3, <2>4
<1>10. k \in [Cell -> Int]
  BY <1>1, <1>3
<1>11. Ledger(g, k)
  BY <1>5, <1>8, <1>9, <1>10 DEF Ledger, HeapOK
<1> QED
  BY <1>3, <1>4, <1>6, <1>11

(* A step that changes one cell, and the roots in step with it.              *)
LEMMA OneCellLedger ==
    ASSUME NEW h, NEW n, Ledger(h, n), NEW g \in [Cell -> CellType], NEW k \in [Cell -> Int],
           NEW e \in Cell, \A c \in Cell \ {e} : g[c] = h[c], CellOK(g[e]),
           \A c \in Cell \ {e} :
              k[c] + Occurrences(Fields(g, e), c) = n[c] + Occurrences(Fields(h, e), c),
           g[e].rc # RcMax =>
              g[e].rc = k[e] + InHeap(h, e) + Occurrences(Fields(g, e), e)
                             - Occurrences(Fields(h, e), e)
    PROVE  Ledger(g, k)
<1>1. h \in [Cell -> CellType] /\ n \in [Cell -> Int] /\ \A c \in Cell : CellOK(h[c])
  BY DEF Ledger, HeapOK
<1>2. ASSUME NEW c \in Cell
      PROVE  /\ InHeap(g, c) + Occurrences(Fields(h, e), c)
                  = InHeap(h, c) + Occurrences(Fields(g, e), c)
             /\ InHeap(g, c) \in Nat /\ InHeap(h, c) \in Nat
             /\ Occurrences(Fields(h, e), c) \in Nat /\ Occurrences(Fields(g, e), c) \in Nat
  <2>1. \A d \in Cell \ {e} : Fields(h, d) = Fields(g, d)
    BY DEF Fields
  <2>2. Fields(h, e) \in Seq(Value) /\ Fields(g, e) \in Seq(Value)
    BY <1>1, FieldsType
  <2>3. /\ InHeap(g, c) \in Nat /\ InHeap(h, c) \in Nat
        /\ Occurrences(Fields(h, e), c) \in Nat /\ Occurrences(Fields(g, e), c) \in Nat
    BY <1>1, <2>2, HeapPlaces, OccurrencesType
  <2>4. InHeap(g, c) + Occurrences(Fields(h, e), c)
             = InHeap(h, c) + Occurrences(Fields(g, e), c)
    BY <1>1, <2>1, HeapCountOne
  <2> QED
    BY <2>3, <2>4
<1>3. ASSUME NEW c \in Cell, g[c].rc # RcMax PROVE g[c].rc = k[c] + InHeap(g, c)
  <2>1. k[c] \in Int /\ n[c] \in Int
    BY <1>1
  <2>2. CASE c = e
    <3>1. g[e].rc = k[e] + InHeap(h, e) + Occurrences(Fields(g, e), e)
                             - Occurrences(Fields(h, e), e)
      BY <1>3, <2>2
    <3> QED
      BY <1>2, <2>1, <2>2, <3>1
  <2>3. CASE c # e
    <3>1. g[c].rc = n[c] + InHeap(h, c)
      BY <1>3, <2>3 DEF Ledger
    <3>2. k[c] + Occurrences(Fields(g, e), c) = n[c] + Occurrences(Fields(h, e), c)
      BY <2>3
    <3>3. g[c].rc = k[c] + InHeap(g, c)
      <4> DEFINE a == InHeap(g, c)
                 b == InHeap(h, c)
                 x == Occurrences(Fields(h, e), c)
                 y == Occurrences(Fields(g, e), c)
      <4>1. a + x = b + y /\ a \in Nat /\ b \in Nat /\ x \in Nat /\ y \in Nat
        BY <1>2
      <4>2. g[c].rc = n[c] + b /\ k[c] + y = n[c] + x
        BY <3>1, <3>2
      <4> HIDE DEF a, b, x, y
      <4>3. g[c].rc = k[c] + a
        BY <2>1, <4>1, <4>2
      <4> QED
        BY <4>3 DEF a
    <3> QED
      BY <3>3
  <2> QED
    BY <2>2, <2>3
<1>4. \A c \in Cell : CellOK(g[c])
  BY <1>1
<1> QED
  BY <1>3, <1>4 DEF Ledger, HeapOK

(* The free cell that an allocation takes.                                   *)
LEMMA FreshCell ==
    ASSUME NEW h, Room(h)
    PROVE  Fresh(h) \in Cell /\ h[Fresh(h)].kind = "free"
BY DEF Room, Fresh, FreeCells

(* A change of counters leaves free what was free: newReference before malloc *)
(* has no say in the cell that is taken.                                     *)
LEMMA SameFresh ==
    ASSUME NEW h, NEW g, SameContents(h, g)
    PROVE  Fresh(g) = Fresh(h) /\ (Room(g) <=> Room(h))
<1>1. \A c \in Cell : g[c].kind = h[c].kind
  BY DEF SameContents, Contents
<1>2. FreeCells(g) = FreeCells(h)
  BY <1>1 DEF FreeCells
<1> QED
  BY <1>2 DEF Fresh, Room

(* malloc: what the new cell is given leaves the hands of the program, which *)
(* gets the cell.                                                            *)
LEMMA NewLedger ==
    ASSUME NEW h, NEW n, Ledger(h, n), Room(h),
           NEW kind \in {"con", "clo", "ref", "array"}, NEW name \in Name, NEW args \in Seq(Value),
           kind = "clo" => name \in DOMAIN Defs /\ Len(args) <= Arity(name),
           kind = "ref" => Len(args) = 1
    PROVE  LET g == NewValue(h, kind, name, args)
           IN  /\ Ledger(g, [c \in Cell |-> n[c] + One(Fresh(h), c) - Occurrences(args, c)])
               /\ \A c \in Cell \ {Fresh(h)} : g[c] = h[c]
               /\ g[Fresh(h)] = [kind |-> kind, rc |-> 1, name |-> name, args |-> args]
<1> DEFINE e == Fresh(h)
           g == NewValue(h, kind, name, args)
           k == [c \in Cell |-> n[c] + One(e, c) - Occurrences(args, c)]
<1>1. h \in [Cell -> CellType] /\ n \in [Cell -> Int] /\ \A c \in Cell : CellOK(h[c])
  BY DEF Ledger, HeapOK
<1>2. e \in Cell /\ h[e].kind = "free"
  BY FreshCell
<1>3. RcMax \in Nat /\ RcMax > 1
  BY MemoryAssumption
<1>4. g[e] = [kind |-> kind, rc |-> 1, name |-> name, args |-> args]
      /\ \A c \in Cell \ {e} : g[c] = h[c]
  BY <1>1, <1>2 DEF NewValue
<1>5. g[e] \in CellType /\ CellOK(g[e])
  BY <1>3, <1>4 DEF CellType, Kind, CellOK
<1>6. g \in [Cell -> CellType]
  BY <1>1, <1>2, <1>4, <1>5 DEF NewValue
<1>7. h[e] = FreeCell /\ h[e].rc = 0
  BY <1>1, <1>2 DEF CellOK, FreeCell
<1>8. Fields(h, e) = <<>> /\ Fields(g, e) = args
  <2>1. h[e].kind = "free" /\ h[e].args = <<>> /\ g[e].kind = kind /\ g[e].args = args
    <3>1. FreeCell.args = <<>> /\ FreeCell.kind = "free"
      BY DEF FreeCell
    <3>2. g[e].kind = kind /\ g[e].args = args
      BY <1>4
    <3> HIDE DEF g, e
    <3> QED
      BY <1>2, <1>7, <3>1, <3>2
  <2> HIDE DEF g, e
  <2> QED
    BY <2>1 DEF Fields
<1>9. \A c \in Cell : Occurrences(args, c) \in Nat /\ Occurrences(<<>>, c) = 0
  BY OccurrencesType, OccurrencesSmall
<1>10. k \in [Cell -> Int]
  BY <1>1, <1>9 DEF One
<1>11. \A c \in Cell \ {e} :
          k[c] + Occurrences(Fields(g, e), c) = n[c] + Occurrences(Fields(h, e), c)
  BY <1>1, <1>8, <1>9 DEF One
<1>12. g[e].rc = k[e] + InHeap(h, e) + Occurrences(Fields(g, e), e) - Occurrences(Fields(h, e), e)
  <2>1. 0 = n[e] + InHeap(h, e)
    BY <1>2, <1>3, <1>7 DEF Ledger
  <2>2. InHeap(h, e) \in Nat /\ n[e] \in Int
    BY <1>1, <1>2, HeapPlaces
  <2>3. k[e] = n[e] + 1 - Occurrences(args, e)
    BY <1>2 DEF One
  <2> QED
    BY <1>2, <1>4, <1>8, <1>9, <2>1, <2>2, <2>3
<1>13. Ledger(g, k)
  <2> HIDE DEF g, k, e
  <2> QED
    BY <1>2, <1>4, <1>5, <1>6, <1>10, <1>11, <1>12, OneCellLedger
<1> QED
  BY <1>4, <1>13

(* idris2_removeReference: the reference that is given up pays for what the  *)
(* cell, if it is freed, refers to.                                          *)
LEMMA RemoveLedger ==
    ASSUME NEW h, NEW n, Ledger(h, n), NEW v, Live(h, v)
    PROVE  LET g == RemoveReference(h, v)
           IN  /\ Ledger(g, [c \in Cell |-> n[c] - One(v, c) + Occurrences(AlsoRemoved(h, v), c)])
               /\ \A c \in Cell \ {v} : g[c] = h[c]
               /\ v # Null => \/ g[v] = FreeCell /\ h[v].rc = 1
                              \/ Contents(g[v]) = Contents(h[v]) /\ h[v].rc # 1
               /\ AlsoRemoved(h, v) \in Seq(Value)
<1> DEFINE g == RemoveReference(h, v)
           more == AlsoRemoved(h, v)
           k == [c \in Cell |-> n[c] - One(v, c) + Occurrences(more, c)]
<1>1. h \in [Cell -> CellType] /\ n \in [Cell -> Int] /\ \A c \in Cell : CellOK(h[c])
  BY DEF Ledger, HeapOK
<1>2. RcMax \in Nat /\ RcMax > 1
  BY MemoryAssumption
<1>3. FreeCell \in CellType /\ CellOK(FreeCell) /\ FreeCell.rc = 0 /\ FreeCell.kind = "free"
      /\ FreeCell.args = <<>>
  <2>1. FreeCell.rc = 0 /\ FreeCell.kind = "free" /\ FreeCell.args = <<>>
    BY DEF FreeCell
  <2>2. CellOK(FreeCell)
    BY <2>1 DEF CellOK
  <2>3. FreeCell \in CellType
    <3>1. <<>> \in Seq(Value) /\ NoName \in Name /\ 0 \in 0..RcMax /\ "free" \in Kind
      <4>1. <<>> \in Seq(Value)
        OBVIOUS
      <4>2. NoName \in Name
        BY MemoryAssumption
      <4>3. "free" \in Kind
        BY DEF Kind
      <4>4. 0 \in 0..RcMax
        BY <1>2
      <4> QED
        BY <4>1, <4>2, <4>3, <4>4
    <3> QED
      BY <3>1, Zenon DEF FreeCell, CellType
  <2> QED
    BY <2>1, <2>2, <2>3
<1>4. \A c \in Cell : Occurrences(<<>>, c) = 0 /\ n[c] \in Int /\ One(v, c) \in Int
  BY <1>1, OccurrencesSmall DEF One
<1>5. CASE ~Mortal(h, v)
  <2>1. g = h /\ more = <<>>
    BY <1>5 DEF RemoveReference, AlsoRemoved, IsLast
  <2>2. ASSUME NEW c \in Cell, h[c].rc # RcMax PROVE k[c] = n[c]
    <3>1. v # c
      BY <1>5, <2>2, MemoryAssumption DEF Mortal, Cell, Null
    <3> QED
      BY <1>4, <2>1, <3>1 DEF One
  <2>3. k \in [Cell -> Int]
    BY <1>4, <2>1
  <2>4. Ledger(g, k)
    <3> HIDE DEF k, g, more
    <3> QED
      BY <2>1, <2>2, <2>3 DEF Ledger
  <2>5. v # Null => Contents(g[v]) = Contents(h[v]) /\ h[v].rc # 1
    BY <1>2, <1>5, <2>1 DEF Mortal
  <2> QED
    BY <2>1, <2>4, <2>5
<1>6. CASE Mortal(h, v)
  <2>1. v \in Cell /\ h[v].rc # RcMax /\ h[v].rc # 0 /\ h[v].kind # "free" /\ v # Null
    BY <1>1, <1>6 DEF Mortal, Live, CellOK
  <2>2. h[v] \in CellType /\ h[v].rc \in 0..RcMax /\ h[v].args \in Seq(Value)
    BY <1>1, <2>1, CellFields
  <2>3. InHeap(h, v) \in Nat /\ h[v].rc = n[v] + InHeap(h, v) /\ n[v] \in Int
    BY <1>1, <2>1, HeapPlaces DEF Ledger
  <2>4. CASE h[v].rc # 1
    <3>1. g = [h EXCEPT ![v].rc = @ - 1] /\ more = <<>>
      BY <1>6, <2>4 DEF RemoveReference, AlsoRemoved, IsLast
    <3>2. h[v].rc - 1 \in 0..RcMax /\ h[v].rc - 1 # 0
      BY <1>2, <2>1, <2>2, <2>4
    <3>3. /\ g[v] = [h[v] EXCEPT !.rc = @ - 1] /\ \A c \in Cell \ {v} : g[c] = h[c]
          /\ g[v].rc = h[v].rc - 1
          /\ g[v].kind = h[v].kind /\ g[v].name = h[v].name /\ g[v].args = h[v].args
      BY <1>1, <2>1, <2>2, <3>1 DEF CellType
    <3>4. g[v] \in CellType /\ CellOK(g[v])
      BY <1>1, <2>1, <2>2, <3>2, <3>3 DEF CellType, CellOK
    <3>5. g \in [Cell -> CellType]
      BY <1>1, <2>1, <3>1, <3>3, <3>4
    <3>6. Fields(g, v) = Fields(h, v)
      BY <3>3 DEF Fields
    <3>7. k \in [Cell -> Int] /\ \A c \in Cell : k[c] = n[c] - One(v, c)
      BY <1>4, <3>1
    <3>8. \A c \in Cell \ {v} :
             k[c] + Occurrences(Fields(g, v), c) = n[c] + Occurrences(Fields(h, v), c)
      BY <1>4, <3>6, <3>7 DEF One
    <3>9. \A c : Occurrences(Fields(h, v), c) \in Nat
      BY <1>1, <2>1, FieldsType, OccurrencesType
    <3>10. g[v].rc = k[v] + InHeap(h, v) + Occurrences(Fields(g, v), v)
                       - Occurrences(Fields(h, v), v)
      BY <2>1, <2>3, <3>3, <3>6, <3>7, <3>9 DEF One
    <3>11. Ledger(g, k)
      <4>1. \A c \in Cell \ {v} : g[c] = h[c]
        BY <3>3
      <4>2. k \in [Cell -> Int]
        BY <3>7
      <4> HIDE DEF g, k, more
      <4> QED
        BY <2>1, <3>4, <3>5, <3>8, <3>10, <4>1, <4>2, OneCellLedger
    <3>12. Contents(g[v]) = Contents(h[v])
      BY <3>3 DEF Contents
    <3> QED
      BY <2>4, <3>1, <3>3, <3>11, <3>12
  <2>5. CASE h[v].rc = 1
    <3>1. g = [h EXCEPT ![v] = FreeCell] /\ more = Fields(h, v)
      BY <1>6, <2>5 DEF RemoveReference, AlsoRemoved, IsLast
    <3>2. g[v] = FreeCell /\ \A c \in Cell \ {v} : g[c] = h[c]
      BY <1>1, <2>1, <3>1
    <3>3. g \in [Cell -> CellType]
      BY <1>1, <1>3, <3>1
    <3>4. Fields(g, v) = <<>>
      BY <1>3, <3>2 DEF Fields
    <3>5. more \in Seq(Value) /\ \A c : Occurrences(Fields(h, v), c) \in Nat
      BY <1>1, <2>1, <3>1, FieldsType, OccurrencesType
    <3>6. /\ k \in [Cell -> Int]
          /\ \A c \in Cell : k[c] = n[c] - One(v, c) + Occurrences(Fields(h, v), c)
      BY <1>4, <3>1, <3>5
    <3>7. \A c \in Cell \ {v} :
             k[c] + Occurrences(Fields(g, v), c) = n[c] + Occurrences(Fields(h, v), c)
      BY <1>4, <3>4, <3>5, <3>6 DEF One
    <3>8. g[v].rc = k[v] + InHeap(h, v) + Occurrences(Fields(g, v), v)
                       - Occurrences(Fields(h, v), v)
      <4>1. k[v] = n[v] - 1 + Occurrences(Fields(h, v), v)
        BY <2>1, <3>6 DEF One
      <4>2. g[v].rc = 0 /\ Occurrences(Fields(g, v), v) = 0
        BY <1>3, <1>4, <2>1, <3>2, <3>4
      <4>3. Occurrences(Fields(h, v), v) \in Nat
        BY <3>5
      <4> HIDE DEF g, k, more
      <4> QED
        BY <2>3, <2>5, <4>1, <4>2, <4>3
    <3>9. Ledger(g, k)
      <4>1. CellOK(g[v])
        BY <1>3, <3>2
      <4> HIDE DEF g, k, more
      <4> QED
        BY <2>1, <3>2, <3>3, <3>6, <3>7, <3>8, <4>1, OneCellLedger
    <3> QED
      BY <2>5, <3>2, <3>5, <3>9
  <2> QED
    BY <2>4, <2>5
<1> QED
  BY <1>5, <1>6

\* g is h without the contents of e, and k what becomes of the ledger n then.
Hollows(h, n, e, kind, g, k) ==
    /\ Ledger(g, k)
    /\ \A c \in Cell : k[c] = n[c] + Occurrences(h[e].args, c)
    /\ \A c \in Cell \ {e} : g[c] = h[c]
    /\ g[e].kind = kind /\ g[e].rc = h[e].rc

(* A constructor that becomes a token, or a closure that is run: what it      *)
(* refers to passes into the hands of the program.                            *)
LEMMA HollowLedger ==
    ASSUME NEW h, NEW n, Ledger(h, n), NEW e \in Cell, h[e].kind \in {"con", "clo"},
           NEW kind \in {"token", "running"}, NEW g, g = [h EXCEPT ![e].kind = kind]
    PROVE  \E k : Hollows(h, n, e, kind, g, k)
<1> DEFINE k == [c \in Cell |-> n[c] + Occurrences(h[e].args, c)]
<1>1. h \in [Cell -> CellType] /\ n \in [Cell -> Int] /\ \A c \in Cell : CellOK(h[c])
  BY DEF Ledger, HeapOK
<1>2. h[e] \in CellType /\ h[e].rc \in 0..RcMax /\ h[e].rc # 0 /\ h[e].args \in Seq(Value)
  BY <1>1, CellFields DEF CellOK
<1>3. /\ \A c \in Cell \ {e} : g[c] = h[c]
      /\ g[e] = [h[e] EXCEPT !.kind = kind]
      /\ g[e].kind = kind /\ g[e].rc = h[e].rc
  BY <1>1, <1>2 DEF CellType
<1>4. g[e] \in CellType /\ CellOK(g[e])
  BY <1>2, <1>3 DEF CellType, Kind, CellOK
<1>5. g \in [Cell -> CellType]
  BY <1>1, <1>3, <1>4
<1>6. Fields(g, e) = <<>> /\ Fields(h, e) = h[e].args
  BY <1>3 DEF Fields
<1>7. \A c : Occurrences(h[e].args, c) \in Nat /\ Occurrences(<<>>, c) = 0
  BY <1>2, OccurrencesType, OccurrencesSmall
<1>8. k \in [Cell -> Int] /\ \A c \in Cell : k[c] = n[c] + Occurrences(h[e].args, c)
  BY <1>1, <1>7
<1>9. \A c \in Cell \ {e} :
         k[c] + Occurrences(Fields(g, e), c) = n[c] + Occurrences(Fields(h, e), c)
  BY <1>1, <1>6, <1>7, <1>8
<1>10. g[e].rc # RcMax =>
         g[e].rc = k[e] + InHeap(h, e) + Occurrences(Fields(g, e), e) - Occurrences(Fields(h, e), e)
  <2> SUFFICES ASSUME h[e].rc # RcMax
               PROVE  h[e].rc = k[e] + InHeap(h, e) + 0 - Occurrences(h[e].args, e)
    BY <1>3, <1>6, <1>7
  <2>1. h[e].rc = n[e] + InHeap(h, e) /\ InHeap(h, e) \in Nat /\ n[e] \in Int
    BY <1>1, HeapPlaces DEF Ledger
  <2> HIDE DEF k
  <2> QED
    BY <1>7, <1>8, <2>1
<1>11. Ledger(g, k)
  <2>1. (\A c \in Cell \ {e} : g[c] = h[c]) /\ CellOK(g[e]) /\ k \in [Cell -> Int]
    BY <1>3, <1>4, <1>8
  <2> DEFINE p == g
  <2>2. /\ p \in [Cell -> CellType] /\ CellOK(p[e]) /\ \A c \in Cell \ {e} : p[c] = h[c]
        /\ \A c \in Cell \ {e} :
              k[c] + Occurrences(Fields(p, e), c) = n[c] + Occurrences(Fields(h, e), c)
        /\ p[e].rc # RcMax =>
              p[e].rc = k[e] + InHeap(h, e) + Occurrences(Fields(p, e), e)
                             - Occurrences(Fields(h, e), e)
    BY <1>5, <1>9, <1>10, <2>1
  <2> HIDE DEF k, p
  <2>3. Ledger(p, k)
    BY <2>1, <2>2, OneCellLedger
  <2> QED
    BY <2>3 DEF p
<1> HIDE DEF k
<1>12. Hollows(h, n, e, kind, g, k)
  BY <1>3, <1>8, <1>11 DEF Hollows
<1> QED
  BY <1>12

\* g is h with new contents in the cell e.
Filled(h, e, kind, args, g) ==
    /\ kind \in {"con", "ref", "array"} /\ h[e].kind \in {"token", kind}
    /\ kind = "ref" => Len(args) = 1
    /\ \/ g = [h EXCEPT ![e].kind = kind, ![e].args = args]
       \/ h[e].kind = kind /\ g = [h EXCEPT ![e].args = args]
\* What becomes of the ledger n then: k.
Fills(h, n, e, kind, args, g, k) ==
    /\ Ledger(g, k)
    /\ \A c \in Cell \ {e} : g[c] = h[c]
    /\ g[e].kind = kind /\ g[e].rc = h[e].rc /\ g[e].args = args /\ g[e].name = h[e].name
    /\ \A c \in Cell :
         /\ k[c] = n[c] + Occurrences(Fields(h, e), c) - Occurrences(args, c)
         /\ Occurrences(Fields(h, e), c) \in Nat /\ Occurrences(args, c) \in Nat

(* New contents for a cell: a constructor built in a token, a field of an     *)
(* IORef or of an array.                                                      *)
LEMMA FillLedger ==
    ASSUME NEW h, NEW n, Ledger(h, n), NEW e \in Cell, NEW args \in Seq(Value),
           NEW kind, NEW g, Filled(h, e, kind, args, g)
    PROVE  \E k : Fills(h, n, e, kind, args, g, k)
<1> DEFINE k == [c \in Cell |-> n[c] + Occurrences(Fields(h, e), c) - Occurrences(args, c)]
<1>1. h \in [Cell -> CellType] /\ n \in [Cell -> Int] /\ \A c \in Cell : CellOK(h[c])
  BY DEF Ledger, HeapOK
<1>2. /\ h[e] \in CellType /\ h[e].rc \in 0..RcMax /\ h[e].rc # 0 /\ h[e].name \in Name
      /\ Fields(h, e) \in Seq(Value)
  BY <1>1, CellFields, FieldsType DEF CellOK, Filled
<1>3. /\ \A c \in Cell \ {e} : g[c] = h[c]
      /\ g[e] = [kind |-> kind, rc |-> h[e].rc, name |-> h[e].name, args |-> args]
  BY <1>1, <1>2 DEF CellType, Filled
<1>4. g[e] \in CellType /\ CellOK(g[e])
  BY <1>2, <1>3 DEF CellType, Kind, CellOK, Filled
<1>5. g \in [Cell -> CellType]
  BY <1>1, <1>3, <1>4 DEF Filled
<1>6. Fields(g, e) = args
  BY <1>3 DEF Fields, Filled
<1>7. \A c : Occurrences(args, c) \in Nat /\ Occurrences(Fields(h, e), c) \in Nat
  BY <1>2, OccurrencesType
<1>8. k \in [Cell -> Int]
      /\ \A c \in Cell : k[c] = n[c] + Occurrences(Fields(h, e), c) - Occurrences(args, c)
  BY <1>1, <1>7
<1>9. \A c \in Cell \ {e} :
         k[c] + Occurrences(Fields(g, e), c) = n[c] + Occurrences(Fields(h, e), c)
  BY <1>1, <1>6, <1>7, <1>8
<1>10. g[e].rc # RcMax =>
         g[e].rc = k[e] + InHeap(h, e) + Occurrences(Fields(g, e), e) - Occurrences(Fields(h, e), e)
  <2> SUFFICES ASSUME h[e].rc # RcMax
               PROVE  h[e].rc = k[e] + InHeap(h, e) + Occurrences(args, e)
                                  - Occurrences(Fields(h, e), e)
    BY <1>3, <1>6
  <2>1. h[e].rc = n[e] + InHeap(h, e) /\ InHeap(h, e) \in Nat /\ n[e] \in Int
    BY <1>1, HeapPlaces DEF Ledger
  <2> HIDE DEF k
  <2> QED
    BY <1>7, <1>8, <2>1
<1>11. Ledger(g, k)
  <2>1. (\A c \in Cell \ {e} : g[c] = h[c]) /\ CellOK(g[e]) /\ k \in [Cell -> Int]
    BY <1>3, <1>4, <1>8
  <2> HIDE DEF k
  <2> QED
    BY <1>5, <1>9, <1>10, <2>1, OneCellLedger, SMTT(40)
<1> HIDE DEF k
<1> QED
  BY <1>3, <1>7, <1>8, <1>11 DEF Fills

(* free(clos) or --clos->header.refCounter: a reference to the closure goes,  *)
(* and what the freed closure referred to is in the hands of the program.     *)
LEMMA ReleaseLedger ==
    ASSUME NEW h, NEW n, Ledger(h, n), NEW e \in Cell, h[e].kind # "free", h[e].rc # RcMax
    PROVE  LET g == ReleaseShell(h, e)
               left == IF h[e].rc = 1 THEN Fields(h, e) ELSE <<>>
           IN  /\ Ledger(g, [c \in Cell |-> n[c] - One(e, c) + Occurrences(left, c)])
               /\ \A c \in Cell \ {e} : g[c] = h[c]
               /\ \/ g[e] = FreeCell /\ h[e].rc = 1
                  \/ Contents(g[e]) = Contents(h[e]) /\ h[e].rc # 1
<1>1. h \in [Cell -> CellType] /\ CellOK(h[e])
  BY DEF Ledger, HeapOK
<1>2. e # Null /\ Mortal(h, e) /\ h[e].rc # 0
  BY <1>1, MemoryAssumption DEF Cell, Null, Mortal, CellOK
<1>3. ReleaseShell(h, e) = RemoveReference(h, e)
  BY <1>2 DEF ReleaseShell, RemoveReference, IsUnique
<1>4. AlsoRemoved(h, e) = IF h[e].rc = 1 THEN Fields(h, e) ELSE <<>>
  BY <1>2 DEF AlsoRemoved, IsLast
<1>5. Live(h, e)
  BY DEF Live
<1> QED
  BY <1>2, <1>3, <1>4, <1>5, RemoveLedger

(* One element of an array is another.                                       *)
LEMMA OccurrencesExcept ==
    ASSUME NEW V, NEW s \in Seq(V), NEW i \in DOMAIN s, NEW v \in V, NEW c
    PROVE  LET t == [s EXCEPT ![i] = v]
           IN  /\ t \in Seq(V) /\ Len(t) = Len(s)
               /\ Occurrences(t, c) + One(s[i], c) = Occurrences(s, c) + One(v, c)
<1> DEFINE t == [s EXCEPT ![i] = v]
           D == DOMAIN s \ {i}
<1>1. /\ t \in Seq(V) /\ Len(t) = Len(s) /\ DOMAIN t = DOMAIN s
      /\ t[i] = v /\ \A j \in D : t[j] = s[j]
  OBVIOUS
<1>2. D \cup {i} = DOMAIN s /\ i \notin D /\ IsFiniteSet(D)
  <2>1. IsFiniteSet(DOMAIN s)
    BY OccurrencesType
  <2> QED
    BY <2>1, FS_Subset
<1>3. /\ Occurrences(s, c) = Count(s, D \cup {i}, c) /\ Occurrences(t, c) = Count(t, D \cup {i}, c)
  BY <1>1, <1>2, OccurrencesType
<1>4. Count(t, D, c) = Count(s, D, c) /\ Count(s, D, c) \in Nat
  <2>1. (\A j \in D : t[j] = s[j]) /\ IsFiniteSet(D)
    BY <1>1, <1>2
  <2> HIDE DEF t, D
  <2>2. Count(t, D, c) = Count(s, D, c)
    BY <2>1, CountSame
  <2> QED
    BY <2>1, <2>2, CountType
<1>5. Count(s, D \cup {i}, c) = Count(s, D, c) + One(s[i], c)
  <2> HIDE DEF D
  <2> QED
    BY <1>2, CountMore
<1>6. Count(t, D \cup {i}, c) = Count(t, D, c) + One(v, c)
  <2> HIDE DEF D, t
  <2> QED
    BY <1>1, <1>2, CountMore
<1>7. One(s[i], c) \in Nat /\ One(v, c) \in Nat
  BY DEF One
<1> HIDE DEF D, t
<1>8. Occurrences(t, c) + One(s[i], c) = Occurrences(s, c) + One(v, c)
  BY <1>3, <1>4, <1>5, <1>6, <1>7
<1> QED
  BY <1>1, <1>8 DEF t

\* What applying a closure does to the heap and to the ledger n: g and k.
Applies(h, n, clo, arg, g, k) ==
    LET new == Fresh(h)
        args == h[clo].args
    IN  /\ Ledger(g, k)
        /\ \A c \in Cell : k[c] = n[c] + One(new, c) - One(arg, c) - One(clo, c)
        /\ Fresh(ArgumentsShared(h, clo)) = new /\ new \in Cell /\ h[new].kind = "free"
        /\ g[new] = [kind |-> "clo", rc |-> 1, name |-> h[clo].name, args |-> Append(args, arg)]
        /\ \A c \in Cell \ {new, clo} :
              /\ Contents(g[c]) = Contents(h[c])
              /\ (\A i \in DOMAIN args : args[i] # c) => g[c] = h[c]
        /\ \/ g[clo] = FreeCell /\ h[clo].rc = 1
           \/ Contents(g[clo]) = Contents(h[clo]) /\ h[clo].rc # 1

(* idris2_tailcall_apply_closure: the program gives its references to the     *)
(* closure and to the argument for one to the new closure.                    *)
LEMMA ApplyLedger ==
    ASSUME NEW h, NEW n, Ledger(h, n), \A c \in Cell : n[c] >= 0, Room(h),
           NEW clo \in Cell, h[clo].kind = "clo", Len(h[clo].args) < Arity(h[clo].name),
           NEW arg, Live(h, arg), ArgumentsShared(h, clo)[clo].rc # RcMax
    PROVE  \E k : Applies(h, n, clo, arg, TailcallApply(h, clo, arg), k)
<1> DEFINE s == ArgumentsShared(h, clo)
           new == Fresh(s)
           args == h[clo].args
           more == Append(args, arg)
           m == NewValue(s, "clo", h[clo].name, more)
           g == TailcallApply(h, clo, arg)
<1>1. h \in [Cell -> CellType] /\ n \in [Cell -> Int] /\ CellOK(h[clo])
  BY DEF Ledger, HeapOK
<1>2. /\ h[clo] \in CellType /\ args \in Seq(Value) /\ h[clo].name \in Name /\ h[clo].rc \in Nat
      /\ h[clo].name \in DOMAIN Defs /\ Fields(h, clo) = args /\ h[clo].rc # 0
  <2>1. h[clo].rc \in 0..RcMax /\ h[clo].name \in Name /\ args \in Seq(Value) /\ h[clo] \in CellType
    BY <1>1, CellFields
  <2>2. Fields(h, clo) = args
    BY DEF Fields
  <2>3. h[clo].name \in DOMAIN Defs /\ h[clo].rc # 0
    BY <1>1 DEF CellOK
  <2> QED
    BY <2>1, <2>2, <2>3
<1>3. arg \in Value /\ more \in Seq(Value) /\ Len(more) <= Arity(h[clo].name)
  <2>1. arg \in Value
    BY DEF Live, Value
  <2>2. more \in Seq(Value) /\ Len(more) = Len(args) + 1 /\ Len(args) \in Nat
    BY <1>2, <2>1
  <2>3. Arity(h[clo].name) \in Nat
    BY <1>2, ProgramAssumption DEF Arity
  <2> HIDE DEF more, args
  <2> QED
    BY <2>1, <2>2, <2>3 DEF args
<1>4. \A c : /\ Occurrences(args, c) \in Nat
             /\ Occurrences(more, c) = Occurrences(args, c) + One(arg, c)
  BY <1>2, <1>3, OccurrencesType, OccurrencesAppend
<1>5. PICK ns : /\ Ledger(s, ns)
                /\ \A c \in Cell : ns[c] = n[c] + IF h[clo].rc = 1 THEN 0 ELSE Occurrences(args, c)
  <2>1. CASE h[clo].rc = 1
    <3>1. s = h
      BY <2>1 DEF ArgumentsShared
    <3> QED
      BY <2>1, <3>1, <1>1
  <2>2. CASE h[clo].rc # 1
    <3>1. s = NewReferences(h, args)
      BY <1>2, <2>2 DEF ArgumentsShared
    <3>2. IsFiniteSet(DOMAIN args)
      BY <1>2, OccurrencesType
    <3>3. \A i \in DOMAIN args : Live(h, args[i])
      BY <1>2, FieldIsLive
    <3> DEFINE k == [c \in Cell |-> n[c] + Occurrences(args, c)]
    <3>4. Ledger(s, k)
      <4> HIDE DEF args, s
      <4> QED
        BY <3>1, <3>2, <3>3, RaiseLedger
    <3> QED
      BY <2>2, <3>4
  <2> QED
    BY <2>1, <2>2
<1>6. /\ SameContents(h, s)
      /\ \A c \in Cell : (\A i \in DOMAIN args : args[i] # c) => s[c] = h[c]
      /\ (h[clo].rc = 1 <=> s[clo].rc = 1)
  <2>1. CASE h[clo].rc = 1
    <3>1. s = h
      BY <2>1 DEF ArgumentsShared
    <3> QED
      BY <2>1, <3>1 DEF SameContents
  <2>2. CASE h[clo].rc # 1
    <3>1. s = NewReferences(h, args)
      BY <1>2, <2>2 DEF ArgumentsShared
    <3>2. IsFiniteSet(DOMAIN args) /\ Occurrences(args, clo) \in Nat
      BY <1>2, OccurrencesType
    <3>3. \A i \in DOMAIN args : Live(h, args[i])
      BY <1>2, FieldIsLive
    <3>4. /\ SameContents(h, s)
          /\ \A c \in Cell : (\A i \in DOMAIN args : args[i] # c) => s[c] = h[c]
      <4> HIDE DEF args, s
      <4> QED
        BY <3>1, <3>2, <3>3, RaiseLedger
    <3>5. s[clo].rc = Raised(h[clo].rc, Occurrences(args, clo))
      BY <1>2, <3>1 DEF NewReferences, CellType
    <3>6. s[clo].rc # 1
      BY <1>2, <2>2, <3>2, <3>5, MemoryAssumption DEF Raised
    <3> QED
      BY <2>2, <3>4, <3>6
  <2> QED
    BY <2>1, <2>2
<1>7. /\ new = Fresh(h) /\ Room(s) /\ new \in Cell /\ new # clo
      /\ s[clo].kind = "clo" /\ s[clo].args = args
  <2>1. new = Fresh(h) /\ Room(s)
    BY <1>6, SameFresh
  <2>2. new \in Cell /\ h[new].kind = "free"
    BY <2>1, FreshCell
  <2>3. s[clo].kind = "clo" /\ s[clo].args = args
    BY <1>6 DEF SameContents, Contents
  <2> QED
    BY <2>1, <2>2, <2>3
<1> DEFINE km == [c \in Cell |-> ns[c] + One(new, c) - Occurrences(more, c)]
<1>8. /\ Ledger(m, km)
      /\ \A c \in Cell \ {new} : m[c] = s[c]
      /\ m[new] = [kind |-> "clo", rc |-> 1, name |-> h[clo].name, args |-> more]
  <2> HIDE DEF s, more
  <2> QED
    BY <1>2, <1>3, <1>5, <1>7, NewLedger, SMTT(40)
<1>9. /\ m[clo] = s[clo] /\ m[clo].rc # RcMax /\ m[clo].kind # "free" /\ Fields(m, clo) = args
      /\ g = ReleaseShell(m, clo)
  <2>1. m[clo] = s[clo] /\ g = ReleaseShell(m, clo)
    BY <1>7, <1>8 DEF TailcallApply
  <2> QED
    BY <1>7, <2>1 DEF Fields
<1> DEFINE left == IF m[clo].rc = 1 THEN Fields(m, clo) ELSE <<>>
           kg == [c \in Cell |-> km[c] - One(clo, c) + Occurrences(left, c)]
<1>10. /\ Ledger(g, kg)
       /\ \A c \in Cell \ {clo} : g[c] = m[c]
       /\ \/ g[clo] = FreeCell /\ m[clo].rc = 1
          \/ Contents(g[clo]) = Contents(m[clo]) /\ m[clo].rc # 1
  <2> HIDE DEF g, m, km
  <2> QED
    BY <1>8, <1>9, ReleaseLedger
<1>11. kg = [c \in Cell |-> n[c] + One(new, c) - One(arg, c) - One(clo, c)]
  <2> SUFFICES ASSUME NEW c \in Cell
               PROVE  kg[c] = n[c] + One(new, c) - One(arg, c) - One(clo, c)
    OBVIOUS
  <2>1. kg[c] = ns[c] + One(new, c) - Occurrences(more, c) - One(clo, c) + Occurrences(left, c)
    <3> HIDE DEF left, new, more
    <3>1. km[c] = ns[c] + One(new, c) - Occurrences(more, c)
      OBVIOUS
    <3> HIDE DEF km
    <3>2. kg[c] = km[c] - One(clo, c) + Occurrences(left, c)
      OBVIOUS
    <3>3. /\ One(new, c) \in Int /\ One(clo, c) \in Int /\ Occurrences(more, c) \in Int
          /\ ns[c] \in Int
      BY <1>1, <1>4, <1>5 DEF One, Ledger
    <3>4. Occurrences(left, c) \in Int
      BY <1>2, <1>4, <1>9, OccurrencesSmall DEF left
    <3> HIDE DEF kg
    <3> QED
      BY <3>1, <3>2, <3>3, <3>4
  <2>2. Occurrences(left, c) = IF h[clo].rc = 1 THEN Occurrences(args, c) ELSE 0
    <3>1. left = IF h[clo].rc = 1 THEN args ELSE <<>>
      <4> HIDE DEF m, s, args
      <4> QED
        BY <1>6, <1>9
    <3>2. Occurrences(<<>>, c) = 0
      BY OccurrencesSmall
    <3> HIDE DEF left, args
    <3> QED
      BY <3>1, <3>2
  <2>3. /\ Occurrences(args, c) \in Nat /\ Occurrences(more, c) = Occurrences(args, c) + One(arg, c)
        /\ ns[c] = n[c] + IF h[clo].rc = 1 THEN 0 ELSE Occurrences(args, c)
        /\ n[c] \in Int
    BY <1>1, <1>4, <1>5
  <2>4. One(new, c) \in Nat /\ One(arg, c) \in Nat /\ One(clo, c) \in Nat
    BY DEF One
  <2> HIDE DEF kg, left, more, new, args, g, m
  <2> QED
    BY <2>1, <2>2, <2>3, <2>4
<1>12. \A c \in Cell \ {new, clo} :
         /\ Contents(g[c]) = Contents(h[c])
         /\ (\A i \in DOMAIN args : args[i] # c) => g[c] = h[c]
  <2>1. \A c \in Cell \ {new, clo} : g[c] = s[c]
    BY <1>8, <1>10
  <2> HIDE DEF g, s, new, args
  <2> QED
    BY <1>6, <2>1 DEF SameContents
<1>13. \/ g[clo] = FreeCell /\ h[clo].rc = 1
       \/ Contents(g[clo]) = Contents(h[clo]) /\ h[clo].rc # 1
  <2> HIDE DEF g, s, m
  <2> QED
    BY <1>6, <1>9, <1>10 DEF SameContents
<1>14. g[new] = [kind |-> "clo", rc |-> 1, name |-> h[clo].name, args |-> more]
  <2> HIDE DEF g, m, more
  <2> QED
    BY <1>7, <1>8, <1>10
<1> QED
  <2>2. new = Fresh(h) /\ Fresh(h) \in Cell /\ h[Fresh(h)].kind = "free"
    BY <1>7, FreshCell
  <2>3. \A c \in Cell : kg[c] = n[c] + One(new, c) - One(arg, c) - One(clo, c)
    <3> HIDE DEF kg
    <3> QED
      BY <1>11
  <2>4. Ledger(g, kg)
    BY <1>10
  <2> HIDE DEF g, kg, new, more, args, s
  <2>5. Applies(h, n, clo, arg, g, kg)
    BY <1>12, <1>13, <1>14, <2>2, <2>3, <2>4 DEF Applies, more, args, new, s
  <2> QED
    BY <2>5 DEF g

(***************************************************************************)
(* The places in the frames                                                *)
(***************************************************************************)
IsEnv(frame) == frame.kind \in {"run", "let"}
InFrame(frame, c) == Cardinality(PlacesIn(frame, c))
Below(frames, c) == Cardinality(PlacesInFrames(frames, c))

(* What an environment refers to is what it owns, and its tokens.             *)
LEMMA EnvPlaces ==
    ASSUME NEW frame, IsEnv(frame), IsFiniteSet(frame.owned), IsFiniteSet(DOMAIN frame.reuse),
           NEW c
    PROVE  /\ IsFiniteSet(PlacesIn(frame, c)) /\ InFrame(frame, c) \in Nat
           /\ InFrame(frame, c) = Count(frame.locals, frame.owned, c)
                                  + Count(frame.reuse, DOMAIN frame.reuse, c)
<1> DEFINE V == {x \in frame.owned : frame.locals[x] = c}
           T == {con \in DOMAIN frame.reuse : frame.reuse[con] = c}
<1>1. PlacesIn(frame, c) = ({"variable"} \X V) \cup ({"token"} \X T)
  BY DEF PlacesIn, IsEnv
<1>2. IsFiniteSet(V) /\ IsFiniteSet(T)
  BY CountType
<1>3. /\ IsFiniteSet({"variable"} \X V) /\ Cardinality({"variable"} \X V) = Cardinality(V)
      /\ IsFiniteSet({"token"} \X T) /\ Cardinality({"token"} \X T) = Cardinality(T)
  <2> HIDE DEF V, T
  <2> QED
    BY <1>2, PairWith
<1>4. ({"variable"} \X V) \cap ({"token"} \X T) = {}
  OBVIOUS
<1> DEFINE A == {"variable"} \X V
           B == {"token"} \X T
<1>5. IsFiniteSet(A \cup B) /\ Cardinality(A \cup B) = Cardinality(A) + Cardinality(B)
  <2>1. A \cap B = {} /\ IsFiniteSet(A) /\ IsFiniteSet(B)
    BY <1>3, <1>4
  <2> HIDE DEF A, B
  <2>2. Cardinality(A \cup B) = Cardinality(A) + Cardinality(B) - Cardinality(A \cap B)
    BY <2>1, FS_Union
  <2>3. Cardinality(A) \in Nat /\ Cardinality(B) \in Nat /\ Cardinality(A \cap B) = 0
    BY <2>1, FS_CardinalityType, FS_EmptySet
  <2> QED
    BY <2>1, <2>2, <2>3, FS_Union
<1>6. Cardinality(A) = Count(frame.locals, frame.owned, c)
      /\ Cardinality(B) = Count(frame.reuse, DOMAIN frame.reuse, c)
  BY <1>3 DEF Count
<1> QED
  <2>1. PlacesIn(frame, c) = A \cup B
    BY <1>1
  <2> HIDE DEF A, B
  <2> QED
    BY <1>5, <1>6, <2>1, FS_CardinalityType DEF InFrame

(* Any other frame refers to one value, if any.                              *)
LEMMA ValuePlaces ==
    ASSUME NEW frame, ~IsEnv(frame), NEW c
    PROVE  /\ IsFiniteSet(PlacesIn(frame, c)) /\ InFrame(frame, c) \in Nat
           /\ frame.kind = "trampoline" => InFrame(frame, c) = One(frame.clo, c)
           /\ frame.kind = "return" => InFrame(frame, c) = One(frame.value, c)
           /\ frame.kind = "store" => InFrame(frame, c) = 0
<1>1. /\ IsFiniteSet({}) /\ Cardinality({}) = 0
      /\ \A p : IsFiniteSet({p}) /\ Cardinality({p}) = 1
  BY FS_EmptySet, FS_Singleton
<1>2. CASE frame.kind = "trampoline"
  <2>1. PlacesIn(frame, c) = IF frame.clo = c THEN {<<frame.kind, NoName>>} ELSE {}
    BY <1>2 DEF PlacesIn
  <2>2. CASE frame.clo = c
    <3>1. \A P : P = {<<frame.kind, NoName>>} => IsFiniteSet(P) /\ Cardinality(P) = 1
      BY <1>1
    <3> QED
      BY <1>2, <2>1, <2>2, <3>1 DEF InFrame, One
  <2>3. CASE frame.clo # c
    <3>1. \A P : P = {} => IsFiniteSet(P) /\ Cardinality(P) = 0
      BY <1>1
    <3> QED
      BY <1>2, <2>1, <2>3, <3>1 DEF InFrame, One
  <2> QED
    BY <2>2, <2>3
<1>3. CASE frame.kind = "return"
  <2>1. PlacesIn(frame, c) = IF frame.value = c THEN {<<frame.kind, NoName>>} ELSE {}
    BY <1>3 DEF PlacesIn
  <2>2. CASE frame.value = c
    <3>1. \A P : P = {<<frame.kind, NoName>>} => IsFiniteSet(P) /\ Cardinality(P) = 1
      BY <1>1
    <3> QED
      BY <1>3, <2>1, <2>2, <3>1 DEF InFrame, One
  <2>3. CASE frame.value # c
    <3>1. \A P : P = {} => IsFiniteSet(P) /\ Cardinality(P) = 0
      BY <1>1
    <3> QED
      BY <1>3, <2>1, <2>3, <3>1 DEF InFrame, One
  <2> QED
    BY <2>2, <2>3
<1>4. CASE frame.kind \notin {"trampoline", "return"}
  <2>1. PlacesIn(frame, c) = {}
    BY <1>4 DEF PlacesIn, IsEnv
  <2> QED
    BY <1>1, <1>4, <2>1 DEF InFrame
<1> QED
  BY <1>2, <1>3, <1>4

(* A frame adds its places to those of the frames below it.                   *)
LEMMA FramesAppend ==
    ASSUME NEW F, NEW s \in Seq(F), NEW f, NEW c,
           \A i \in DOMAIN s : IsFiniteSet(PlacesIn(s[i], c)), IsFiniteSet(PlacesIn(f, c))
    PROVE  /\ Below(s, c) \in Nat /\ InFrame(f, c) \in Nat
           /\ IsFiniteSet(PlacesInFrames(Append(s, f), c))
           /\ Below(Append(s, f), c) = Below(s, c) + InFrame(f, c)
<1> DEFINE n == Len(s)
           t == Append(s, f)
           P(i) == {i} \X PlacesIn(t[i], c)
           A == PlacesInFrames(s, c)
           B == {n + 1} \X PlacesIn(f, c)
<1>1. /\ n \in Nat /\ DOMAIN s = 1..n /\ DOMAIN t = (1..n) \cup {n + 1} /\ n + 1 \notin 1..n
      /\ t[n + 1] = f /\ \A i \in 1..n : t[i] = s[i]
  OBVIOUS
<1>2. A = UNION {P(i) : i \in 1..n}
  BY <1>1 DEF PlacesInFrames
<1>3. IsFiniteSet({P(i) : i \in 1..n})
  <2> DEFINE all == {P(i) : i \in 1..n}
             g == [i \in 1..n |-> P(i)]
  <2>1. g \in [1..n -> all] /\ \A T \in all : \E i \in 1..n : g[i] = T
    OBVIOUS
  <2>2. g \in Surjection(1..n, all)
    BY <2>1 DEF Surjection
  <2> HIDE DEF g, all, n
  <2>3. IsFiniteSet(1..n)
    BY <1>1, FS_Interval
  <2>4. IsFiniteSet(all)
    BY <2>2, <2>3, FS_Surjection
  <2> QED
    BY <2>4 DEF all
<1>4. IsFiniteSet(A)
  <2>1. \A i \in 1..n : IsFiniteSet(P(i))
    BY <1>1, PairWith
  <2> DEFINE all == {P(i) : i \in 1..n}
  <2>2. \A T \in all : IsFiniteSet(T)
    BY <2>1
  <2>3. IsFiniteSet(all) /\ A = UNION all
    BY <1>2, <1>3
  <2> HIDE DEF all, A
  <2> QED
    BY <2>2, <2>3, FS_UNION
<1>5. IsFiniteSet(B) /\ Cardinality(B) = InFrame(f, c) /\ InFrame(f, c) \in Nat
  BY PairWith, FS_CardinalityType DEF InFrame
<1>6. PlacesInFrames(t, c) = A \cup B /\ A \cap B = {}
  <2>1. PlacesInFrames(t, c) = UNION {P(i) : i \in (1..n) \cup {n + 1}}
    BY <1>1 DEF PlacesInFrames
  <2>2. B = P(n + 1)
    BY <1>1
  <2>3. PlacesInFrames(t, c) = A \cup B
    <3> HIDE DEF P, A, B, t, n
    <3> QED
      BY <1>2, <2>1, <2>2
  <2>4. \A p \in A : p[1] \in 1..n
    BY <1>2
  <2>5. \A p \in B : p[1] = n + 1
    OBVIOUS
  <2>6. A \cap B = {}
    <3> HIDE DEF A, B
    <3> QED
      BY <1>1, <2>4, <2>5
  <2> QED
    BY <2>3, <2>6
<1>7. IsFiniteSet(A \cup B) /\ Cardinality(A \cup B) = Cardinality(A) + Cardinality(B)
  <2> HIDE DEF A, B
  <2>2. Cardinality(A \cup B) = Cardinality(A) + Cardinality(B) - Cardinality(A \cap B)
    BY <1>4, <1>5, FS_Union
  <2>3. Cardinality(A) \in Nat /\ Cardinality(B) \in Nat /\ Cardinality(A \cap B) = 0
    BY <1>4, <1>5, <1>6, FS_CardinalityType, FS_EmptySet
  <2> QED
    BY <1>4, <1>5, <2>2, <2>3, FS_Union
<1>8. Cardinality(A) = Below(s, c) /\ Below(s, c) \in Nat
  BY <1>4, FS_CardinalityType DEF Below
<1> HIDE DEF A, B, t
<1> QED
  BY <1>5, <1>6, <1>7, <1>8 DEF Below, t

(***************************************************************************)
(* The inductive invariant                                                 *)
(***************************************************************************)
\* The variables that the code of a frame still reads.
Needs(frame) ==
    FreeVariables(frame.term) \ (IF frame.kind = "let" THEN {frame.x} ELSE {})

\* A value that the code of a frame reads, and that no variable of its own
\* holds, is lent by a variable of a frame below.
HeldIn(frame, v) == IsEnv(frame) /\ \E x \in frame.owned : frame.locals[x] = v
Lent(frames, i, v) == v = Null \/ \E j \in 1..(i - 1) : HeldIn(frames[j], v)

EnvOK(frame) ==
    /\ frame.term \in Term
    /\ frame.owned \subseteq Needs(frame)
    /\ Needs(frame) \subseteq DOMAIN frame.locals
    /\ \A x \in DOMAIN frame.locals : frame.locals[x] \in Value
    /\ DOMAIN frame.reuse \subseteq UsedConstructors(frame.term) \ NullCons
    /\ \A con \in DOMAIN frame.reuse : frame.reuse[con] \in Value
    /\ frame.tail \in BOOLEAN

\* A function that may return a saturated closure was entered by a trampoline.
FrameOK(frames, i) ==
    /\ IsEnv(frames[i]) =>
         /\ EnvOK(frames[i])
         /\ \A x \in Needs(frames[i]) \ frames[i].owned : Lent(frames, i, frames[i].locals[x])
         /\ frames[i].tail => i > 1 /\ frames[i - 1].kind = "trampoline"
    /\ frames[i].kind = "trampoline" => frames[i].clo \in Value
    /\ frames[i].kind = "return" => frames[i].value \in Value

\* A token and a running closure are cells with one reference.
SoloCells(frame) ==
    IF IsEnv(frame) THEN {frame.reuse[con] : con \in DOMAIN frame.reuse} \ {Null}
    ELSE IF frame.kind = "trampoline" THEN {frame.clo} \ {Null}
    ELSE {}
SoloKind(frame) == IF frame.kind = "trampoline" THEN "running" ELSE "token"
Solo(h, frame) ==
    \A e \in SoloCells(frame) : h[e].kind = SoloKind(frame) /\ h[e].rc = 1

FramesOK == \A i \in DOMAIN Frames : FrameOK(Frames, i) /\ Solo(heap, Frames[i])

ShapeOK ==
    /\ drops \in Seq(Value) /\ lost \in [Cell -> Nat] /\ start \in Starts
    /\ stack \in Seq(ToSet(stack))
    /\ now.kind \in {"run", "return", "store"}
    /\ \A i \in DOMAIN stack : stack[i].kind \in {"let", "trampoline"}

\* A saturated closure is on its way to the trampoline that runs it.
IsFull(cell) == cell.kind = "clo" /\ Len(cell.args) = Arity(cell.name)
FullOK == \A c \in Cell : IsFull(heap[c]) =>
    /\ heap[c].rc = 1 /\ drops = <<>>
    /\ now.kind = "return" /\ now.value = c
    /\ stack # <<>> /\ Last(stack).kind = "trampoline"

\* The array and the new value outlive the old element of arraySet.
StoreOK == now.kind = "store" =>
    /\ now.array \in Cell /\ now.value \in Value
    /\ heap[now.array].kind = "array" /\ now.at \in DOMAIN heap[now.array].args
    /\ heap[now.array].args[now.at] = Null
    /\ \A v \in {now.array, now.value} : Lent(Frames, Len(Frames), v) \/ lost[v] > 0

\* Every reference is counted.
Roots(c) ==
    start.outside[c] + Cardinality(PlacesInFrames(Frames, c)) + Occurrences(drops, c) + lost[c]
Exact == \A c \in Cell : heap[c].rc # RcMax => heap[c].rc = Roots(c) + InHeap(heap, c)

Intact == \A c \in start.shared : Contents(heap[c]) = Contents(start.heap[c])

IInv == ShapeOK /\ HeapOK(heap) /\ FramesOK /\ StoreOK /\ FullOK /\ Exact /\ Intact

(***************************************************************************)
(* What the invariant says of a state                                      *)
(***************************************************************************)
(* Terms are well formed, and so are the terms they consist of.              *)
LEMMA TermOK ==
    ASSUME NEW t \in Term
    PROVE  WellFormed(t) /\ Subterms(t) \subseteq Term
BY ProgramAssumption

(* Environments are finite.                                                  *)
LEMMA EnvFinite ==
    ASSUME NEW frame, EnvOK(frame)
    PROVE  /\ IsFiniteSet(frame.owned) /\ IsFiniteSet(DOMAIN frame.reuse)
           /\ IsFiniteSet(Needs(frame))
           /\ \A x \in Needs(frame) : frame.locals[x] \in Value
<1>1. IsFiniteSet(FreeVariables(frame.term)) /\ IsFiniteSet(UsedConstructors(frame.term))
  BY TermOK DEF EnvOK, WellFormed
<1>2. IsFiniteSet(Needs(frame))
  <2>1. Needs(frame) \subseteq FreeVariables(frame.term)
    BY DEF Needs
  <2> QED
    BY <1>1, <2>1, FS_Subset
<1>3. IsFiniteSet(frame.owned)
  BY <1>2, FS_Subset DEF EnvOK
<1>4. IsFiniteSet(DOMAIN frame.reuse)
  <2>1. DOMAIN frame.reuse \subseteq UsedConstructors(frame.term)
    BY DEF EnvOK
  <2> QED
    BY <1>1, <2>1, FS_Subset
<1> QED
  BY <1>2, <1>3, <1>4 DEF EnvOK

(* So are the places in a frame.                                             *)
LEMMA FrameFinite ==
    ASSUME NEW s, NEW i, FrameOK(s, i), NEW c
    PROVE  IsFiniteSet(PlacesIn(s[i], c)) /\ InFrame(s[i], c) \in Nat
<1>1. CASE IsEnv(s[i])
  <2>1. IsFiniteSet(s[i].owned) /\ IsFiniteSet(DOMAIN s[i].reuse)
    BY <1>1, EnvFinite DEF FrameOK
  <2> QED
    BY <1>1, <2>1, EnvPlaces
<1>2. CASE ~IsEnv(s[i])
  BY <1>2, ValuePlaces
<1> QED
  BY <1>1, <1>2

(* What the frames and the current node refer to.                            *)
LEMMA FramesSum ==
    ASSUME NEW F, NEW s \in Seq(F), NEW f,
           \A i \in DOMAIN Append(s, f) : FrameOK(Append(s, f), i), NEW c
    PROVE  /\ IsFiniteSet(PlacesInFrames(Append(s, f), c))
           /\ Below(s, c) \in Nat /\ InFrame(f, c) \in Nat
           /\ Cardinality(PlacesInFrames(Append(s, f), c)) = Below(s, c) + InFrame(f, c)
<1> DEFINE t == Append(s, f)
<1>1. /\ \A i \in DOMAIN s : i \in DOMAIN t /\ t[i] = s[i]
      /\ Len(s) + 1 \in DOMAIN t /\ t[Len(s) + 1] = f
  OBVIOUS
<1>2. \A i \in DOMAIN t : IsFiniteSet(PlacesIn(t[i], c))
  BY FrameFinite
<1>3. (\A i \in DOMAIN s : IsFiniteSet(PlacesIn(s[i], c))) /\ IsFiniteSet(PlacesIn(f, c))
  <2> HIDE DEF t
  <2> QED
    BY <1>1, <1>2
<1> QED
  BY <1>3, FramesAppend DEF Below

(* A frame more.                                                             *)
LEMMA BelowAppend ==
    ASSUME NEW F, NEW s \in Seq(F), NEW f, NEW c,
           \A i \in DOMAIN Append(s, f) : IsFiniteSet(PlacesIn(Append(s, f)[i], c))
    PROVE  /\ Below(s, c) \in Nat /\ InFrame(f, c) \in Nat
           /\ Below(Append(s, f), c) = Below(s, c) + InFrame(f, c)
<1>1. /\ \A i \in DOMAIN s : i \in DOMAIN Append(s, f) /\ Append(s, f)[i] = s[i]
      /\ Len(s) + 1 \in DOMAIN Append(s, f) /\ Append(s, f)[Len(s) + 1] = f
  OBVIOUS
<1>2. (\A i \in DOMAIN s : IsFiniteSet(PlacesIn(s[i], c))) /\ IsFiniteSet(PlacesIn(f, c))
  BY <1>1
<1> QED
  BY <1>2, FramesAppend

(* The frames, one by one.                                                   *)
LEMMA FramesShape ==
    ASSUME ShapeOK
    PROVE  /\ Len(stack) \in Nat /\ DOMAIN stack = 1..Len(stack)
           /\ Len(Frames) = Len(stack) + 1
           /\ DOMAIN Frames = 1..(Len(stack) + 1)
           /\ Frames[Len(stack) + 1] = now
           /\ \A i \in 1..Len(stack) : Frames[i] = stack[i]
BY DEF ShapeOK, Frames

(* Counters are exact, so the ledger of the heap is what the program holds.  *)
LEMMA RootsSum ==
    ASSUME IInv
    PROVE  /\ Ledger(heap, [c \in Cell |-> Roots(c)])
           /\ \A c \in Cell :
                /\ start.outside[c] \in Nat /\ Below(stack, c) \in Nat /\ InFrame(now, c) \in Nat
                /\ Occurrences(drops, c) \in Nat /\ lost[c] \in Nat /\ Roots(c) \in Nat
                /\ Roots(c) = start.outside[c] + Below(stack, c) + InFrame(now, c)
                              + Occurrences(drops, c) + lost[c]
                /\ IsFiniteSet(PlacesInFrames(Frames, c))
<1>1. ASSUME NEW c \in Cell
      PROVE  /\ start.outside[c] \in Nat /\ Below(stack, c) \in Nat /\ InFrame(now, c) \in Nat
             /\ Occurrences(drops, c) \in Nat /\ lost[c] \in Nat
             /\ IsFiniteSet(PlacesInFrames(Frames, c))
             /\ Cardinality(PlacesInFrames(Frames, c)) = Below(stack, c) + InFrame(now, c)
  <2>1. start.outside[c] \in Nat
    BY StartAssumption DEF IInv, ShapeOK
  <2>2. lost[c] \in Nat /\ drops \in Seq(Value) /\ stack \in Seq(ToSet(stack))
    BY DEF IInv, ShapeOK
  <2>3. Occurrences(drops, c) \in Nat
    BY <2>2, OccurrencesType
  <2>4. \A i \in DOMAIN Append(stack, now) : FrameOK(Append(stack, now), i)
    BY DEF IInv, FramesOK, Frames
  <2> QED
    BY <2>1, <2>2, <2>3, <2>4, FramesSum DEF Frames
<1>2. ASSUME NEW c \in Cell
      PROVE  /\ Roots(c) \in Nat
             /\ Roots(c) = start.outside[c] + Below(stack, c) + InFrame(now, c)
                              + Occurrences(drops, c) + lost[c]
  BY <1>1 DEF Roots
<1>3. Ledger(heap, [c \in Cell |-> Roots(c)])
  BY <1>2 DEF IInv, Exact, Ledger
<1> QED
  BY <1>1, <1>2, <1>3

(* Two places are two.                                                       *)
LEMMA PlacesAtLeast ==
    ASSUME NEW P, IsFiniteSet(P), NEW p \in P
    PROVE  /\ Cardinality(P) \in Nat /\ Cardinality(P) >= 1
           /\ \A q \in P : q # p => Cardinality(P) >= 2
<1>1. Cardinality(P) \in Nat
  BY FS_CardinalityType
<1>2. Cardinality(P) # 0
  BY FS_EmptySet
<1>3. ASSUME NEW q \in P, q # p PROVE Cardinality(P) # 1
  <2>1. IsFiniteSet({p}) /\ Cardinality({p}) = 1
    BY FS_Singleton
  <2>2. {p} \in SUBSET P /\ P # {p}
    BY <1>3
  <2>3. Cardinality(P) # Cardinality({p})
    BY <2>2, FS_Subset
  <2> QED
    BY <2>1, <2>3
<1> QED
  BY <1>1, <1>2, <1>3

(* Where a frame has the value of a variable, a token or a running closure.   *)
LEMMA PlaceOf ==
    ASSUME NEW frames, NEW i \in DOMAIN frames, NEW v
    PROVE  /\ v \in SoloCells(frames[i]) =>
                \E p \in PlacesInFrames(frames, v) : p[1] = i /\ p[2][1] \in {"token", "trampoline"}
           /\ HeldIn(frames[i], v) =>
                \E p \in PlacesInFrames(frames, v) : p[1] = i /\ p[2][1] = "variable"
           /\ frames[i].kind = "return" /\ frames[i].value = v =>
                \E p \in PlacesInFrames(frames, v) : p[1] = i /\ p[2][1] = "return"
<1>1. \A q \in PlacesIn(frames[i], v) : <<i, q>> \in PlacesInFrames(frames, v)
  BY DEF PlacesInFrames
<1>2. ASSUME v \in SoloCells(frames[i]), IsEnv(frames[i])
      PROVE  \E q \in PlacesIn(frames[i], v) : q[1] = "token"
  <2>1. PICK con \in DOMAIN frames[i].reuse : frames[i].reuse[con] = v
    BY <1>2 DEF SoloCells
  <2>2. <<"token", con>> \in PlacesIn(frames[i], v)
    BY <1>2, <2>1 DEF PlacesIn, IsEnv
  <2> QED
    BY <2>2
<1>3. ASSUME v \in SoloCells(frames[i]), ~IsEnv(frames[i])
      PROVE  \E q \in PlacesIn(frames[i], v) : q[1] = "trampoline"
  <2>1. frames[i].kind = "trampoline" /\ frames[i].clo = v
    BY <1>3 DEF SoloCells
  <2>2. <<"trampoline", NoName>> \in PlacesIn(frames[i], v)
    BY <1>3, <2>1 DEF PlacesIn, IsEnv
  <2> QED
    BY <2>2
<1>4. ASSUME HeldIn(frames[i], v)
      PROVE  \E q \in PlacesIn(frames[i], v) : q[1] = "variable"
  <2>1. PICK x \in frames[i].owned : frames[i].locals[x] = v
    BY <1>4 DEF HeldIn
  <2>2. <<"variable", x>> \in PlacesIn(frames[i], v)
    BY <1>4, <2>1 DEF PlacesIn, HeldIn, IsEnv
  <2> QED
    BY <2>2
<1>5. ASSUME frames[i].kind = "return", frames[i].value = v
      PROVE  \E q \in PlacesIn(frames[i], v) : q[1] = "return"
  <2>1. <<"return", NoName>> \in PlacesIn(frames[i], v)
    BY <1>5 DEF PlacesIn, IsEnv
  <2> QED
    BY <2>1
<1> QED
  BY <1>1, <1>2, <1>3, <1>4, <1>5

\* Something refers to v other than as a token or as a running closure.
Referred(v) ==
    \/ \E i \in DOMAIN Frames : HeldIn(Frames[i], v)
    \/ now.kind = "return" /\ now.value = v
    \/ \E k \in DOMAIN drops : drops[k] = v
    \/ \E d \in Cell : \E k \in DOMAIN Fields(heap, d) : Fields(heap, d)[k] = v
    \/ lost[v] > 0
    \/ start.outside[v] > 0

(* What refers to a cell is counted.                                         *)
LEMMA ReferredCounts ==
    ASSUME IInv, NEW v \in Cell, Referred(v)
    PROVE  Roots(v) + InHeap(heap, v) >= 1
<1>1. /\ start.outside[v] \in Nat /\ Occurrences(drops, v) \in Nat /\ lost[v] \in Nat
      /\ Roots(v) = start.outside[v] + Cardinality(PlacesInFrames(Frames, v))
                      + Occurrences(drops, v) + lost[v]
      /\ IsFiniteSet(PlacesInFrames(Frames, v))
  BY RootsSum DEF Roots
<1>2. InHeap(heap, v) \in Nat
  BY HeapPlaces DEF IInv, HeapOK
<1>3. Cardinality(PlacesInFrames(Frames, v)) \in Nat
  BY <1>1, FS_CardinalityType
<1>9. PICK a \in Nat, b \in Nat, o \in Nat, l \in Nat, f \in Nat :
        /\ a = start.outside[v] /\ b = Cardinality(PlacesInFrames(Frames, v))
        /\ o = Occurrences(drops, v) /\ l = lost[v] /\ f = InHeap(heap, v)
        /\ Roots(v) = a + b + o + l
  BY <1>1, <1>2, <1>3
<1>4. CASE \/ \E i \in DOMAIN Frames : HeldIn(Frames[i], v)
           \/ now.kind = "return" /\ now.value = v
  <2>1. \E p : p \in PlacesInFrames(Frames, v)
    <3>1. Len(stack) + 1 \in DOMAIN Frames /\ Frames[Len(stack) + 1] = now
      BY FramesShape DEF IInv
    <3> QED
      BY <1>4, <3>1, PlaceOf
  <2>2. Cardinality(PlacesInFrames(Frames, v)) >= 1
    BY <1>1, <2>1, PlacesAtLeast
  <2> QED
    BY <1>9, <2>2
<1>5. CASE \E k \in DOMAIN drops : drops[k] = v
  <2>1. Occurrences(drops, v) # 0
    BY <1>5, OccurrencesType DEF IInv, ShapeOK
  <2> QED
    BY <1>9, <2>1
<1>6. CASE \E d \in Cell : \E k \in DOMAIN Fields(heap, d) : Fields(heap, d)[k] = v
  <2>1. InHeap(heap, v) > 0
    BY <1>6, HeapCountSome DEF IInv, HeapOK
  <2> QED
    BY <1>9, <2>1
<1>7. CASE lost[v] > 0 \/ start.outside[v] > 0
  BY <1>7, <1>9
<1> QED
  BY <1>4, <1>5, <1>6, <1>7 DEF Referred

(* Nothing else refers to a token or to a running closure.                   *)
LEMMA Apart ==
    ASSUME IInv, NEW i \in DOMAIN Frames, NEW v \in SoloCells(Frames[i]) \cap Cell
    PROVE  /\ ~Referred(v)
           /\ \A j \in DOMAIN Frames : v \in SoloCells(Frames[j]) => j = i
           /\ heap[v].kind \in {"token", "running"} /\ heap[v].rc = 1
           /\ v \notin start.shared
<1>1. heap[v].kind \in {"token", "running"} /\ heap[v].rc = 1
  BY DEF IInv, FramesOK, Solo, SoloKind
<1>2. /\ start.outside[v] \in Nat /\ Occurrences(drops, v) \in Nat /\ lost[v] \in Nat
      /\ Roots(v) = start.outside[v] + Cardinality(PlacesInFrames(Frames, v))
                      + Occurrences(drops, v) + lost[v]
      /\ IsFiniteSet(PlacesInFrames(Frames, v))
  BY RootsSum DEF Roots
<1>3. InHeap(heap, v) \in Nat
  BY HeapPlaces DEF IInv, HeapOK
<1>4. Cardinality(PlacesInFrames(Frames, v)) \in Nat
  BY <1>2, FS_CardinalityType
<1>5. Roots(v) + InHeap(heap, v) = 1
  BY <1>1, MemoryAssumption DEF IInv, Exact
<1>6. PICK p \in PlacesInFrames(Frames, v) : p[1] = i /\ p[2][1] \in {"token", "trampoline"}
  BY PlaceOf
<1>7. Cardinality(PlacesInFrames(Frames, v)) >= 1
  BY <1>2, <1>6, PlacesAtLeast
<1>8. /\ start.outside[v] = 0 /\ Occurrences(drops, v) = 0 /\ lost[v] = 0 /\ InHeap(heap, v) = 0
      /\ Cardinality(PlacesInFrames(Frames, v)) = 1
  BY <1>2, <1>3, <1>4, <1>5, <1>7
<1>9. \A q \in PlacesInFrames(Frames, v) : q = p
  BY <1>2, <1>8, PlacesAtLeast
<1>10. ~Referred(v)
  <2>1. \A j \in DOMAIN Frames : ~HeldIn(Frames[j], v)
    BY <1>6, <1>9, PlaceOf
  <2>2. ~(now.kind = "return" /\ now.value = v)
    <3>1. Len(stack) + 1 \in DOMAIN Frames /\ Frames[Len(stack) + 1] = now
      BY FramesShape DEF IInv
    <3> QED
      BY <1>6, <1>9, <3>1, PlaceOf
  <2>3. \A k \in DOMAIN drops : drops[k] # v
    BY <1>8, OccurrencesType DEF IInv, ShapeOK
  <2>4. \A d \in Cell : \A k \in DOMAIN Fields(heap, d) : Fields(heap, d)[k] # v
    <3> SUFFICES ASSUME NEW d \in Cell, NEW k \in DOMAIN Fields(heap, d), Fields(heap, d)[k] = v
                 PROVE  FALSE
      OBVIOUS
    <3>1. InHeap(heap, v) > 0
      BY HeapCountSome DEF IInv, HeapOK
    <3> QED
      BY <1>8, <3>1
  <2> QED
    BY <1>8, <2>1, <2>2, <2>3, <2>4 DEF Referred
<1>11. \A j \in DOMAIN Frames : v \in SoloCells(Frames[j]) => j = i
  BY <1>6, <1>9, PlaceOf
<1>12. v \notin start.shared
  <2> SUFFICES ASSUME v \in start.shared PROVE FALSE
    OBVIOUS
  <2>1. heap[v].kind = start.heap[v].kind
    BY DEF IInv, Intact, Contents
  <2>2. start.heap[v].kind \in {"con", "clo"}
    BY StartAssumption DEF IInv, ShapeOK
  <2> QED
    BY <1>1, <2>1, <2>2
<1> QED
  BY <1>1, <1>10, <1>11, <1>12

(* A variable that a node reads holds a value that is referred to.           *)
LEMMA ReadsReferred ==
    ASSUME IInv, now.kind = "run", NEW x \in FreeVariables(now.term)
    PROVE  /\ x \in DOMAIN now.locals /\ now.locals[x] \in Value
           /\ now.locals[x] = Null \/ Referred(now.locals[x])
           /\ x \notin now.owned => Lent(Frames, Len(Frames), now.locals[x])
<1>1. /\ Len(stack) + 1 \in DOMAIN Frames /\ Frames[Len(stack) + 1] = now
      /\ DOMAIN Frames = 1..(Len(stack) + 1) /\ Len(Frames) = Len(stack) + 1
      /\ Len(stack) \in Nat
  BY FramesShape DEF IInv
<1>2. FrameOK(Frames, Len(stack) + 1)
  BY <1>1 DEF IInv, FramesOK
<1>3. /\ EnvOK(now)
      /\ \A y \in Needs(now) \ now.owned : Lent(Frames, Len(stack) + 1, now.locals[y])
  BY <1>1, <1>2 DEF FrameOK, IsEnv
<1>4. Needs(now) = FreeVariables(now.term)
  BY DEF Needs
<1>5. x \in DOMAIN now.locals /\ now.locals[x] \in Value
  BY <1>3, <1>4 DEF EnvOK
<1>6. CASE x \in now.owned
  <2>1. HeldIn(Frames[Len(stack) + 1], now.locals[x])
    BY <1>1, <1>6 DEF HeldIn, IsEnv
  <2> QED
    BY <1>1, <1>5, <1>6, <2>1 DEF Referred
<1>7. CASE x \notin now.owned
  <2>1. Lent(Frames, Len(stack) + 1, now.locals[x])
    BY <1>3, <1>4, <1>7
  <2>2. now.locals[x] = Null \/ \E j \in DOMAIN Frames : HeldIn(Frames[j], now.locals[x])
    BY <1>1, <2>1 DEF Lent
  <2> QED
    BY <1>1, <1>5, <2>1, <2>2 DEF Referred
<1> QED
  BY <1>6, <1>7

(* What is referred to is not free.                                          *)
LEMMA ReferredLive ==
    ASSUME IInv, NEW v \in Value, v = Null \/ Referred(v)
    PROVE  Live(heap, v)
<1>1. CASE v = Null
  BY <1>1 DEF Live
<1>2. CASE v # Null
  <2>1. v \in Cell
    BY <1>2 DEF Value
  <2>2. Ledger(heap, [c \in Cell |-> Roots(c)]) /\ Roots(v) \in Nat
    BY <2>1, RootsSum
  <2>3. Roots(v) + InHeap(heap, v) >= 1 /\ InHeap(heap, v) \in Nat
    BY <1>2, <2>1, ReferredCounts, HeapPlaces DEF IInv, HeapOK
  <2> DEFINE n == [c \in Cell |-> Roots(c)]
  <2>4. n[v] = Roots(v) /\ Ledger(heap, n)
    BY <2>1, <2>2
  <2> HIDE DEF n
  <2>5. heap[v].kind # "free"
    BY <2>1, <2>2, <2>3, <2>4, HeldIsLive
  <2> QED
    BY <2>1, <2>5 DEF Live
<1> QED
  BY <1>1, <1>2

(* Data that is also held elsewhere has a reference more than those that the *)
(* program has.                                                              *)
LEMMA SharedHeld ==
    ASSUME IInv, NEW c \in start.shared
    PROVE  /\ c \in Cell /\ heap[c].kind \in {"con", "clo"}
           /\ heap[c].rc # RcMax => heap[c].rc >= 1 + Below(stack, c) + InFrame(now, c)
                                                   + Occurrences(drops, c)
           /\ start.outside[c] + InHeap(heap, c) >= 1
<1>1. /\ c \in Cell /\ start.heap[c].kind \in {"con", "clo"} /\ start.heap \in [Cell -> CellType]
      /\ \/ start.outside[c] > 0
         \/ \E d \in start.shared : c \in ToSet(start.heap[d].args)
      /\ start.shared \subseteq Cell
  BY StartAssumption DEF IInv, ShapeOK
<1>2. \A d \in start.shared : /\ heap[d].kind = start.heap[d].kind /\ heap[d].args = start.heap[d].args
                              /\ start.heap[d].kind \in {"con", "clo"}
  BY StartAssumption DEF IInv, ShapeOK, Intact, Contents
<1>3. start.outside[c] \in Nat /\ InHeap(heap, c) \in Nat
  BY <1>1, RootsSum, HeapPlaces DEF IInv, HeapOK
<1>4. start.outside[c] > 0 \/ InHeap(heap, c) > 0
  <2>1. CASE start.outside[c] > 0
    BY <2>1
  <2>2. CASE \E d \in start.shared : c \in ToSet(start.heap[d].args)
    <3>1. PICK d \in start.shared : c \in ToSet(start.heap[d].args)
      BY <2>2
    <3>2. d \in Cell /\ Fields(heap, d) = start.heap[d].args
      BY <1>1, <1>2 DEF Fields
    <3>3. PICK i \in DOMAIN Fields(heap, d) : Fields(heap, d)[i] = c
      BY <3>1, <3>2 DEF ToSet
    <3>4. InHeap(heap, Fields(heap, d)[i]) > 0
      BY <3>2, HeapCountSome DEF IInv, HeapOK
    <3> QED
      BY <3>3, <3>4
  <2> QED
    BY <1>1, <2>1, <2>2
<1>5. PICK a \in Nat, b \in Nat, k \in Nat, o \in Nat, l \in Nat, f \in Nat :
        /\ a = start.outside[c] /\ b = Below(stack, c) /\ k = InFrame(now, c)
        /\ o = Occurrences(drops, c) /\ l = lost[c] /\ f = InHeap(heap, c)
        /\ Roots(c) = a + b + k + o + l
  BY <1>1, <1>3, RootsSum
<1>6. heap[c].rc # RcMax => heap[c].rc = a + b + k + o + l + f
  BY <1>1, <1>5 DEF IInv, Exact
<1> QED
  BY <1>1, <1>2, <1>4, <1>5, <1>6

(* Saturated closures are short-lived.                                       *)
LEMMA NoFull ==
    ASSUME IInv, now.kind # "return" \/ drops # <<>>, NEW c \in Cell
    PROVE  ~IsFull(heap[c])
BY DEF IInv, FullOK

\* t has the first m frames of s, and g the cells that those have for themselves.
Leaves(s, h, t, g, m) ==
    /\ \A j \in 1..m : t[j] = s[j] /\ FrameOK(s, j) /\ Solo(h, s[j])
    /\ \A j \in 1..m : \A e \in SoloCells(s[j]) : g[e] = h[e]

(* The frames below what a step changes.                                     *)
LEMMA LowerFrames ==
    ASSUME NEW s, NEW h, NEW t, NEW g, NEW m \in Nat, Leaves(s, h, t, g, m)
    PROVE  \A j \in 1..m : FrameOK(t, j) /\ Solo(g, t[j])
<1> SUFFICES ASSUME NEW i \in 1..m
             PROVE  FrameOK(t, i) /\ Solo(g, t[i])
  OBVIOUS
<1>1. i \in Nat /\ t[i] = s[i] /\ (i > 1 => i - 1 \in 1..m /\ t[i - 1] = s[i - 1])
      /\ \A j \in 1..(i - 1) : t[j] = s[j]
  BY DEF Leaves
<1>2. \A v : Lent(s, i, v) => Lent(t, i, v)
  BY <1>1 DEF Lent
<1>3. FrameOK(s, i) /\ Solo(h, s[i]) /\ \A e \in SoloCells(s[i]) : g[e] = h[e]
  BY DEF Leaves
<1>4. FrameOK(t, i)
  BY <1>1, <1>2, <1>3 DEF FrameOK
<1>5. Solo(g, t[i])
  BY <1>1, <1>3 DEF Solo
<1> QED
  BY <1>4, <1>5

(***************************************************************************)
(* Passing variables on                                                    *)
(***************************************************************************)
(* A name that is mentioned has a first mention.                             *)
LEMMA FirstMention ==
    ASSUME NEW V, NEW args \in Seq(V), NEW y \in ToSet(args)
    PROVE  \E i \in DOMAIN args : args[i] = y /\ \A j \in 1..(i - 1) : args[j] # y
<1> DEFINE S == {i \in DOMAIN args : args[i] = y}
<1>1. S \subseteq Nat /\ S # {}
  BY DEF ToSet
<1>2. PICK i \in S : \A j \in S : <<j, i>> \notin OpToRel(<, Nat)
  <2> HIDE DEF S
  <2> QED
    BY <1>1, WFMin, NatLessThanWellFounded, Zenon
<1>3. \A j \in S : ~(j < i)
  BY <1>1, <1>2 DEF OpToRel
<1>4. \A j \in 1..(i - 1) : j \in DOMAIN args /\ j < i
  OBVIOUS
<1> QED
  BY <1>3, <1>4

(* The references that a call takes are those of the mentions that do not     *)
(* move a variable.                                                          *)
LEMMA MovedCount ==
    ASSUME NEW env, IsFiniteSet(env.owned), NEW V, NEW args \in Seq(V), NEW c
    PROVE  LET values == Values(args, env.locals)
               copies == Restrict(values, DOMAIN args \ Moved(env, args))
               moved == env.owned \cap ToSet(args)
           IN  /\ Occurrences(copies, c) \in Nat
               /\ Occurrences(values, c) = Occurrences(copies, c) + Count(env.locals, moved, c)
               /\ Count(env.locals, moved, c) \in Nat
<1> DEFINE values == Values(args, env.locals)
           M == Moved(env, args)
           D == DOMAIN args \ M
           copies == Restrict(values, D)
           moved == env.owned \cap ToSet(args)
           m == [i \in M |-> args[i]]
<1>1. IsFiniteSet(DOMAIN args) /\ M \subseteq DOMAIN args /\ M \cup D = DOMAIN args /\ M \cap D = {}
  BY OccurrencesType DEF Moved
<1>2. IsFiniteSet(M) /\ IsFiniteSet(D) /\ IsFiniteSet(moved)
  <2>1. D \subseteq DOMAIN args /\ moved \subseteq env.owned
    OBVIOUS
  <2> HIDE DEF M, D, moved
  <2> QED
    BY <1>1, <2>1, FS_Subset
<1>3. DOMAIN values = DOMAIN args /\ \A i \in DOMAIN args : values[i] = env.locals[args[i]]
  BY DEF Values
<1>4. Renames(m, M, moved, values, env.locals)
  <2>1. \A i \in M : args[i] \in moved /\ i \in DOMAIN args
    BY DEF Moved, ToSet
  <2>2. \A i, j \in M : args[i] = args[j] => i = j
    <3> SUFFICES ASSUME NEW i \in M, NEW j \in M, args[i] = args[j], i < j
                 PROVE  FALSE
      BY DEF Moved
    <3>1. i \in 1..(j - 1)
      BY DEF Moved
    <3> QED
      BY <3>1 DEF Moved
  <2>3. \A y \in moved : \E i \in M : args[i] = y
    BY FirstMention DEF Moved
  <2> HIDE DEF M, moved, values
  <2> QED
    BY <1>3, <2>1, <2>2, <2>3 DEF Renames
<1>5. Count(values, M, c) = Count(env.locals, moved, c)
  <2> HIDE DEF M, moved, values, m
  <2> QED
    BY <1>2, <1>4, CountMap
<1>6. Count(values, M \cup D, c) = Count(values, M, c) + Count(values, D, c)
  <2> HIDE DEF M, D, values
  <2> QED
    BY <1>1, <1>2, CountSplit
<1>7. Count(values, M \cup D, c) = Occurrences(values, c)
  BY <1>1, <1>3 DEF Occurrences, Count
<1>8. Count(values, D, c) = Occurrences(copies, c)
  <2>1. DOMAIN copies = D /\ \A i \in D : copies[i] = values[i]
    BY DEF Restrict
  <2> HIDE DEF D, values, copies
  <2>2. Occurrences(copies, c) = Count(copies, D, c)
    BY <2>1 DEF Occurrences, Count
  <2> QED
    BY <2>1, <2>2, CountSame
<1>9. Count(values, D, c) \in Nat /\ Count(env.locals, moved, c) \in Nat
  <2> HIDE DEF D, values, moved
  <2> QED
    BY <1>2, CountType
<1> HIDE DEF M, D, values, moved, copies
<1> QED
  BY <1>5, <1>6, <1>7, <1>8, <1>9 DEF M, D, values, moved, copies

(* Every parameter is bound to its argument.                                 *)
LEMMA BindingCount ==
    ASSUME NEW V, NEW names \in Seq(V), IsInjective(names),
           NEW values \in Seq(Value), Len(values) = Len(names)
    PROVE  LET b == Binding(names, values)
               xs == ToSet(names)
           IN  /\ DOMAIN b = xs /\ IsFiniteSet(xs)
               /\ \A i \in DOMAIN names : b[names[i]] = values[i]
               /\ \A x \in xs : b[x] \in Value
               /\ \A c : Occurrences(values, c) = Count(b, xs, c)
<1> DEFINE b == Binding(names, values)
           xs == ToSet(names)
           D == DOMAIN names
           m == [i \in D |-> names[i]]
<1>1. /\ DOMAIN b = xs
      /\ \A x \in xs : b[x] = values[CHOOSE i \in D : names[i] = x]
      /\ D = DOMAIN values /\ \A i \in D : values[i] \in Value
  BY DEF Binding
<1>2. \A i, j \in D : names[i] = names[j] => i = j
  BY DEF IsInjective
<1>3. ASSUME NEW i \in D PROVE names[i] \in xs /\ b[names[i]] = values[i]
  <2>1. names[i] \in xs
    BY DEF ToSet
  <2>2. (CHOOSE j \in D : names[j] = names[i]) = i
    <3> HIDE DEF D
    <3> QED
      BY <1>2
  <2> QED
    BY <1>1, <2>1, <2>2
<1>4. \A x \in xs : \E i \in D : names[i] = x
  BY DEF ToSet
<1>5. \A x \in xs : b[x] \in Value
  <2> HIDE DEF b, xs, D
  <2> QED
    BY <1>1, <1>3, <1>4
<1>6. IsFiniteSet(D)
  BY OccurrencesType
<1>7. Renames(m, D, xs, values, b)
  <2> HIDE DEF b, xs, D
  <2> QED
    BY <1>2, <1>3, <1>4 DEF Renames
<1>8. \A c : Count(values, D, c) = Count(b, xs, c)
  <2> HIDE DEF b, xs, D, m
  <2> QED
    BY <1>6, <1>7, CountMap
<1>9. \A c : Occurrences(values, c) = Count(values, D, c)
  BY <1>1 DEF Occurrences, Count
<1>10. IsFiniteSet(xs)
  <2>1. m \in [D -> xs] /\ \A x \in xs : \E i \in D : m[i] = x
    BY <1>7 DEF Renames
  <2> HIDE DEF m, D, xs
  <2>2. m \in Surjection(D, xs)
    BY <2>1 DEF Surjection
  <2> QED
    BY <1>6, <2>2, FS_Surjection
<1> QED
  BY <1>1, <1>3, <1>5, <1>8, <1>9, <1>10

(* The prologue of a function: the references to the arguments belong to the *)
(* variables that the body uses, and are dropped otherwise.                  *)
LEMMA Prologue ==
    ASSUME NEW f \in DOMAIN Defs, NEW values \in Seq(Value), Len(values) = Arity(f)
    PROVE  LET body == Defs[f].body
               locals == Binding(Defs[f].params, values)
               used == FreeVariables(body)
               removed == ValuesOf(ToSet(Defs[f].params) \ used, locals)
               env == Run(body, locals, used, NoReuse, TRUE)
           IN  /\ removed \in Seq(Value)
               /\ IsEnv(env) /\ EnvOK(env) /\ Needs(env) \ env.owned = {} /\ SoloCells(env) = {}
               /\ \A c : /\ InFrame(env, c) \in Nat /\ Occurrences(removed, c) \in Nat
                         /\ Occurrences(values, c) = InFrame(env, c) + Occurrences(removed, c)
<1> DEFINE params == Defs[f].params
           body == Defs[f].body
           locals == Binding(params, values)
           used == FreeVariables(body)
           rest == ToSet(params) \ used
           removed == ValuesOf(rest, locals)
           env == Run(body, locals, used, NoReuse, TRUE)
<1>1. /\ params \in Seq(STRING) /\ IsInjective(params) /\ used \subseteq ToSet(params)
      /\ body \in Term /\ Len(values) = Len(params)
  BY ProgramAssumption DEF Arity
<1>2. /\ DOMAIN locals = ToSet(params) /\ IsFiniteSet(ToSet(params))
      /\ \A x \in ToSet(params) : locals[x] \in Value
      /\ \A c : Occurrences(values, c) = Count(locals, ToSet(params), c)
  <2> HIDE DEF params
  <2> QED
    BY <1>1, BindingCount
<1>3. IsFiniteSet(used) /\ IsFiniteSet(rest) /\ used \cup rest = ToSet(params) /\ used \cap rest = {}
  <2>1. rest \subseteq ToSet(params) /\ used \cup rest = ToSet(params) /\ used \cap rest = {}
    BY <1>1
  <2> HIDE DEF rest, used, params
  <2> QED
    BY <1>1, <1>2, <2>1, FS_Subset
<1>4. removed \in Seq(Value) /\ \A c : Occurrences(removed, c) = Count(locals, rest, c)
  <2>1. \A x \in rest : locals[x] \in Value
    BY <1>2
  <2> HIDE DEF rest, locals
  <2> QED
    BY <1>3, <2>1, ValuesOfCount
<1>5. /\ env.kind = "run" /\ env.term = body /\ env.locals = locals /\ env.owned = used
      /\ env.reuse = NoReuse /\ env.tail = TRUE /\ DOMAIN env.reuse = {}
  BY DEF Run, NoReuse
<1>6. IsEnv(env) /\ Needs(env) = used
  BY <1>5 DEF IsEnv, Needs
<1>7. EnvOK(env)
  <2> HIDE DEF env, used, locals, params, body
  <2> QED
    BY <1>1, <1>2, <1>5, <1>6 DEF EnvOK
<1>8. SoloCells(env) = {}
  <2> HIDE DEF env
  <2> QED
    BY <1>5, <1>6 DEF SoloCells
<1>9. ASSUME NEW c
      PROVE  /\ InFrame(env, c) \in Nat /\ Occurrences(removed, c) \in Nat
             /\ Occurrences(values, c) = InFrame(env, c) + Occurrences(removed, c)
  <2>1. IsFiniteSet(DOMAIN env.reuse)
    BY <1>5, FS_EmptySet
  <2>2. InFrame(env, c) = Count(locals, used, c) + Count(env.reuse, DOMAIN env.reuse, c)
        /\ InFrame(env, c) \in Nat
    <3>1. IsEnv(env) /\ IsFiniteSet(env.owned) /\ env.owned = used /\ env.locals = locals
      BY <1>3, <1>5, <1>6
    <3> HIDE DEF env, used, locals
    <3> QED
      BY <2>1, <3>1, EnvPlaces
  <2>3. Count(env.reuse, DOMAIN env.reuse, c) = 0
    <3> HIDE DEF env
    <3> QED
      BY <1>5, <2>1, CountType
  <2>4. Count(locals, ToSet(params), c) = Count(locals, used, c) + Count(locals, rest, c)
        /\ Count(locals, used, c) \in Nat /\ Count(locals, rest, c) \in Nat
    <3> HIDE DEF used, rest, params, locals
    <3>1. Count(locals, used \cup rest, c) = Count(locals, used, c) + Count(locals, rest, c)
      BY <1>3, CountSplit
    <3> QED
      BY <1>3, <3>1, CountType
  <2> HIDE DEF env, used, rest, params, locals, removed
  <2> QED
    BY <1>2, <1>4, <2>2, <2>3, <2>4
<1> HIDE DEF env, removed, used, rest, locals
<1> QED
  BY <1>4, <1>5, <1>6, <1>7, <1>8, <1>9 DEF env, removed, used, rest, locals

(***************************************************************************)
(* Steps in general                                                        *)
(***************************************************************************)
(* The environment of the node that runs.                                    *)
LEMMA NowEnv ==
    ASSUME IInv, now.kind = "run"
    PROVE  /\ EnvOK(now) /\ IsEnv(now) /\ Needs(now) = FreeVariables(now.term)
           /\ now.term \in Term /\ WellFormed(now.term) /\ Subterms(now.term) \subseteq Term
           /\ IsFiniteSet(now.owned) /\ IsFiniteSet(DOMAIN now.reuse)
           /\ Solo(heap, now) /\ SoloCells(now) \subseteq Cell
           /\ now.tail => stack # <<>> /\ Last(stack).kind = "trampoline"
           /\ \A c : /\ InFrame(now, c) = Count(now.locals, now.owned, c)
                                          + Count(now.reuse, DOMAIN now.reuse, c)
                     /\ Count(now.locals, now.owned, c) \in Nat
                     /\ Count(now.reuse, DOMAIN now.reuse, c) \in Nat
<1>1. /\ Len(stack) + 1 \in DOMAIN Frames /\ Frames[Len(stack) + 1] = now
      /\ Len(stack) \in Nat /\ \A i \in 1..Len(stack) : Frames[i] = stack[i]
  BY FramesShape DEF IInv
<1>2. FrameOK(Frames, Len(stack) + 1) /\ Solo(heap, now) /\ IsEnv(now)
  BY <1>1 DEF IInv, FramesOK, IsEnv
<1>3. EnvOK(now) /\ (now.tail => Len(stack) + 1 > 1 /\ Frames[Len(stack) + 1 - 1].kind = "trampoline")
  BY <1>1, <1>2 DEF FrameOK
<1>4. Needs(now) = FreeVariables(now.term)
  BY DEF Needs
<1>5. now.term \in Term /\ WellFormed(now.term) /\ Subterms(now.term) \subseteq Term
  BY <1>3, TermOK DEF EnvOK
<1>6. IsFiniteSet(now.owned) /\ IsFiniteSet(DOMAIN now.reuse)
  BY <1>3, EnvFinite
<1>7. now.tail => stack # <<>> /\ Last(stack).kind = "trampoline"
  <2> SUFFICES ASSUME now.tail PROVE stack # <<>> /\ Last(stack).kind = "trampoline"
    OBVIOUS
  <2>1. Len(stack) \in 1..Len(stack) /\ Frames[Len(stack)].kind = "trampoline"
    BY <1>1, <1>3
  <2>2. stack[Len(stack)].kind = "trampoline"
    BY <1>1, <2>1
  <2>3. stack # <<>>
    BY <2>1
  <2> QED
    BY <2>2, <2>3 DEF Last
<1>8. \A c : /\ InFrame(now, c) = Count(now.locals, now.owned, c)
                                  + Count(now.reuse, DOMAIN now.reuse, c)
             /\ Count(now.locals, now.owned, c) \in Nat
             /\ Count(now.reuse, DOMAIN now.reuse, c) \in Nat
  BY <1>2, <1>6, EnvPlaces, CountType
<1>9. SoloCells(now) \subseteq Cell
  BY <1>2, <1>3 DEF SoloCells, EnvOK, Value
<1> QED
  BY <1>2, <1>3, <1>4, <1>5, <1>6, <1>7, <1>8, <1>9

(* The cells that a frame has for itself.                                    *)
LEMMA SoloIn ==
    ASSUME IInv, NEW i \in 1..Len(stack), NEW e \in SoloCells(stack[i])
    PROVE  /\ e \in Cell /\ ~Referred(e) /\ heap[e].kind \in {"token", "running"}
           /\ heap[e].rc = 1 /\ e \notin start.shared
           /\ e \notin SoloCells(now)
           /\ \A j \in 1..Len(stack) : e \in SoloCells(stack[j]) => j = i
<1>1. /\ i \in DOMAIN Frames /\ Frames[i] = stack[i] /\ Len(stack) + 1 \in DOMAIN Frames
      /\ Frames[Len(stack) + 1] = now /\ i # Len(stack) + 1
      /\ \A j \in 1..Len(stack) : j \in DOMAIN Frames /\ Frames[j] = stack[j]
  BY FramesShape DEF IInv
<1>2. FrameOK(Frames, i)
  BY <1>1 DEF IInv, FramesOK
<1>3. e \in Cell
  BY <1>1, <1>2 DEF SoloCells, FrameOK, EnvOK, Value
<1> QED
  BY <1>1, <1>3, Apart

(* The frames of the next state: those that the step leaves, and new ones.    *)
LEMMA FramesNext ==
    ASSUME IInv, NEW m \in Nat, m <= Len(stack),
           stack' \in Seq(ToSet(stack')), m <= Len(stack'), \A j \in 1..m : stack'[j] = stack[j],
           \A j \in 1..m : \A e \in SoloCells(stack[j]) : heap'[e] = heap[e],
           \A j \in (m + 1)..(Len(stack') + 1) : FrameOK(Frames', j) /\ Solo(heap', Frames'[j])
    PROVE  FramesOK'
<1>1. /\ Len(stack) \in Nat /\ \A i \in 1..Len(stack) : Frames[i] = stack[i] /\ i \in DOMAIN Frames
  BY FramesShape DEF IInv
<1>2. /\ Len(stack') \in Nat /\ DOMAIN Frames' = 1..(Len(stack') + 1)
      /\ \A i \in 1..Len(stack') : Frames'[i] = stack'[i]
  BY DEF Frames
<1>3. Leaves(Frames, heap, Frames', heap', m)
  BY <1>1, <1>2 DEF IInv, FramesOK, Leaves
<1>4. \A j \in 1..m : FrameOK(Frames', j) /\ Solo(heap', Frames'[j])
  BY <1>3, LowerFrames
<1> QED
  <2>1. \A j \in DOMAIN Frames' : j \in 1..m \/ j \in (m + 1)..(Len(stack') + 1)
    BY <1>2
  <2> QED
    BY <1>4, <2>1 DEF FramesOK

(* A frame on top of the stack, and the stack without its last frame.         *)
LEMMA StackPush ==
    ASSUME ShapeOK, NEW f
    PROVE  LET t == Append(stack, f)
           IN  /\ t \in Seq(ToSet(t)) /\ t # <<>> /\ Last(t) = f
               /\ Len(t) = Len(stack) + 1 /\ t[Len(stack) + 1] = f
               /\ \A i \in 1..Len(stack) : t[i] = stack[i]
               /\ f.kind \in {"let", "trampoline"} =>
                     \A i \in DOMAIN t : t[i].kind \in {"let", "trampoline"}
<1> DEFINE t == Append(stack, f)
<1>1. /\ t \in Seq(ToSet(stack) \cup {f}) /\ t # <<>>
      /\ Len(t) = Len(stack) + 1 /\ t[Len(stack) + 1] = f /\ Len(stack) \in Nat
      /\ DOMAIN t = 1..(Len(stack) + 1) /\ DOMAIN stack = 1..Len(stack)
      /\ \A i \in 1..Len(stack) : t[i] = stack[i]
  BY DEF ShapeOK
<1>2. t \in Seq(ToSet(t))
  <2>1. \A i \in DOMAIN t : t[i] \in ToSet(t)
    BY DEF ToSet
  <2> HIDE DEF t
  <2> QED
    BY <1>1, <2>1
<1>3. f.kind \in {"let", "trampoline"} => \A i \in DOMAIN t : t[i].kind \in {"let", "trampoline"}
  <2> HIDE DEF t
  <2> QED
    BY <1>1 DEF ShapeOK
<1>4. Last(t) = f
  BY <1>1 DEF Last
<1> QED
  BY <1>1, <1>2, <1>3, <1>4

(* A frame less: what is left is the stack of calls below it, in its shape.  *)
LEMMA StackPop ==
    ASSUME ShapeOK, stack # <<>>
    PROVE  LET t == Front(stack)
           IN  /\ t \in Seq(ToSet(t)) /\ Len(t) = Len(stack) - 1 /\ Len(stack) \in Nat \ {0}
               /\ \A i \in 1..Len(t) : t[i] = stack[i]
               /\ stack = Append(t, Last(stack)) /\ Last(stack) = stack[Len(stack)]
               /\ \A i \in DOMAIN t : t[i].kind \in {"let", "trampoline"}
<1> DEFINE t == Front(stack)
<1>1. Len(stack) \in Nat \ {0} /\ DOMAIN stack = 1..Len(stack)
  BY DEF ShapeOK
<1>2. /\ t \in Seq(ToSet(stack)) /\ Len(t) = Len(stack) - 1 /\ DOMAIN t = 1..(Len(stack) - 1)
      /\ \A i \in 1..(Len(stack) - 1) : t[i] = stack[i]
  BY <1>1 DEF ShapeOK, Front
<1>3. t \in Seq(ToSet(t))
  <2>1. \A i \in DOMAIN t : t[i] \in ToSet(t)
    BY DEF ToSet
  <2> HIDE DEF t
  <2> QED
    BY <1>2, <2>1
<1>4. stack = Append(t, Last(stack)) /\ Last(stack) = stack[Len(stack)]
  <2> DEFINE z == stack[Len(stack)]
             u == Append(t, z)
  <2>1. Last(stack) = z
    BY DEF Last
  <2>2. z \in ToSet(stack) /\ stack \in Seq(ToSet(stack))
    BY <1>1 DEF ToSet, ShapeOK
  <2> HIDE DEF t, z
  <2>3. /\ u \in Seq(ToSet(stack)) /\ Len(u) = Len(t) + 1 /\ u[Len(t) + 1] = z
        /\ \A i \in 1..Len(t) : u[i] = t[i]
    BY <1>2, <2>2
  <2>4. Len(u) = Len(stack) /\ \A i \in 1..Len(stack) : u[i] = stack[i]
    <3> HIDE DEF u
    <3>1. PICK n \in Nat \ {0} : n = Len(stack) /\ Len(t) = n - 1
      BY <1>1, <1>2
    <3>2. n - 1 + 1 = n /\ \A i \in 1..n : i \in 1..(n - 1) \/ i = n
      OBVIOUS
    <3> QED
      BY <1>2, <2>3, <3>1, <3>2 DEF z
  <2>5. u = stack
    <3> HIDE DEF u
    <3>1. u = [i \in 1..Len(u) |-> u[i]] /\ stack = [i \in 1..Len(stack) |-> stack[i]]
      BY <2>2, <2>3
    <3> QED
      BY <2>4, <3>1
  <2> QED
    BY <2>1, <2>5 DEF z
<1>5. \A i \in DOMAIN t : t[i].kind \in {"let", "trampoline"}
  <2> HIDE DEF t
  <2> QED
    BY <1>1, <1>2 DEF ShapeOK
<1> QED
  BY <1>1, <1>2, <1>3, <1>4, <1>5

\* What a step has to leave alone: tokens and running closures of the frames
\* below, and the data that is held elsewhere.
Spares(g) ==
    /\ \A c \in Cell : heap[c].kind \in {"token", "running"} /\ ~Referred(c)
                       /\ c \notin SoloCells(now) => g[c] = heap[c]
    /\ \A c \in start.shared : Contents(g[c]) = Contents(heap[c])

(* The stack of a call that waits for its result in a trampoline of its own.  *)
LEMMA StackNext ==
    ASSUME IInv, stack' = stack \/ \E f : f.kind \in {"let", "trampoline"} /\ stack' = Append(stack, f)
    PROVE  /\ stack' \in Seq(ToSet(stack')) /\ Len(stack) \in Nat /\ Len(stack) <= Len(stack')
           /\ \A i \in DOMAIN stack' : stack'[i].kind \in {"let", "trampoline"}
           /\ \A j \in 1..Len(stack) : stack'[j] = stack[j]
           /\ DOMAIN Frames' = 1..(Len(stack') + 1) /\ Frames'[Len(stack') + 1] = now'
           /\ \A j \in 1..Len(stack') : Frames'[j] = stack'[j]
           /\ stack' # stack => /\ Len(stack') = Len(stack) + 1 /\ stack' # <<>>
                                /\ stack' = Append(stack, stack'[Len(stack')])
                                /\ Last(stack') = stack'[Len(stack')]
<1>1. ShapeOK
  BY DEF IInv
<1>2. CASE stack' = stack
  <2>1. Len(stack) \in Nat /\ stack \in Seq(ToSet(stack))
        /\ \A i \in DOMAIN stack : stack[i].kind \in {"let", "trampoline"}
    BY <1>1 DEF ShapeOK
  <2> QED
    BY <1>2, <2>1 DEF Frames
<1>3. CASE \E f : f.kind \in {"let", "trampoline"} /\ stack' = Append(stack, f)
  <2>1. PICK f : f.kind \in {"let", "trampoline"} /\ stack' = Append(stack, f)
    BY <1>3
  <2>2. Len(stack) \in Nat
    BY <1>1 DEF ShapeOK
  <2>3. /\ stack' \in Seq(ToSet(stack')) /\ stack' # <<>> /\ Last(stack') = f
        /\ Len(stack') = Len(stack) + 1 /\ stack'[Len(stack) + 1] = f
        /\ \A i \in 1..Len(stack) : stack'[i] = stack[i]
        /\ \A i \in DOMAIN stack' : stack'[i].kind \in {"let", "trampoline"}
    BY <1>1, <2>1, StackPush
  <2>4. DOMAIN Frames' = 1..(Len(stack') + 1) /\ Frames'[Len(stack') + 1] = now'
        /\ \A j \in 1..Len(stack') : Frames'[j] = stack'[j]
    BY <2>3 DEF Frames
  <2> QED
    BY <2>1, <2>2, <2>3, <2>4
<1> QED
  BY <1>2, <1>3

(* The references of the next state, if the frames are as they should be.     *)
LEMMA RootsNext ==
    ASSUME FramesOK', stack' \in Seq(ToSet(stack')), start' = start, NEW c
    PROVE  /\ Roots(c)' = start.outside[c] + (Below(stack', c) + InFrame(now', c))
                          + Occurrences(drops', c) + lost'[c]
           /\ Below(stack', c) \in Nat /\ InFrame(now', c) \in Nat
<1>1. \A i \in DOMAIN Append(stack', now') : FrameOK(Append(stack', now'), i)
  BY DEF FramesOK, Frames
<1>2. /\ Below(stack', c) \in Nat /\ InFrame(now', c) \in Nat
      /\ Cardinality(PlacesInFrames(Append(stack', now'), c)) = Below(stack', c) + InFrame(now', c)
  BY <1>1, FramesSum
<1> QED
  BY <1>2 DEF Roots, Frames

(* A step at the end of which nothing has changed but the heap and the stack   *)
(* above the frames that were there.                                         *)
LEMMA NodeStep ==
    ASSUME IInv,
           stack' = stack \/ \E f : f.kind \in {"let", "trampoline"} /\ stack' = Append(stack, f),
           Spares(heap'), start' = start, drops' \in Seq(Value), lost' \in [Cell -> Nat],
           now'.kind \in {"run", "return", "store"},
           \A j \in (Len(stack) + 1)..(Len(stack') + 1) : FrameOK(Frames', j) /\ Solo(heap', Frames'[j]),
           FullOK', StoreOK',
           NEW k, Ledger(heap', k),
           \A c \in Cell : k[c] = start.outside[c] + (Below(stack', c) + InFrame(now', c))
                                  + Occurrences(drops', c) + lost'[c]
    PROVE  IInv'
<1>1. ShapeOK'
  BY StackNext DEF IInv, ShapeOK
<1>2. FramesOK'
  <2>1. \A j \in 1..Len(stack) : \A e \in SoloCells(stack[j]) : heap'[e] = heap[e]
    BY SoloIn DEF Spares
  <2>2. /\ stack' \in Seq(ToSet(stack')) /\ Len(stack) \in Nat /\ Len(stack) <= Len(stack')
        /\ \A j \in 1..Len(stack) : stack'[j] = stack[j]
    BY StackNext
  <2> DEFINE m == Len(stack)
  <2>3. /\ m \in Nat /\ m <= Len(stack) /\ m <= Len(stack')
        /\ \A j \in 1..m : stack'[j] = stack[j]
        /\ \A j \in 1..m : \A e \in SoloCells(stack[j]) : heap'[e] = heap[e]
        /\ \A j \in (m + 1)..(Len(stack') + 1) : FrameOK(Frames', j) /\ Solo(heap', Frames'[j])
    BY <2>1, <2>2
  <2> HIDE DEF m
  <2> QED
    BY <2>2, <2>3, FramesNext
<1>3. HeapOK(heap')
  BY DEF Ledger
<1>4. Exact'
  <2>1. \A c \in Cell : k[c] = Roots(c)'
    BY <1>1, <1>2, RootsNext DEF ShapeOK
  <2>2. \A c \in Cell : heap'[c].rc # RcMax => heap'[c].rc = k[c] + InHeap(heap', c)
    BY DEF Ledger
  <2> QED
    BY <2>1, <2>2 DEF Exact
<1>5. Intact'
  BY DEF IInv, Intact, Spares
<1> QED
  BY <1>1, <1>2, <1>3, <1>4, <1>5 DEF IInv

(* A node that gives a value.                                                *)
LEMMA ReturnStep ==
    ASSUME IInv, NEW v \in Value, now' = Return(v),
           stack' = stack \/ stack' = Append(stack, Trampoline(Null)),
           Spares(heap'), start' = start, drops' \in Seq(Value), lost' \in [Cell -> Nat],
           \A c \in Cell : IsFull(heap'[c]) =>
              heap'[c].rc = 1 /\ drops' = <<>> /\ v = c
              /\ stack' # <<>> /\ Last(stack').kind = "trampoline",
           NEW k, Ledger(heap', k),
           \A c \in Cell : k[c] = start.outside[c] + Below(stack, c) + One(v, c)
                                  + Occurrences(drops', c) + lost'[c]
    PROVE  IInv'
<1>1. Trampoline(Null).kind = "trampoline" /\ Trampoline(Null).clo = Null
  BY DEF Trampoline
<1>2. stack' = stack \/ \E f : f.kind \in {"let", "trampoline"} /\ stack' = Append(stack, f)
  BY <1>1
<1>3. now'.kind = "return" /\ now'.value = v
  BY DEF Return
<1>4. \A j \in (Len(stack) + 1)..(Len(stack') + 1) : FrameOK(Frames', j) /\ Solo(heap', Frames'[j])
  <2> SUFFICES ASSUME NEW j \in (Len(stack) + 1)..(Len(stack') + 1)
               PROVE  FrameOK(Frames', j) /\ Solo(heap', Frames'[j])
    OBVIOUS
  <2>1. Frames'[j] = now' \/ Frames'[j] = Trampoline(Null)
    <3>1. /\ Len(stack) \in Nat /\ Frames'[Len(stack') + 1] = now'
          /\ stack' # stack => Len(stack') = Len(stack) + 1
          /\ \A i \in 1..Len(stack') : Frames'[i] = stack'[i]
      BY <1>2, StackNext
    <3>2. CASE stack' = stack
      BY <3>1, <3>2
    <3>3. CASE stack' # stack
      <4>1. stack'[Len(stack) + 1] = Trampoline(Null)
        BY <3>3, StackPush DEF IInv
      <4>2. j = Len(stack') + 1 \/ (j = Len(stack) + 1 /\ j \in 1..Len(stack'))
        BY <3>1, <3>3
      <4> QED
        BY <3>1, <4>1, <4>2
    <3> QED
      BY <3>2, <3>3
  <2>2. Null \in Value
    BY DEF Value
  <2>3. CASE Frames'[j] = now'
    BY <1>3, <2>3 DEF FrameOK, IsEnv, Solo, SoloCells
  <2>4. CASE Frames'[j] = Trampoline(Null)
    BY <1>1, <2>2, <2>4 DEF FrameOK, IsEnv, Solo, SoloCells
  <2> QED
    BY <2>1, <2>3, <2>4
<1>5. FullOK'
  BY <1>3 DEF FullOK
<1>6. StoreOK'
  BY <1>3 DEF StoreOK
<1>7. \A c \in Cell : k[c] = start.outside[c] + (Below(stack', c) + InFrame(now', c))
                                  + Occurrences(drops', c) + lost'[c]
  <2> SUFFICES ASSUME NEW c \in Cell
               PROVE  k[c] = start.outside[c] + (Below(stack', c) + InFrame(now', c))
                             + Occurrences(drops', c) + lost'[c]
    OBVIOUS
  <2>1. InFrame(now', c) = One(v, c)
    BY <1>3, ValuePlaces DEF IsEnv
  <2>2. Below(stack', c) = Below(stack, c) /\ Below(stack, c) \in Nat
    <3>1. Below(stack, c) \in Nat
      BY RootsSum
    <3>2. CASE stack' = Append(stack, Trampoline(Null))
      <4>1. /\ \A i \in DOMAIN stack : IsFiniteSet(PlacesIn(stack[i], c))
            /\ IsFiniteSet(PlacesIn(Trampoline(Null), c))
            /\ InFrame(Trampoline(Null), c) = One(Null, c)
        <5>1. \A i \in DOMAIN stack : i \in DOMAIN Frames /\ Frames[i] = stack[i]
          BY FramesShape DEF IInv
        <5> QED
          BY <1>1, <5>1, FrameFinite, ValuePlaces DEF IInv, FramesOK, IsEnv
      <4>2. stack \in Seq(ToSet(stack))
        BY DEF IInv, ShapeOK
      <4>3. Below(stack', c) = Below(stack, c) + One(Null, c)
        BY <3>2, <4>1, <4>2, FramesAppend
      <4>4. One(Null, c) = 0
        BY DEF One, Null, Cell
      <4> QED
        BY <3>1, <4>3, <4>4
    <3> QED
      BY <3>1, <3>2
  <2>3. start.outside[c] \in Nat /\ One(v, c) \in Nat /\ Occurrences(drops', c) \in Nat /\ lost'[c] \in Nat
    BY RootsSum, OccurrencesType DEF One
  <2>4. k[c] = start.outside[c] + Below(stack, c) + One(v, c) + Occurrences(drops', c) + lost'[c]
    OBVIOUS
  <2> QED
    BY <2>1, <2>2, <2>3, <2>4
<1> QED
  BY <1>2, <1>3, <1>4, <1>5, <1>6, <1>7, NodeStep

(***************************************************************************)
(* The nodes                                                               *)
(***************************************************************************)
\* What it means to pass args on, from a heap with ledger n: k, afterwards.
Passes(h, n, args, k) ==
    LET g == PassArgs(h, now, args)
        moved == now.owned \cap ToSet(args)
    IN  /\ Locals(args) \in Seq(Value) /\ Len(Locals(args)) = Len(args)
        /\ \A i \in DOMAIN args : /\ Locals(args)[i] = now.locals[args[i]]
                                  /\ Locals(args)[i] = Null \/ Referred(Locals(args)[i])
        /\ SameContents(heap, g)
        /\ \A c \in Cell : ~Referred(c) => g[c] = h[c]
        /\ Ledger(g, k)
        /\ \A c \in Cell :
             /\ k[c] = n[c] + Occurrences(Locals(args), c) - Count(now.locals, moved, c)
             /\ Occurrences(Locals(args), c) \in Nat /\ Count(now.locals, moved, c) \in Nat

(* avarsToC: the values are referred to, so that new references may be taken. *)
LEMMA PassNow ==
    ASSUME IInv, now.kind = "run", NEW V, NEW args \in Seq(V),
           ToSet(args) \subseteq FreeVariables(now.term),
           NEW h, NEW n, Ledger(h, n), SameContents(heap, h)
    PROVE  \E k : Passes(h, n, args, k)
<1> DEFINE values == Locals(args)
           copies == Restrict(values, DOMAIN args \ Moved(now, args))
           g == PassArgs(h, now, args)
           moved == now.owned \cap ToSet(args)
           k == [c \in Cell |-> n[c] + Occurrences(copies, c)]
<1>1. /\ DOMAIN values = DOMAIN args /\ \A i \in DOMAIN args : values[i] = now.locals[args[i]]
      /\ values = Values(args, now.locals) /\ g = NewReferences(h, copies)
  BY DEF Locals, Values, PassArgs
<1>2. \A i \in DOMAIN args : values[i] \in Value /\ (values[i] = Null \/ Referred(values[i]))
  <2>1. \A i \in DOMAIN args : args[i] \in FreeVariables(now.term)
    BY DEF ToSet
  <2> HIDE DEF values
  <2> QED
    BY <1>1, <2>1, ReadsReferred
<1>3. values \in Seq(Value) /\ Len(values) = Len(args)
  <2>1. values = [i \in 1..Len(args) |-> now.locals[args[i]]] /\ Len(args) \in Nat
    BY DEF Locals, Values
  <2>2. \A i \in 1..Len(args) : now.locals[args[i]] \in Value
    BY <1>1, <1>2
  <2> QED
    BY <2>1, <2>2
<1>4. \A i \in DOMAIN args : Live(h, values[i])
  <2> SUFFICES ASSUME NEW i \in DOMAIN args PROVE Live(h, values[i])
    OBVIOUS
  <2>1. Live(heap, values[i])
    <3> HIDE DEF values
    <3> QED
      BY <1>2, ReferredLive
  <2> HIDE DEF values
  <2> QED
    BY <2>1 DEF Live, SameContents, Contents
<1>5. /\ DOMAIN copies \subseteq DOMAIN args /\ IsFiniteSet(DOMAIN copies)
      /\ \A i \in DOMAIN copies : copies[i] = values[i]
  <2>1. DOMAIN copies \subseteq DOMAIN args /\ \A i \in DOMAIN copies : copies[i] = values[i]
    BY DEF Restrict
  <2>2. IsFiniteSet(DOMAIN args)
    BY OccurrencesType
  <2> HIDE DEF copies
  <2> QED
    BY <2>1, <2>2, FS_Subset
<1>6. /\ Ledger(g, k) /\ SameContents(h, g)
      /\ \A c \in Cell : (\A i \in DOMAIN copies : copies[i] # c) => g[c] = h[c]
  <2>1. \A i \in DOMAIN copies : Live(h, copies[i])
    BY <1>4, <1>5
  <2> HIDE DEF copies, g
  <2>2. /\ Ledger(NewReferences(h, copies), k) /\ SameContents(h, NewReferences(h, copies))
        /\ \A c \in Cell : (\A i \in DOMAIN copies : copies[i] # c)
                           => NewReferences(h, copies)[c] = h[c]
    BY <1>5, <2>1, RaiseLedger
  <2> QED
    BY <1>1, <2>2
<1>7. ASSUME NEW c
      PROVE  /\ Occurrences(copies, c) \in Nat /\ Count(now.locals, moved, c) \in Nat
             /\ Occurrences(values, c) = Occurrences(copies, c) + Count(now.locals, moved, c)
             /\ Occurrences(values, c) \in Nat
  <2>1. IsFiniteSet(now.owned)
    BY NowEnv
  <2>2. Occurrences(values, c) \in Nat
    BY <1>3, OccurrencesType
  <2> QED
    BY <1>1, <2>1, <2>2, MovedCount
<1>8. \A c \in Cell : k[c] = n[c] + Occurrences(values, c) - Count(now.locals, moved, c)
  <2> SUFFICES ASSUME NEW c \in Cell
               PROVE  n[c] + Occurrences(copies, c)
                        = n[c] + Occurrences(values, c) - Count(now.locals, moved, c)
    OBVIOUS
  <2>1. n[c] \in Int
    BY DEF Ledger
  <2> HIDE DEF copies, values, moved
  <2> QED
    BY <1>7, <2>1
<1>9. SameContents(heap, g)
  BY <1>6 DEF SameContents
<1>10. \A c \in Cell : ~Referred(c) => g[c] = h[c]
  <2> SUFFICES ASSUME NEW c \in Cell, ~Referred(c) PROVE g[c] = h[c]
    OBVIOUS
  <2>1. \A i \in DOMAIN copies : copies[i] # c
    <3>1. Null \notin Cell
      BY DEF Null, Cell
    <3> HIDE DEF copies, values
    <3> QED
      BY <1>2, <1>5, <3>1
  <2> QED
    BY <1>6, <2>1
<1> HIDE DEF g, values, k, moved
<1> QED
  <2>1. Passes(h, n, args, k)
    BY <1>1, <1>2, <1>3, <1>6, <1>7, <1>8, <1>9, <1>10 DEF Passes, values, g, moved
  <2> QED
    BY <2>1

(* The references when a node runs.                                          *)
LEMMA NodeRoots ==
    ASSUME IInv, drops = <<>>, now.kind = "run", NEW c \in Cell
    PROVE  /\ start.outside[c] \in Nat /\ Below(stack, c) \in Nat /\ lost[c] \in Nat
           /\ Count(now.locals, now.owned, c) \in Nat
           /\ Count(now.reuse, DOMAIN now.reuse, c) \in Nat
           /\ Roots(c) = start.outside[c] + Below(stack, c) + Count(now.locals, now.owned, c)
                         + Count(now.reuse, DOMAIN now.reuse, c) + lost[c]
           /\ Occurrences(drops, c) = 0
           /\ UsedConstructors(now.term) = {} => Count(now.reuse, DOMAIN now.reuse, c) = 0
<1>1. /\ start.outside[c] \in Nat /\ Below(stack, c) \in Nat /\ InFrame(now, c) \in Nat
      /\ lost[c] \in Nat
      /\ Roots(c) = start.outside[c] + Below(stack, c) + InFrame(now, c)
                    + Occurrences(drops, c) + lost[c]
  BY RootsSum
<1>2. /\ InFrame(now, c) = Count(now.locals, now.owned, c) + Count(now.reuse, DOMAIN now.reuse, c)
      /\ Count(now.locals, now.owned, c) \in Nat /\ Count(now.reuse, DOMAIN now.reuse, c) \in Nat
  BY NowEnv
<1>3. Occurrences(drops, c) = 0
  BY OccurrencesSmall
<1>4. UsedConstructors(now.term) = {} => Count(now.reuse, DOMAIN now.reuse, c) = 0
  <2> SUFFICES ASSUME UsedConstructors(now.term) = {}
               PROVE  Count(now.reuse, DOMAIN now.reuse, c) = 0
    OBVIOUS
  <2>1. DOMAIN now.reuse = {}
    BY NowEnv DEF EnvOK
  <2>2. IsFiniteSet(DOMAIN now.reuse)
    BY <2>1, FS_EmptySet
  <2> QED
    BY <2>1, <2>2, CountType
<1> QED
  BY <1>1, <1>2, <1>3, <1>4

(* New references alone disturb nothing.                                     *)
LEMMA SparesRaised ==
    ASSUME IInv, NEW g, SameContents(heap, g), \A c \in Cell : ~Referred(c) => g[c] = heap[c]
    PROVE  /\ Spares(g)
           /\ now.kind # "return" => \A c \in Cell : ~IsFull(g[c])
<1>1. start.shared \subseteq Cell
  BY SharedHeld
<1>2. Spares(g)
  BY <1>1 DEF Spares, SameContents
<1>3. now.kind # "return" => \A c \in Cell : ~IsFull(g[c])
  BY NoFull DEF SameContents, Contents, IsFull
<1> QED
  BY <1>2, <1>3

(* A variable: what the node gives is the value of the variable.              *)
LEMMA AVStep ==
    ASSUME IInv, AV
    PROVE  IInv'
<1> DEFINE x == now.term.x
           v == now.locals[x]
           R == [c \in Cell |-> Roots(c)]
<1>1. /\ drops = <<>> /\ now.kind = "run" /\ now.term.op = "var"
      /\ heap' = PassArgs(heap, now, <<x>>) /\ now' = Return(v) /\ stack' = stack
      /\ drops' = <<>> /\ start' = start /\ lost' = lost
  BY DEF AV, Node, Yield, Pure
<1>2. /\ FreeVariables(now.term) = {x} /\ UsedConstructors(now.term) = {}
      /\ now.owned \subseteq {x}
  BY <1>1, NowEnv DEF WellFormed, EnvOK
<1>3. PICK a : a = <<x>>
  OBVIOUS
<1>4. /\ a \in Seq({x}) /\ ToSet(a) = {x} /\ Locals(a) = <<v>>
      /\ heap' = PassArgs(heap, now, a)
  BY <1>1, <1>3 DEF ToSet, Locals, Values
<1>5. PICK k : Passes(heap, R, a, k)
  <2>1. Ledger(heap, R) /\ SameContents(heap, heap)
    BY RootsSum DEF SameContents
  <2>2. ToSet(a) \subseteq FreeVariables(now.term)
    BY <1>2, <1>4
  <2> HIDE DEF R, x
  <2> QED
    BY <1>1, <1>4, <2>1, <2>2, PassNow
<1>6. v \in Value
  BY <1>1, <1>2, ReadsReferred
<1>7. Ledger(heap', k) /\ Spares(heap') /\ \A c \in Cell : ~IsFull(heap'[c])
  BY <1>1, <1>4, <1>5, SparesRaised DEF Passes
<1>8. ASSUME NEW c \in Cell
      PROVE  k[c] = start.outside[c] + Below(stack, c) + One(v, c)
                    + Occurrences(drops', c) + lost'[c]
  <2>1. Occurrences(<<v>>, c) = One(v, c) /\ Occurrences(drops', c) = 0 /\ One(v, c) \in Nat
    BY <1>1, OccurrencesSmall DEF One
  <2>2. now.owned \cap ToSet(a) = now.owned
    BY <1>2, <1>4
  <2>3. k[c] = Roots(c) + One(v, c) - Count(now.locals, now.owned, c)
    BY <1>4, <1>5, <2>1, <2>2 DEF Passes
  <2> HIDE DEF v
  <2> QED
    BY <1>1, <1>2, <2>1, <2>3, NodeRoots
<1>9. drops' \in Seq(Value) /\ lost' \in [Cell -> Nat]
  BY <1>1 DEF IInv, ShapeOK
<1> HIDE DEF v, R
<1> QED
  BY <1>1, <1>6, <1>7, <1>8, <1>9, ReturnStep

\* What a new cell may be given.
Buildable(kind, name, args) ==
    /\ kind \in {"con", "clo", "ref", "array"} /\ name \in Name /\ args \in Seq(Value)
    /\ kind = "clo" => name \in DOMAIN Defs /\ Len(args) <= Arity(name)
    /\ kind = "ref" => Len(args) = 1

\* What a step that builds a value does: k, afterwards.
Builds(h, n, kind, name, args, k) ==
    LET g == NewValue(h, kind, name, args)
    IN  /\ Fresh(h) = Fresh(heap) /\ Fresh(h) \in Cell
        /\ Spares(g) /\ Ledger(g, k)
        /\ \A c \in Cell : IsFull(g[c]) =>
              c = Fresh(h) /\ kind = "clo" /\ Len(args) = Arity(name) /\ g[c].rc = 1
        /\ \A c \in Cell : k[c] = n[c] + One(Fresh(h), c) - Occurrences(args, c)
                           /\ Occurrences(args, c) \in Nat

(* A new value disturbs nothing, either.                                     *)
LEMMA BuildNow ==
    ASSUME IInv, now.kind # "return", NEW h, NEW n, Ledger(h, n), SameContents(heap, h),
           \A c \in Cell : ~Referred(c) => h[c] = heap[c], Room(heap),
           NEW kind, NEW name, NEW args, Buildable(kind, name, args)
    PROVE  \E k : Builds(h, n, kind, name, args, k)
<1> DEFINE new == Fresh(h)
           g == NewValue(h, kind, name, args)
           k == [c \in Cell |-> n[c] + One(new, c) - Occurrences(args, c)]
<1>1. new = Fresh(heap) /\ Room(h)
  BY SameFresh
<1>2. new \in Cell /\ heap[new].kind = "free"
  BY <1>1, FreshCell
<1>3. Ledger(g, k) /\ (\A c \in Cell \ {new} : g[c] = h[c])
      /\ g[new] = [kind |-> kind, rc |-> 1, name |-> name, args |-> args]
  <2> HIDE DEF new, g
  <2>1. /\ kind \in {"con", "clo", "ref", "array"} /\ name \in Name /\ args \in Seq(Value)
        /\ kind = "clo" => name \in DOMAIN Defs /\ Len(args) <= Arity(name)
        /\ kind = "ref" => Len(args) = 1
    BY DEF Buildable
  <2> QED
    BY <1>1, <2>1, NewLedger DEF new, g
<1>4. Spares(g)
  <2>1. \A c \in start.shared : c \in Cell /\ heap[c].kind \in {"con", "clo"}
    BY SharedHeld
  <2> HIDE DEF g, new
  <2> QED
    BY <1>2, <1>3, <2>1 DEF Spares, SameContents
<1>5. \A c \in Cell : IsFull(g[c]) =>
         c = new /\ kind = "clo" /\ Len(args) = Arity(name) /\ g[c].rc = 1
  <2>1. \A c \in Cell : ~IsFull(h[c])
    BY NoFull DEF SameContents, Contents, IsFull
  <2> HIDE DEF g, new
  <2> QED
    BY <1>3, <2>1 DEF IsFull
<1>6. \A c \in Cell : k[c] = n[c] + One(new, c) - Occurrences(args, c)
                      /\ Occurrences(args, c) \in Nat
  <2>1. args \in Seq(Value)
    BY DEF Buildable
  <2> QED
    BY <2>1, OccurrencesType
<1> HIDE DEF new, g, k
<1>7. Builds(h, n, kind, name, args, k)
  BY <1>1, <1>2, <1>3, <1>4, <1>5, <1>6 DEF Builds, new, g
<1> QED
  BY <1>7

(* A call that becomes a closure, or a closure that lacks arguments.          *)
LEMMA ClosureStep ==
    ASSUME IInv, drops = <<>>, now.kind = "run", now.term.op \in {"call", "under"},
           MakeClosure, start' = start, lost' = lost,
           stack' = stack \/ stack' = Append(stack, Trampoline(Null)),
           now.term.op = "call" => stack' # <<>> /\ Last(stack').kind = "trampoline"
    PROVE  IInv'
<1> DEFINE args == now.term.args
           fn == now.term.fn
           passed == PassArgs(heap, now, args)
           new == Fresh(passed)
           R == [c \in Cell |-> Roots(c)]
<1>1. /\ Room(heap) /\ heap' = NewValue(passed, "clo", fn, Locals(args)) /\ now' = Return(new)
      /\ drops' = <<>>
  BY DEF MakeClosure, Yield
<1>2. /\ args \in Seq(STRING) /\ ToSet(args) = FreeVariables(now.term)
      /\ UsedConstructors(now.term) = {} /\ now.owned \subseteq ToSet(args)
      /\ fn \in DOMAIN Defs /\ fn \in Name /\ Len(args) <= Arity(fn)
      /\ now.term.op = "under" => Len(args) < Arity(fn)
  <2>1. WellFormed(now.term) /\ EnvOK(now) /\ Needs(now) = FreeVariables(now.term)
    BY NowEnv
  <2>2. /\ args \in Seq(STRING) /\ FreeVariables(now.term) = ToSet(args)
        /\ UsedConstructors(now.term) = {} /\ fn \in DOMAIN Defs
        /\ now.term.op = "call" => Len(args) = Arity(fn)
        /\ now.term.op = "under" => Len(args) < Arity(fn)
    BY <2>1 DEF WellFormed
  <2>3. fn \in Name /\ Defs[fn].params \in Seq(STRING)
    BY <2>2, ProgramAssumption
  <2>4. Arity(fn) \in Nat /\ Len(args) \in Nat
    BY <2>2, <2>3 DEF Arity
  <2> QED
    BY <2>1, <2>2, <2>3, <2>4 DEF EnvOK
<1>3. Ledger(heap, R) /\ SameContents(heap, heap)
  BY RootsSum DEF SameContents
<1>4. PICK k : Passes(heap, R, args, k)
  <2> HIDE DEF R, args
  <2> QED
    BY <1>2, <1>3, PassNow
<1>5. PICK m : Builds(passed, k, "clo", fn, Locals(args), m)
  <2>1. /\ Ledger(passed, k) /\ SameContents(heap, passed)
        /\ \A c \in Cell : ~Referred(c) => passed[c] = heap[c]
        /\ Locals(args) \in Seq(Value) /\ Len(Locals(args)) = Len(args)
    BY <1>4 DEF Passes
  <2>2. Buildable("clo", fn, Locals(args))
    BY <1>2, <2>1 DEF Buildable
  <2> HIDE DEF passed, args, fn
  <2> QED
    BY <1>1, <2>1, <2>2, BuildNow
<1>6. new \in Cell /\ Spares(heap') /\ Ledger(heap', m)
  BY <1>1, <1>5 DEF Builds
<1>7. \A c \in Cell : IsFull(heap'[c]) =>
         /\ heap'[c].rc = 1 /\ drops' = <<>> /\ new = c
         /\ stack' # <<>> /\ Last(stack').kind = "trampoline"
  <2>1. \A c \in Cell : IsFull(heap'[c]) =>
           c = new /\ Len(Locals(args)) = Arity(fn) /\ heap'[c].rc = 1
    BY <1>1, <1>5 DEF Builds
  <2>2. Len(Locals(args)) = Len(args)
    BY <1>4 DEF Passes
  <2>3. Len(args) = Arity(fn) => now.term.op = "call"
    BY <1>2
  <2> QED
    BY <1>1, <2>1, <2>2, <2>3
<1>8. ASSUME NEW c \in Cell
      PROVE  m[c] = start.outside[c] + Below(stack, c) + One(new, c)
                    + Occurrences(drops', c) + lost'[c]
  <2>1. now.owned \cap ToSet(args) = now.owned
    BY <1>2
  <2>2. /\ k[c] = Roots(c) + Occurrences(Locals(args), c) - Count(now.locals, now.owned, c)
        /\ Occurrences(Locals(args), c) \in Nat
    BY <1>4, <2>1 DEF Passes
  <2>3. m[c] = k[c] + One(new, c) - Occurrences(Locals(args), c)
    BY <1>5 DEF Builds
  <2>4. One(new, c) \in Nat /\ Occurrences(drops', c) = 0
    BY <1>1, OccurrencesSmall DEF One
  <2>5. PICK a \in Nat, b \in Nat, o \in Nat, l \in Nat :
           /\ a = start.outside[c] /\ b = Below(stack, c) /\ l = lost[c]
           /\ o = Count(now.locals, now.owned, c) /\ Roots(c) = a + b + o + 0 + l
    BY <1>2, NodeRoots
  <2> HIDE DEF new, args
  <2>6. m[c] = a + b + One(new, c) + 0 + l
    <3>1. PICK q \in Nat, r \in Nat : q = Occurrences(Locals(args), c) /\ r = One(new, c)
      BY <2>2, <2>4
    <3>2. k[c] = (a + b + o + 0 + l) + q - o /\ m[c] = k[c] + r - q
      BY <2>2, <2>3, <2>5, <3>1
    <3> QED
      BY <3>1, <3>2
  <2> QED
    BY <2>4, <2>5, <2>6
<1>9. drops' \in Seq(Value) /\ lost' \in [Cell -> Nat] /\ new \in Value
  BY <1>1, <1>6 DEF IInv, ShapeOK, Value
<1> HIDE DEF new, R
<1> QED
  BY <1>1, <1>6, <1>7, <1>8, <1>9, ReturnStep

(* AUnderApp.                                                                *)
LEMMA AUnderAppStep ==
    ASSUME IInv, AUnderApp
    PROVE  IInv'
BY ClosureStep DEF AUnderApp, Node, Pure

(* A frame more on the stack.                                                *)
LEMMA BelowPush ==
    ASSUME IInv, NEW f, NEW c, IsFiniteSet(PlacesIn(f, c))
    PROVE  /\ Below(stack, c) \in Nat /\ InFrame(f, c) \in Nat
           /\ Below(Append(stack, f), c) = Below(stack, c) + InFrame(f, c)
<1>1. \A i \in DOMAIN stack : IsFiniteSet(PlacesIn(stack[i], c))
  <2>1. \A i \in DOMAIN stack : i \in DOMAIN Frames /\ Frames[i] = stack[i]
    BY FramesShape DEF IInv
  <2> QED
    BY <2>1, FrameFinite DEF IInv, FramesOK
<1>2. stack \in Seq(ToSet(stack))
  BY DEF IInv, ShapeOK
<1> QED
  BY <1>1, <1>2, FramesAppend

(* A trampoline that has not run a closure yet refers to nothing.             *)
LEMMA EmptyTrampoline ==
    LET f == Trampoline(Null)
    IN  /\ f.kind = "trampoline" /\ f.clo = Null /\ ~IsEnv(f) /\ SoloCells(f) = {}
        /\ \A frames, i : frames[i] = f => FrameOK(frames, i)
        /\ \A h : Solo(h, f)
        /\ \A c \in Cell : IsFiniteSet(PlacesIn(f, c)) /\ InFrame(f, c) = 0
<1> DEFINE f == Trampoline(Null)
<1>1. f.kind = "trampoline" /\ f.clo = Null /\ ~IsEnv(f)
  BY DEF Trampoline, IsEnv
<1>2. SoloCells(f) = {}
  <2> HIDE DEF f
  <2> QED
    BY <1>1 DEF SoloCells
<1>3. \A frames, i : frames[i] = f => FrameOK(frames, i)
  <2> HIDE DEF f
  <2> QED
    BY <1>1 DEF FrameOK, Value, IsEnv
<1>4. \A h : Solo(h, f)
  <2> HIDE DEF f
  <2> QED
    BY <1>2 DEF Solo
<1>5. ASSUME NEW c \in Cell PROVE IsFiniteSet(PlacesIn(f, c)) /\ InFrame(f, c) = 0
  <2>1. One(Null, c) = 0
    BY DEF One, Null, Cell
  <2> HIDE DEF f
  <2> QED
    BY <1>1, <2>1, ValuePlaces
<1> HIDE DEF f
<1> QED
  BY <1>1, <1>2, <1>3, <1>4, <1>5 DEF f

(* AAppName: a closure for a trampoline, or the body of the function.         *)
LEMMA CallStep ==
    ASSUME IInv, Node("call"), Pure,
           Enter(PassArgs(heap, now, now.term.args), now.term.fn, Locals(now.term.args)),
           Wait(Trampoline(Null))
    PROVE  IInv'
<1> DEFINE args == now.term.args
           fn == now.term.fn
           values == Locals(args)
           R == [c \in Cell |-> Roots(c)]
           body == Defs[fn].body
           locals == Binding(Defs[fn].params, values)
           used == FreeVariables(body)
           removed == ValuesOf(ToSet(Defs[fn].params) \ used, locals)
           env == Run(body, locals, used, NoReuse, TRUE)
           n == Len(stack)
<1>1. /\ drops = <<>> /\ now.kind = "run" /\ now.term.op = "call"
      /\ heap' = PassArgs(heap, now, args) /\ now' = env /\ drops' = removed
      /\ start' = start /\ lost' = lost /\ stack' = Append(stack, Trampoline(Null))
  BY DEF Node, Pure, Enter, Wait
<1>2. /\ args \in Seq(STRING) /\ ToSet(args) = FreeVariables(now.term)
      /\ UsedConstructors(now.term) = {} /\ now.owned \subseteq ToSet(args)
      /\ fn \in DOMAIN Defs /\ Len(args) = Arity(fn)
  BY <1>1, NowEnv DEF WellFormed, EnvOK
<1>3. PICK k : Passes(heap, R, args, k)
  <2>1. Ledger(heap, R) /\ SameContents(heap, heap)
    BY RootsSum DEF SameContents
  <2> HIDE DEF R, args
  <2> QED
    BY <1>1, <1>2, <2>1, PassNow
<1>4. /\ values \in Seq(Value) /\ Len(values) = Arity(fn)
      /\ Ledger(heap', k) /\ Spares(heap') /\ \A c \in Cell : ~IsFull(heap'[c])
  <2>1. Ledger(heap', k) /\ SameContents(heap, heap') /\ \A c \in Cell : ~Referred(c) => heap'[c] = heap[c]
    BY <1>1, <1>3 DEF Passes
  <2>2. values \in Seq(Value) /\ Len(values) = Arity(fn)
    BY <1>2, <1>3 DEF Passes
  <2> QED
    BY <1>1, <2>1, <2>2, SparesRaised
<1>5. /\ removed \in Seq(Value)
      /\ IsEnv(env) /\ EnvOK(env) /\ Needs(env) \ env.owned = {} /\ SoloCells(env) = {}
      /\ \A c : /\ InFrame(env, c) \in Nat /\ Occurrences(removed, c) \in Nat
                /\ Occurrences(values, c) = InFrame(env, c) + Occurrences(removed, c)
  <2> HIDE DEF values, fn
  <2> QED
    BY <1>2, <1>4, Prologue
<1>6. env.kind = "run" /\ env.tail = TRUE
  BY DEF Run
<1>7. /\ n \in Nat /\ Len(stack') = n + 1 /\ Frames'[n + 1] = Trampoline(Null)
      /\ Frames'[n + 2] = env
  <2>1. Trampoline(Null).kind \in {"let", "trampoline"}
    BY EmptyTrampoline
  <2>2. \E f : f.kind \in {"let", "trampoline"} /\ stack' = Append(stack, f)
    BY <1>1, <2>1
  <2>3. /\ n \in Nat /\ Len(stack') = n + 1 /\ stack'[n + 1] = Trampoline(Null)
    BY <1>1, StackPush DEF IInv, ShapeOK
  <2>4. Frames'[Len(stack') + 1] = now' /\ \A j \in 1..Len(stack') : Frames'[j] = stack'[j]
    BY <2>2, StackNext
  <2> HIDE DEF env, n
  <2> QED
    BY <1>1, <2>3, <2>4
<1> HIDE DEF env, removed, values
<1>8. \A j \in (Len(stack) + 1)..(Len(stack') + 1) : FrameOK(Frames', j) /\ Solo(heap', Frames'[j])
  <2>1. FrameOK(Frames', n + 1) /\ Solo(heap', Frames'[n + 1])
    <3> HIDE DEF n
    <3> QED
      BY <1>7, EmptyTrampoline
  <2>2. FrameOK(Frames', n + 2)
    <3>1. n + 2 > 1 /\ (n + 2) - 1 = n + 1 /\ Frames'[n + 1].kind = "trampoline"
      BY <1>7, EmptyTrampoline
    <3> HIDE DEF n
    <3> QED
      BY <1>5, <1>6, <1>7, <3>1 DEF FrameOK
  <2>3. Solo(heap', Frames'[n + 2])
    BY <1>5, <1>7 DEF Solo
  <2>4. \A j \in (n + 1)..(n + 1 + 1) : j = n + 1 \/ j = n + 2
    BY <1>7
  <2> HIDE DEF n
  <2> QED
    BY <1>7, <2>1, <2>2, <2>3, <2>4 DEF n
<1>9. ASSUME NEW c \in Cell
      PROVE  k[c] = start.outside[c] + (Below(stack', c) + InFrame(now', c))
                    + Occurrences(drops', c) + lost'[c]
  <2>1. /\ k[c] = Roots(c) + Occurrences(values, c) - Count(now.locals, now.owned, c)
        /\ Occurrences(values, c) \in Nat
    <3>1. now.owned \cap ToSet(args) = now.owned
      BY <1>2
    <3> QED
      BY <1>3, <3>1 DEF Passes, values
  <2>2. Below(stack', c) = Below(stack, c)
    BY <1>1, EmptyTrampoline, BelowPush
  <2>3. PICK a \in Nat, b \in Nat, o \in Nat, l \in Nat :
           /\ a = start.outside[c] /\ b = Below(stack, c) /\ l = lost[c]
           /\ o = Count(now.locals, now.owned, c) /\ Roots(c) = a + b + o + 0 + l
    BY <1>1, <1>2, NodeRoots
  <2>4. PICK i \in Nat, r \in Nat : /\ i = InFrame(env, c) /\ r = Occurrences(removed, c)
                                    /\ Occurrences(values, c) = i + r
    BY <1>5
  <2>5. k[c] = (a + b + o + 0 + l) + (i + r) - o
    BY <2>1, <2>3, <2>4
  <2>6. /\ Below(stack', c) = b /\ InFrame(now', c) = i
        /\ Occurrences(drops', c) = r /\ lost'[c] = l
    BY <1>1, <2>2, <2>3, <2>4
  <2> HIDE DEF args, values, R, env, removed
  <2>7. k[c] = a + (b + i) + r + l
    BY <2>5
  <2> QED
    BY <2>3, <2>6, <2>7
<1>10. now'.kind = "run" /\ drops' \in Seq(Value) /\ lost' \in [Cell -> Nat]
  BY <1>1, <1>5, <1>6 DEF IInv, ShapeOK
<1>11. FullOK' /\ StoreOK'
  BY <1>4, <1>10 DEF FullOK, StoreOK
<1> QED
  <2>1. \E f : f.kind \in {"let", "trampoline"} /\ stack' = Append(stack, f)
    BY <1>1, EmptyTrampoline
  <2> QED
    BY <1>1, <1>4, <1>8, <1>9, <1>10, <1>11, <2>1, NodeStep

(* AAppName: a call, be it a closure for a trampoline or a call of the C     *)
(* function, passes a reference for each argument and no more.               *)
LEMMA AAppNameStep ==
    ASSUME IInv, AAppName
    PROVE  IInv'
<1>1. drops = <<>> /\ now.kind = "run" /\ now.term.op = "call" /\ start' = start /\ lost' = lost
  BY DEF AAppName, Node, Pure
<1>2. CASE now.tail /\ MakeClosure /\ UNCHANGED stack
  <2>1. stack # <<>> /\ Last(stack).kind = "trampoline"
    BY <1>1, <1>2, NowEnv
  <2> QED
    BY <1>1, <1>2, <2>1, ClosureStep
<1>3. CASE MakeClosure /\ Wait(Trampoline(Null))
  <2>1. stack' = Append(stack, Trampoline(Null))
    BY <1>3 DEF Wait
  <2>2. stack' # <<>> /\ Last(stack').kind = "trampoline"
    BY <2>1, StackPush, EmptyTrampoline DEF IInv
  <2> QED
    BY <1>1, <1>3, <2>1, <2>2, ClosureStep
<1>4. CASE /\ Enter(PassArgs(heap, now, now.term.args), now.term.fn, Locals(now.term.args))
           /\ Wait(Trampoline(Null))
  BY <1>4, CallStep DEF AAppName
<1> QED
  BY <1>2, <1>3, <1>4 DEF AAppName
\* kept and rest have the tokens of reuse between them.
Shares(reuse, kept, rest) ==
    /\ \A con \in DOMAIN kept : con \in DOMAIN reuse /\ kept[con] = reuse[con]
    /\ \A con \in DOMAIN rest : con \in DOMAIN reuse /\ rest[con] = reuse[con]
    /\ IsFiniteSet(DOMAIN kept) /\ IsFiniteSet(DOMAIN rest)
    /\ \A c : /\ Count(kept, DOMAIN kept, c) \in Nat /\ Count(rest, DOMAIN rest, c) \in Nat
              /\ Count(reuse, DOMAIN reuse, c)
                   = Count(kept, DOMAIN kept, c) + Count(rest, DOMAIN rest, c)

(* Tokens are shared out between the value of a let and its body, or between *)
(* the branch of a case and the references that it drops.                    *)
LEMMA ReuseSplit ==
    ASSUME NEW reuse, IsFiniteSet(DOMAIN reuse), NEW cons
    PROVE  Shares(reuse, Kept(reuse, cons), Without(reuse, cons))
<1> DEFINE kept == Kept(reuse, cons)
           rest == Without(reuse, cons)
           K == DOMAIN reuse \cap cons
           W == DOMAIN reuse \ cons
<1>1. /\ DOMAIN kept = K /\ \A con \in K : kept[con] = reuse[con]
      /\ DOMAIN rest = W /\ \A con \in W : rest[con] = reuse[con]
  BY DEF Kept, Without, Restrict
<1>2. IsFiniteSet(K) /\ IsFiniteSet(W) /\ K \cap W = {} /\ K \cup W = DOMAIN reuse
  BY FS_Intersection, FS_Difference
<1>3. ASSUME NEW c
      PROVE  /\ Count(kept, K, c) = Count(reuse, K, c) /\ Count(rest, W, c) = Count(reuse, W, c)
             /\ Count(reuse, DOMAIN reuse, c) = Count(reuse, K, c) + Count(reuse, W, c)
             /\ Count(reuse, K, c) \in Nat /\ Count(reuse, W, c) \in Nat
  <2> HIDE DEF kept, rest, K, W
  <2>1. Count(kept, K, c) = Count(reuse, K, c) /\ Count(rest, W, c) = Count(reuse, W, c)
    BY <1>1, CountSame
  <2>2. Count(reuse, K \cup W, c) = Count(reuse, K, c) + Count(reuse, W, c)
    BY <1>2, CountSplit
  <2>3. Count(reuse, K, c) \in Nat /\ Count(reuse, W, c) \in Nat
    BY <1>2, CountType
  <2> QED
    BY <1>2, <2>1, <2>2, <2>3
<1>4. K \subseteq DOMAIN reuse /\ W \subseteq DOMAIN reuse
  OBVIOUS
<1> HIDE DEF K, W, kept, rest
<1> QED
  <2>1. Shares(reuse, kept, rest)
    BY <1>1, <1>2, <1>3, <1>4 DEF Shares
  <2> QED
    BY <2>1 DEF kept, rest

(* ALet: the value and the body share out what the node owned.               *)
LEMMA LetSplit ==
    ASSUME IInv, Node("let"), NEW held, NEW used,
           held = BorrowedFor(now.term, now.owned), used = UsedConstructors(now.term.value)
    PROVE  LET t == now.term
               run == Run(t.value, now.locals, now.owned \ held, Kept(now.reuse, used), FALSE)
               frame == [kind |-> "let", x |-> t.x, term |-> t.body, locals |-> now.locals,
                         owned |-> held, reuse |-> Without(now.reuse, used), tail |-> now.tail]
           IN  /\ IsEnv(run) /\ EnvOK(run) /\ IsEnv(frame) /\ EnvOK(frame)
               /\ Needs(run) \subseteq FreeVariables(t) /\ Needs(frame) \subseteq FreeVariables(t)
               /\ SoloCells(run) \subseteq SoloCells(now) /\ SoloCells(frame) \subseteq SoloCells(now)
               /\ \A c : /\ InFrame(run, c) \in Nat /\ InFrame(frame, c) \in Nat
                         /\ InFrame(now, c) = InFrame(frame, c) + InFrame(run, c)
<1> DEFINE t == now.term
           run == Run(t.value, now.locals, now.owned \ held, Kept(now.reuse, used), FALSE)
           frame == [kind |-> "let", x |-> t.x, term |-> t.body, locals |-> now.locals,
                     owned |-> held, reuse |-> Without(now.reuse, used), tail |-> now.tail]
<1>1. /\ now.kind = "run" /\ t.op = "let" /\ t \in Term /\ EnvOK(now) /\ IsEnv(now)
      /\ t.value \in Term /\ t.body \in Term
      /\ FreeVariables(t) = FreeVariables(t.value) \cup (FreeVariables(t.body) \ {t.x})
      /\ UsedConstructors(t) = UsedConstructors(t.value) \cup UsedConstructors(t.body)
      /\ IsFiniteSet(now.owned) /\ IsFiniteSet(DOMAIN now.reuse)
  BY NowEnv DEF Node, WellFormed, Subterms
<1>2. /\ DOMAIN Kept(now.reuse, used) = DOMAIN now.reuse \cap used
      /\ DOMAIN Without(now.reuse, used) = DOMAIN now.reuse \ used
      /\ \A con \in DOMAIN Kept(now.reuse, used) : Kept(now.reuse, used)[con] = now.reuse[con]
      /\ \A con \in DOMAIN Without(now.reuse, used) : Without(now.reuse, used)[con] = now.reuse[con]
  BY DEF Kept, Without, Restrict
<1>3. /\ run.kind = "run" /\ run.term = t.value /\ run.locals = now.locals
      /\ run.owned = now.owned \ held /\ run.reuse = Kept(now.reuse, used) /\ run.tail = FALSE
      /\ frame.kind = "let" /\ frame.term = t.body /\ frame.locals = now.locals /\ frame.x = t.x
      /\ frame.owned = held /\ frame.reuse = Without(now.reuse, used) /\ frame.tail = now.tail
  BY DEF Run
<1>4. /\ held \subseteq now.owned /\ held = now.owned \cap (FreeVariables(t.body) \ {t.x})
      /\ Needs(run) = FreeVariables(t.value) /\ Needs(frame) = FreeVariables(t.body) \ {t.x}
      /\ Needs(now) = FreeVariables(t)
  BY <1>1, <1>3 DEF BorrowedFor, Needs
<1> HIDE DEF run, frame
<1>5. EnvOK(run) /\ IsEnv(run)
  <2>1. DOMAIN run.reuse \subseteq UsedConstructors(run.term) \ NullCons
    BY <1>1, <1>2, <1>3 DEF EnvOK
  <2>2. /\ run.term \in Term
        /\ Needs(run) \subseteq DOMAIN run.locals
        /\ \A x \in DOMAIN run.locals : run.locals[x] \in Value
    BY <1>1, <1>3, <1>4 DEF EnvOK
  <2>3. \A con \in DOMAIN run.reuse : run.reuse[con] \in Value
    BY <1>1, <1>2, <1>3 DEF EnvOK
  <2>4. run.tail \in BOOLEAN /\ IsEnv(run)
    BY <1>1, <1>3 DEF EnvOK, IsEnv
  <2>5. run.owned \subseteq Needs(run)
    BY <1>1, <1>3, <1>4 DEF EnvOK
  <2> QED
    BY <2>1, <2>2, <2>3, <2>4, <2>5 DEF EnvOK
<1>6. EnvOK(frame) /\ IsEnv(frame)
  <2>1. DOMAIN frame.reuse \subseteq UsedConstructors(frame.term) \ NullCons
    BY <1>1, <1>2, <1>3 DEF EnvOK
  <2>2. /\ frame.term \in Term /\ frame.owned \subseteq Needs(frame)
        /\ Needs(frame) \subseteq DOMAIN frame.locals
        /\ \A x \in DOMAIN frame.locals : frame.locals[x] \in Value
    BY <1>1, <1>3, <1>4 DEF EnvOK
  <2>3. \A con \in DOMAIN frame.reuse : frame.reuse[con] \in Value
    BY <1>1, <1>2, <1>3 DEF EnvOK
  <2>4. frame.tail \in BOOLEAN /\ IsEnv(frame)
    BY <1>1, <1>3 DEF EnvOK, IsEnv
  <2> QED
    BY <2>1, <2>2, <2>3, <2>4 DEF EnvOK
<1>7. SoloCells(run) \subseteq SoloCells(now) /\ SoloCells(frame) \subseteq SoloCells(now)
  BY <1>1, <1>2, <1>3, <1>5, <1>6 DEF SoloCells
<1>8. ASSUME NEW c
      PROVE  /\ InFrame(run, c) \in Nat /\ InFrame(frame, c) \in Nat
             /\ InFrame(now, c) = InFrame(frame, c) + InFrame(run, c)
  <2>1. /\ IsFiniteSet(held) /\ IsFiniteSet(now.owned \ held) /\ held \cap (now.owned \ held) = {}
        /\ held \cup (now.owned \ held) = now.owned
    <3> HIDE DEF t
    <3>1. held \in SUBSET now.owned /\ now.owned \ held \in SUBSET now.owned
      BY <1>4
    <3> QED
      BY <1>1, <3>1, FS_Subset
  <2>2. /\ Count(now.locals, now.owned, c)
             = Count(now.locals, held, c) + Count(now.locals, now.owned \ held, c)
        /\ Count(now.locals, held, c) \in Nat /\ Count(now.locals, now.owned \ held, c) \in Nat
    <3>1. Count(now.locals, held \cup (now.owned \ held), c)
            = Count(now.locals, held, c) + Count(now.locals, now.owned \ held, c)
      BY <2>1, CountSplit
    <3> QED
      BY <2>1, <3>1, CountType
  <2> DEFINE kept == Kept(now.reuse, used)
             rest == Without(now.reuse, used)
  <2>3. /\ IsFiniteSet(DOMAIN kept) /\ IsFiniteSet(DOMAIN rest)
        /\ Count(kept, DOMAIN kept, c) \in Nat /\ Count(rest, DOMAIN rest, c) \in Nat
        /\ Count(now.reuse, DOMAIN now.reuse, c)
             = Count(kept, DOMAIN kept, c) + Count(rest, DOMAIN rest, c)
    BY <1>1, ReuseSplit DEF Shares
  <2>4. /\ InFrame(run, c) = Count(now.locals, now.owned \ held, c)
                             + Count(Kept(now.reuse, used), DOMAIN Kept(now.reuse, used), c)
        /\ InFrame(frame, c) = Count(now.locals, held, c)
                               + Count(Without(now.reuse, used), DOMAIN Without(now.reuse, used), c)
        /\ InFrame(now, c) = Count(now.locals, now.owned, c)
                             + Count(now.reuse, DOMAIN now.reuse, c)
    BY <1>1, <1>3, <1>5, <1>6, <2>1, <2>3, EnvPlaces, ZenonT(40)
  <2> QED
    BY <2>2, <2>3, <2>4
<1>9. Needs(run) \subseteq FreeVariables(t) /\ Needs(frame) \subseteq FreeVariables(t)
  BY <1>1, <1>4
<1> QED
  BY <1>5, <1>6, <1>7, <1>8, <1>9 DEF run, frame

(* ALet: the value runs, the body waits.                                      *)
LEMMA ALetStep ==
    ASSUME IInv, ALet
    PROVE  IInv'
<1> DEFINE t == now.term
           used == UsedConstructors(t.value)
           held == BorrowedFor(t, now.owned)
           run == Run(t.value, now.locals, now.owned \ held, Kept(now.reuse, used), FALSE)
           frame == [kind |-> "let", x |-> t.x, term |-> t.body, locals |-> now.locals,
                     owned |-> held, reuse |-> Without(now.reuse, used), tail |-> now.tail]
           n == Len(stack)
<1>1. /\ Node("let") /\ now' = run /\ stack' = Append(stack, frame) /\ heap' = heap
      /\ drops = <<>> /\ drops' = drops /\ start' = start /\ lost' = lost /\ now.kind = "run"
  BY DEF ALet, Node, Wait, Pure
<1>2. /\ IsEnv(run) /\ EnvOK(run) /\ IsEnv(frame) /\ EnvOK(frame)
      /\ Needs(run) \subseteq FreeVariables(t) /\ Needs(frame) \subseteq FreeVariables(t)
      /\ SoloCells(run) \subseteq SoloCells(now) /\ SoloCells(frame) \subseteq SoloCells(now)
      /\ \A c : /\ InFrame(run, c) \in Nat /\ InFrame(frame, c) \in Nat
                /\ InFrame(now, c) = InFrame(frame, c) + InFrame(run, c)
  BY <1>1, LetSplit
<1>3. /\ run.kind = "run" /\ run.owned = now.owned \ held /\ run.locals = now.locals
      /\ run.tail = FALSE
      /\ frame.kind = "let" /\ frame.owned = held /\ frame.locals = now.locals
      /\ frame.tail = now.tail
  BY DEF Run
<1> HIDE DEF run, frame
<1>4. /\ n \in Nat /\ Len(stack') = n + 1
      /\ Frames'[n + 1] = frame /\ Frames'[n + 2] = run
      /\ \A j \in 1..n : Frames'[j] = Frames[j]
      /\ Frames[n + 1] = now /\ DOMAIN Frames = 1..(n + 1) /\ Len(Frames) = n + 1
  <2>1. \E f : f.kind \in {"let", "trampoline"} /\ stack' = Append(stack, f)
    BY <1>1, <1>3
  <2>2. n \in Nat /\ Len(stack') = n + 1 /\ stack'[n + 1] = frame
    BY <1>1, StackPush DEF IInv, ShapeOK
  <2>3. /\ Frames'[Len(stack') + 1] = now' /\ \A j \in 1..Len(stack') : Frames'[j] = stack'[j]
        /\ \A j \in 1..n : stack'[j] = stack[j]
    BY <2>1, StackNext
  <2>4. /\ Frames[n + 1] = now /\ DOMAIN Frames = 1..(n + 1) /\ \A j \in 1..n : Frames[j] = stack[j]
        /\ Len(Frames) = n + 1
    BY FramesShape DEF IInv
  <2> HIDE DEF n
  <2> QED
    BY <1>1, <2>2, <2>3, <2>4
<1> HIDE DEF n
<1>5. /\ \A x \in FreeVariables(t) \ now.owned : Lent(Frames', n + 1, now.locals[x])
      /\ now.tail => n + 1 > 1 /\ Frames'[n].kind = "trampoline"
  <2>1. FrameOK(Frames, n + 1) /\ Needs(now) = FreeVariables(t) /\ IsEnv(now)
    BY <1>1, <1>4, NowEnv DEF IInv, FramesOK
  <2>2. now.tail => n + 1 > 1 /\ Frames[n].kind = "trampoline"
    BY <1>4, <2>1 DEF FrameOK
  <2>3. \A x \in FreeVariables(t) \ now.owned : Lent(Frames, n + 1, now.locals[x])
    BY <1>4, <2>1 DEF FrameOK
  <2> QED
    BY <1>4, <2>2, <2>3 DEF Lent
<1>6. FrameOK(Frames', n + 1) /\ Solo(heap', Frames'[n + 1])
  <2>1. \A x \in Needs(frame) \ held : x \in FreeVariables(t) \ now.owned
    <3>1. Needs(frame) = FreeVariables(t.body) \ {t.x}
      BY DEF Needs, frame
    <3> QED
      BY <1>2, <3>1 DEF BorrowedFor
  <2>2. Solo(heap, now)
    BY <1>1, NowEnv
  <2>3. Solo(heap', frame)
    BY <1>1, <1>2, <2>2 DEF Solo, SoloKind, IsEnv
  <2>4. /\ \A x \in Needs(frame) \ held : Lent(Frames', n + 1, now.locals[x])
        /\ n + 1 - 1 = n
    BY <1>4, <1>5, <2>1
  <2> QED
    BY <1>2, <1>3, <1>4, <1>5, <2>3, <2>4 DEF FrameOK
<1>7. FrameOK(Frames', n + 2) /\ Solo(heap', Frames'[n + 2])
  <2>1. ASSUME NEW x \in Needs(run) \ run.owned
        PROVE  Lent(Frames', n + 2, run.locals[x])
    <3>1. x \in FreeVariables(t) /\ (x \notin now.owned \/ x \in held)
      BY <1>2, <1>3, <2>1
    <3>2. CASE x \in held
      <4>1. HeldIn(Frames'[n + 1], run.locals[x]) /\ n + 1 \in 1..((n + 2) - 1)
        BY <1>2, <1>3, <1>4, <3>2 DEF HeldIn
      <4> QED
        BY <4>1 DEF Lent
    <3>3. CASE x \notin now.owned
      <4>1. Lent(Frames', n + 1, run.locals[x])
        BY <1>3, <1>5, <3>1, <3>3
      <4>2. \A j \in 1..((n + 1) - 1) : j \in 1..((n + 2) - 1)
        BY <1>4
      <4> QED
        BY <4>1, <4>2 DEF Lent
    <3> QED
      BY <3>1, <3>2, <3>3
  <2>2. Solo(heap, now)
    BY <1>1, NowEnv
  <2>3. Solo(heap', run)
    BY <1>1, <1>2, <1>3, <2>2 DEF Solo, SoloKind, IsEnv
  <2> QED
    BY <1>2, <1>3, <1>4, <2>1, <2>3 DEF FrameOK
<1>8. Spares(heap')
  BY <1>1 DEF Spares
<1>9. FullOK' /\ StoreOK'
  <2>1. \A c \in Cell : ~IsFull(heap[c])
    BY <1>1, NoFull
  <2> QED
    BY <1>1, <1>3, <2>1 DEF FullOK, StoreOK
<1>10. ASSUME NEW c \in Cell
       PROVE  Roots(c) = start.outside[c] + (Below(stack', c) + InFrame(now', c))
                         + Occurrences(drops', c) + lost'[c]
  <2>1. Below(stack', c) = Below(stack, c) + InFrame(frame, c)
    <3>1. IsFiniteSet(PlacesIn(frame, c))
      BY <1>2, EnvFinite, EnvPlaces
    <3> QED
      BY <1>1, <3>1, BelowPush
  <2>2. Roots(c) = start.outside[c] + Below(stack, c) + InFrame(now, c) + Occurrences(drops, c) + lost[c]
    BY RootsSum
  <2>3. PICK a \in Nat, b \in Nat, i \in Nat, j \in Nat, o \in Nat, l \in Nat :
           /\ a = start.outside[c] /\ b = Below(stack, c) /\ l = lost[c] /\ o = Occurrences(drops, c)
           /\ i = InFrame(run, c) /\ j = InFrame(frame, c)
    BY <1>2, RootsSum
  <2>4. /\ Below(stack', c) = b + j /\ InFrame(now', c) = i /\ Occurrences(drops', c) = o
        /\ lost'[c] = l /\ InFrame(now, c) = j + i
    BY <1>1, <1>2, <2>1, <2>3
  <2>5. Roots(c) = a + b + (j + i) + o + l
    BY <2>2, <2>3, <2>4
  <2> QED
    BY <2>3, <2>4, <2>5
<1> QED
  <2> DEFINE R == [c \in Cell |-> Roots(c)]
  <2>1. Ledger(heap', R)
    BY <1>1, RootsSum
  <2>2. \A c \in Cell : R[c] = start.outside[c] + (Below(stack', c) + InFrame(now', c))
                               + Occurrences(drops', c) + lost'[c]
    BY <1>10
  <2>3. \A j \in (n + 1)..(Len(stack') + 1) : FrameOK(Frames', j) /\ Solo(heap', Frames'[j])
    <3>1. \A j \in (n + 1)..(n + 1 + 1) : j = n + 1 \/ j = n + 2
      BY <1>4
    <3> QED
      BY <1>4, <1>6, <1>7, <3>1
  <2>4. /\ drops' \in Seq(Value) /\ lost' \in [Cell -> Nat] /\ now'.kind = "run"
        /\ \E f : f.kind \in {"let", "trampoline"} /\ stack' = Append(stack, f)
    BY <1>1, <1>3 DEF IInv, ShapeOK
  <2> HIDE DEF R
  <2> QED
    BY <1>1, <1>8, <1>9, <2>1, <2>2, <2>3, <2>4, NodeStep DEF n

(* ACon: an erased constructor, a new cell, or the cell of a token.           *)
LEMMA AConStep ==
    ASSUME IInv, ACon
    PROVE  IInv'
<1> DEFINE t == now.term
           args == t.args
           values == Locals(args)
           passed == PassArgs(heap, now, args)
           token == IF t.con \in DOMAIN now.reuse THEN now.reuse[t.con] ELSE Null
           R == [c \in Cell |-> Roots(c)]
           n == Len(stack)
<1>1. /\ drops = <<>> /\ drops' = drops /\ now.kind = "run" /\ t.op = "con"
      /\ start' = start /\ lost' = lost /\ stack' = stack
  BY DEF ACon, Node, Pure
<1>2. /\ args \in Seq(STRING) /\ FreeVariables(t) = ToSet(args)
      /\ UsedConstructors(t) = {t.con} /\ t.con \in Name
      /\ t.con \in NullCons => args = <<>>
  BY <1>1, NowEnv DEF WellFormed
<1>3. now.owned \subseteq ToSet(args) /\ DOMAIN now.reuse \subseteq {t.con} \ NullCons
  BY <1>1, <1>2, NowEnv DEF EnvOK
<1>4. PICK k : Passes(heap, R, args, k)
  <2>1. Ledger(heap, R) /\ SameContents(heap, heap)
    BY RootsSum DEF SameContents
  <2> HIDE DEF R, args
  <2> QED
    BY <1>1, <1>2, <2>1, PassNow
<1>5. Len(stack) \in Nat /\ drops' \in Seq(Value) /\ lost' \in [Cell -> Nat]
  BY <1>1 DEF IInv, ShapeOK
<1>6. ASSUME NEW c \in Cell
      PROVE  /\ One(token, c) \in Nat
             /\ Count(now.reuse, DOMAIN now.reuse, c) = One(token, c)
  <2>1. CASE t.con \in DOMAIN now.reuse
    <3>1. DOMAIN now.reuse = {} \cup {t.con} /\ IsFiniteSet({}) /\ token = now.reuse[t.con]
      BY <1>3, <2>1, FS_EmptySet
    <3>2. Count(now.reuse, {} \cup {t.con}, c) = Count(now.reuse, {}, c) + One(now.reuse[t.con], c)
      BY <3>1, CountMore
    <3>3. Count(now.reuse, {}, c) = 0
      BY <3>1, CountType
    <3> QED
      BY <3>1, <3>2, <3>3 DEF One
  <2>2. CASE t.con \notin DOMAIN now.reuse
    <3>1. token = Null /\ DOMAIN now.reuse = {} /\ IsFiniteSet({})
      BY <1>3, <2>2, FS_EmptySet
    <3>2. Count(now.reuse, {}, c) = 0
      BY <3>1, CountType
    <3> QED
      BY <3>1, <3>2 DEF One, Null, Cell
  <2> QED
    BY <2>1, <2>2
<1>7. ASSUME NEW c \in Cell
      PROVE  /\ Occurrences(values, c) \in Nat
             /\ start.outside[c] \in Nat /\ Below(stack, c) \in Nat /\ lost[c] \in Nat
             /\ k[c] = start.outside[c] + Below(stack, c) + One(token, c) + lost[c]
                       + Occurrences(values, c)
  <2>1. /\ k[c] = Roots(c) + Occurrences(values, c) - Count(now.locals, now.owned, c)
        /\ Occurrences(values, c) \in Nat
    <3>1. now.owned \cap ToSet(args) = now.owned
      BY <1>3
    <3> QED
      BY <1>4, <3>1 DEF Passes
  <2>3. PICK a \in Nat, b \in Nat, o \in Nat, q \in Nat, l \in Nat :
           /\ a = start.outside[c] /\ b = Below(stack, c) /\ l = lost[c]
           /\ o = Count(now.locals, now.owned, c) /\ q = One(token, c)
           /\ Roots(c) = a + b + o + q + l
    <3> HIDE DEF token
    <3>1. /\ start.outside[c] \in Nat /\ Below(stack, c) \in Nat /\ lost[c] \in Nat
          /\ Count(now.locals, now.owned, c) \in Nat
          /\ Roots(c) = start.outside[c] + Below(stack, c) + Count(now.locals, now.owned, c)
                        + Count(now.reuse, DOMAIN now.reuse, c) + lost[c]
      BY <1>1, NodeRoots
    <3>2. Count(now.reuse, DOMAIN now.reuse, c) = One(token, c) /\ One(token, c) \in Nat
      BY <1>6
    <3> QED
      BY <3>1, <3>2
  <2> HIDE DEF token, values
  <2>4. PICK r \in Nat : r = Occurrences(values, c)
    BY <2>1
  <2>5. k[c] = (a + b + o + q + l) + r - o
    BY <2>1, <2>3, <2>4
  <2> QED
    BY <2>3, <2>4, <2>5
<1>8. CASE t.con \in NullCons /\ Yield(heap, Null)
  <2>1. heap' = heap /\ now' = Return(Null) /\ Null \in Value /\ args = <<>>
    BY <1>2, <1>8 DEF Yield, Value
  <2>2. Ledger(heap', R) /\ Spares(heap') /\ \A c \in Cell : ~IsFull(heap'[c])
    BY <1>1, <2>1, RootsSum, NoFull DEF Spares
  <2>3. ASSUME NEW c \in Cell
        PROVE  R[c] = start.outside[c] + Below(stack, c) + One(Null, c)
                      + Occurrences(drops', c) + lost'[c]
    <3>1. now.owned = {} /\ DOMAIN now.reuse = {} /\ IsFiniteSet({})
      BY <1>3, <1>8, <2>1, FS_EmptySet DEF ToSet
    <3>2. Count(now.locals, {}, c) = 0 /\ Count(now.reuse, {}, c) = 0
      BY <3>1, CountType
    <3>3. One(Null, c) = 0
      BY DEF One, Null, Cell
    <3>4. /\ R[c] = start.outside[c] + Below(stack, c) + 0 + 0 + lost[c]
          /\ start.outside[c] \in Nat /\ Below(stack, c) \in Nat /\ lost[c] \in Nat
          /\ Occurrences(drops, c) = 0
      BY <1>1, <3>1, <3>2, NodeRoots
    <3> QED
      BY <1>1, <3>3, <3>4
  <2> HIDE DEF R
  <2> QED
    BY <1>1, <1>5, <2>1, <2>2, <2>3, ReturnStep
<1>9. CASE /\ t.con \notin NullCons /\ token = Null /\ Room(heap)
           /\ Yield(NewValue(passed, "con", t.con, values), Fresh(passed))
  <2>1. /\ Ledger(passed, k) /\ SameContents(heap, passed) /\ values \in Seq(Value)
        /\ \A c \in Cell : ~Referred(c) => passed[c] = heap[c]
    BY <1>4 DEF Passes
  <2>2. PICK m : Builds(passed, k, "con", t.con, values, m)
    <3>1. Buildable("con", t.con, values)
      BY <1>2, <2>1 DEF Buildable
    <3> HIDE DEF passed, values
    <3> QED
      BY <1>1, <1>9, <2>1, <3>1, BuildNow
  <2> DEFINE v == Fresh(passed)
  <2>3. /\ heap' = NewValue(passed, "con", t.con, values) /\ now' = Return(v)
        /\ v \in Cell /\ v \in Value
    BY <1>9, <2>2 DEF Yield, Builds, Value
  <2>4. /\ Spares(heap') /\ Ledger(heap', m) /\ \A c \in Cell : ~IsFull(heap'[c])
    BY <2>2, <2>3 DEF Builds
  <2>5. ASSUME NEW c \in Cell
        PROVE  m[c] = start.outside[c] + Below(stack, c) + One(v, c)
                      + Occurrences(drops', c) + lost'[c]
    <3>1. /\ m[c] = k[c] + One(v, c) - Occurrences(values, c) /\ One(v, c) \in Nat
          /\ One(token, c) = 0
      BY <1>9, <2>2 DEF Builds, One, Null, Cell
    <3>2. Occurrences(drops', c) = 0
      BY <1>1, OccurrencesSmall
    <3> HIDE DEF v, values, token
    <3>3. PICK a \in Nat, b \in Nat, l \in Nat, r \in Nat, w \in Nat :
             /\ a = start.outside[c] /\ b = Below(stack, c) /\ l = lost[c] /\ w = One(v, c)
             /\ r = Occurrences(values, c)
      BY <1>7, <3>1
    <3>4. k[c] = a + b + 0 + l + r
      BY <1>7, <3>1, <3>3
    <3>5. m[c] = (a + b + 0 + l + r) + w - r
      BY <3>1, <3>3, <3>4
    <3>6. lost'[c] = l
      BY <1>1, <3>3
    <3> QED
      BY <3>2, <3>3, <3>5, <3>6
  <2> HIDE DEF v
  <2> QED
    BY <1>1, <1>5, <2>3, <2>4, <2>5, ReturnStep
<1>10. CASE /\ t.con \notin NullCons /\ token # Null
            /\ Yield([passed EXCEPT ![token].kind = "con", ![token].args = values], token)
  <2>1. /\ Ledger(passed, k) /\ SameContents(heap, passed) /\ values \in Seq(Value)
        /\ \A c \in Cell : ~Referred(c) => passed[c] = heap[c]
    BY <1>4 DEF Passes
  <2>2. token \in SoloCells(now) /\ token \in Cell /\ token \in Value
    BY <1>1, <1>10, NowEnv DEF SoloCells, EnvOK, Value
  <2>3. /\ ~Referred(token) /\ heap[token].kind = "token" /\ token \notin start.shared
    <3>1. n + 1 \in DOMAIN Frames /\ Frames[n + 1] = now
      BY FramesShape DEF IInv
    <3>2. ~Referred(token) /\ token \notin start.shared
      <4> HIDE DEF token, n
      <4> QED
        BY <2>2, <3>1, Apart
    <3> QED
      BY <1>1, <2>2, <3>2, NowEnv DEF Solo, SoloKind, IsEnv
  <2>4. passed[token].kind = "token" /\ Fields(passed, token) = <<>>
    BY <2>1, <2>2, <2>3 DEF Fields
  <2> HIDE DEF token, passed, values
  <2>5. /\ heap' = [passed EXCEPT ![token].kind = "con", ![token].args = values]
        /\ now' = Return(token)
    BY <1>10 DEF Yield
  <2>6. PICK m : Fills(passed, k, token, "con", values, heap', m)
    <3>1. Filled(passed, token, "con", values, heap')
      BY <2>4, <2>5 DEF Filled
    <3> QED
      BY <2>1, <2>2, <3>1, FillLedger
  <2>7. Spares(heap') /\ \A c \in Cell : ~IsFull(heap'[c])
    <3>1. Spares(passed) /\ \A c \in Cell : ~IsFull(passed[c])
      BY <1>1, <2>1, SparesRaised
    <3>2. \A c \in Cell : ~IsFull(heap'[c])
      BY <2>6, <3>1 DEF IsFull, Fills
    <3>3. \A c \in start.shared : c \in Cell
      BY SharedHeld
    <3> QED
      BY <2>2, <2>3, <2>6, <3>1, <3>2, <3>3 DEF Spares, Fills
  <2>8. ASSUME NEW c \in Cell
        PROVE  m[c] = start.outside[c] + Below(stack, c) + One(token, c)
                      + Occurrences(drops', c) + lost'[c]
    <3>1. Occurrences(drops', c) = 0 /\ Occurrences(Fields(passed, token), c) = 0
      BY <1>1, <2>4, OccurrencesSmall
    <3>2. PICK a \in Nat, b \in Nat, l \in Nat, r \in Nat, w \in Nat :
             /\ a = start.outside[c] /\ b = Below(stack, c) /\ l = lost[c] /\ w = One(token, c)
             /\ r = Occurrences(values, c)
      BY <1>6, <1>7
    <3>3. k[c] = a + b + w + l + r
      BY <1>7, <3>2
    <3>4. m[c] = (a + b + w + l + r) + 0 - r
      BY <2>6, <3>1, <3>2, <3>3 DEF Fills
    <3>5. lost'[c] = l
      BY <1>1, <3>2
    <3> QED
      BY <3>1, <3>2, <3>4, <3>5
  <2>9. Ledger(heap', m)
    BY <2>6 DEF Fills
  <2> QED
    BY <1>1, <1>5, <2>2, <2>5, <2>7, <2>8, <2>9, ReturnStep
<1> QED
  BY <1>8, <1>9, <1>10 DEF ACon

(* AApp: the closure and the argument are passed on, one after the other.      *)
LEMMA BothPassed ==
    ASSUME IInv, Node("app"), NEW clo, clo = now.locals[now.term.closure],
           NEW arg, arg = now.locals[now.term.arg],
           NEW h, h = PassArgs(PassArgs(heap, now, <<now.term.closure>>), now, <<now.term.arg>>)
    PROVE  /\ SameContents(heap, h) /\ \A c \in Cell : ~Referred(c) => h[c] = heap[c]
           /\ clo = Null \/ (clo \in Cell /\ Referred(clo))
           /\ Live(h, arg)
           /\ \E k : /\ Ledger(h, k)
                     /\ \A c \in Cell :
                          /\ start.outside[c] \in Nat /\ Below(stack, c) \in Nat /\ lost[c] \in Nat
                          /\ k[c] = start.outside[c] + Below(stack, c) + lost[c]
                                    + One(clo, c) + One(arg, c)
<1> DEFINE t == now.term
           x == t.closure
           y == t.arg
           xs == <<x>>
           ys == <<y>>
           g == PassArgs(heap, now, xs)
           R == [c \in Cell |-> Roots(c)]
<1>1. /\ drops = <<>> /\ now.kind = "run" /\ t.op = "app" /\ x # y
      /\ FreeVariables(t) = {x, y} /\ UsedConstructors(t) = {}
      /\ now.owned \subseteq {x, y} /\ IsFiniteSet(now.owned)
  BY NowEnv DEF Node, WellFormed, EnvOK
<1>2. /\ xs \in Seq({x}) /\ ToSet(xs) = {x} /\ ys \in Seq({y}) /\ ToSet(ys) = {y}
      /\ Locals(xs) = <<clo>> /\ Locals(ys) = <<arg>>
  BY DEF ToSet, Locals, Values
<1>3. PICK k1 : Passes(heap, R, xs, k1)
  <2>1. Ledger(heap, R) /\ SameContents(heap, heap)
    BY RootsSum DEF SameContents
  <2>2. ToSet(xs) \subseteq FreeVariables(now.term)
    BY <1>1, <1>2
  <2> HIDE DEF R, xs
  <2> QED
    BY <1>1, <1>2, <2>1, <2>2, PassNow
<1>4. PICK k2 : Passes(g, k1, ys, k2)
  <2>1. Ledger(g, k1) /\ SameContents(heap, g)
    BY <1>3 DEF Passes
  <2>2. ToSet(ys) \subseteq FreeVariables(now.term)
    BY <1>1, <1>2
  <2> HIDE DEF g, ys
  <2> QED
    BY <1>1, <1>2, <2>1, <2>2, PassNow
<1>5. /\ SameContents(heap, h) /\ Ledger(h, k2) /\ \A c \in Cell : ~Referred(c) => h[c] = heap[c]
  BY <1>3, <1>4 DEF Passes
<1>6. /\ clo \in Value /\ (clo = Null \/ Referred(clo))
      /\ arg \in Value /\ (arg = Null \/ Referred(arg))
  BY <1>1, ReadsReferred
<1>7. Live(h, arg)
  BY <1>5, <1>6, ReferredLive DEF Live, SameContents, Contents
<1>8. ASSUME NEW c \in Cell
      PROVE  /\ start.outside[c] \in Nat /\ Below(stack, c) \in Nat /\ lost[c] \in Nat
             /\ k2[c] = start.outside[c] + Below(stack, c) + lost[c] + One(clo, c) + One(arg, c)
  <2> DEFINE X == now.owned \cap {x}
             Y == now.owned \cap {y}
  <2>1. IsFiniteSet(X) /\ IsFiniteSet(Y) /\ X \cap Y = {} /\ X \cup Y = now.owned
    BY <1>1, FS_Intersection
  <2>2. Count(now.locals, now.owned, c) = Count(now.locals, X, c) + Count(now.locals, Y, c)
    <3> HIDE DEF X, Y
    <3>1. Count(now.locals, X \cup Y, c) = Count(now.locals, X, c) + Count(now.locals, Y, c)
      BY <2>1, CountSplit
    <3> QED
      BY <2>1, <3>1
  <2>3. /\ k1[c] = Roots(c) + One(clo, c) - Count(now.locals, X, c)
        /\ k2[c] = k1[c] + One(arg, c) - Count(now.locals, Y, c)
        /\ Count(now.locals, X, c) \in Nat /\ Count(now.locals, Y, c) \in Nat
    <3>1. Occurrences(<<clo>>, c) = One(clo, c) /\ Occurrences(<<arg>>, c) = One(arg, c)
      BY OccurrencesSmall
    <3>2. /\ k1[c] = Roots(c) + Occurrences(Locals(xs), c)
                     - Count(now.locals, now.owned \cap ToSet(xs), c)
          /\ Count(now.locals, now.owned \cap ToSet(xs), c) \in Nat
      BY <1>3 DEF Passes
    <3>3. /\ k2[c] = k1[c] + Occurrences(Locals(ys), c)
                     - Count(now.locals, now.owned \cap ToSet(ys), c)
          /\ Count(now.locals, now.owned \cap ToSet(ys), c) \in Nat
      BY <1>4 DEF Passes
    <3> HIDE DEF xs, ys
    <3> QED
      BY <1>2, <3>1, <3>2, <3>3
  <2> HIDE DEF X, Y
  <2>4. /\ start.outside[c] \in Nat /\ Below(stack, c) \in Nat /\ lost[c] \in Nat
        /\ Roots(c) = start.outside[c] + Below(stack, c) + Count(now.locals, now.owned, c) + 0 + lost[c]
    BY <1>1, NodeRoots
  <2>5. PICK a \in Nat, b \in Nat, l \in Nat, p \in Nat, q \in Nat, v \in Nat, w \in Nat :
           /\ a = start.outside[c] /\ b = Below(stack, c) /\ l = lost[c]
           /\ p = Count(now.locals, X, c) /\ q = Count(now.locals, Y, c)
           /\ v = One(clo, c) /\ w = One(arg, c)
    BY <2>3, <2>4 DEF One
  <2>6. Roots(c) = a + b + (p + q) + 0 + l
    BY <2>2, <2>4, <2>5
  <2>7. k1[c] = (a + b + (p + q) + 0 + l) + v - p
    BY <2>3, <2>5, <2>6
  <2>8. k2[c] = ((a + b + (p + q) + 0 + l) + v - p) + w - q
    BY <2>3, <2>5, <2>7
  <2> QED
    BY <2>5, <2>8
<1> QED
  BY <1>5, <1>6, <1>7, <1>8 DEF Value

(* AApp: a new closure, which the trampoline runs if it is saturated.  Data   *)
(* that is also held elsewhere has more than one reference, so that the       *)
(* closure applied is copied then.                                            *)
LEMMA AAppStep ==
    ASSUME IInv, AApp, ~worn'
    PROVE  IInv'
<1> DEFINE clo == now.locals[now.term.closure]
           arg == now.locals[now.term.arg]
           h == PassArgs(PassArgs(heap, now, <<now.term.closure>>), now, <<now.term.arg>>)
           new == Fresh(ArgumentsShared(h, clo))
<1>1. /\ Node("app") /\ drops = <<>> /\ now.kind = "run" /\ clo # Null
      /\ heap[clo].kind = "clo" /\ Room(heap)
      /\ heap' = TailcallApply(h, clo, arg) /\ now' = Return(new)
      /\ ArgumentsShared(h, clo)[clo].rc # RcMax
      /\ stack' = IF now.tail THEN stack ELSE Append(stack, Trampoline(Null))
      /\ drops' = drops /\ start' = start /\ lost' = lost
  BY DEF AApp, Node, Yield, Wait
<1>2. /\ SameContents(heap, h) /\ \A c \in Cell : ~Referred(c) => h[c] = heap[c]
      /\ clo = Null \/ (clo \in Cell /\ Referred(clo))
      /\ Live(h, arg)
      /\ \E k : /\ Ledger(h, k)
                /\ \A c \in Cell :
                     /\ start.outside[c] \in Nat /\ Below(stack, c) \in Nat /\ lost[c] \in Nat
                     /\ k[c] = start.outside[c] + Below(stack, c) + lost[c]
                               + One(clo, c) + One(arg, c)
  BY <1>1, BothPassed, SMTT(40)
<1> HIDE DEF clo, arg, h
<1>3. PICK n : /\ Ledger(h, n)
               /\ \A c \in Cell :
                     /\ start.outside[c] \in Nat /\ Below(stack, c) \in Nat /\ lost[c] \in Nat
                     /\ n[c] = start.outside[c] + Below(stack, c) + lost[c]
                               + One(clo, c) + One(arg, c)
  BY <1>2
<1>4. \A c \in Cell : n[c] >= 0 /\ n[c] \in Int /\ n[clo] >= start.outside[clo] + 1
  <2>1. \A c \in Cell : n[c] >= 0 /\ n[c] \in Int /\ One(clo, c) \in Nat /\ One(arg, c) \in Nat
    BY <1>3 DEF One
  <2>2. clo \in Cell /\ One(clo, clo) = 1
    BY <1>1, <1>2 DEF One
  <2>3. n[clo] = start.outside[clo] + Below(stack, clo) + lost[clo] + 1 + One(arg, clo)
    BY <1>3, <2>2
  <2> QED
    BY <1>3, <2>1, <2>2, <2>3
<1>5. /\ clo \in Cell /\ h[clo].kind = "clo" /\ heap[clo].kind = "clo" /\ Room(h) /\ Fresh(h) = Fresh(heap)
      /\ h[clo].args = heap[clo].args /\ Len(h[clo].args) < Arity(h[clo].name)
  <2>1. clo \in Cell /\ h[clo].kind = "clo" /\ h[clo].args = heap[clo].args /\ h[clo].name = heap[clo].name
    BY <1>1, <1>2 DEF SameContents, Contents
  <2>2. Room(h) /\ Fresh(h) = Fresh(heap)
    BY <1>1, <1>2, SameFresh
  <2>3. /\ h[clo].name \in DOMAIN Defs /\ Len(h[clo].args) <= Arity(h[clo].name)
        /\ h[clo].args \in Seq(Value)
    BY <1>3, <2>1, CellFields DEF Ledger, HeapOK, CellOK
  <2>4. ~IsFull(heap[clo])
    BY <1>1, <2>1, NoFull
  <2>5. Arity(h[clo].name) \in Nat /\ Len(h[clo].args) \in Nat
    BY <2>3, ProgramAssumption DEF Arity
  <2>6. Len(h[clo].args) # Arity(h[clo].name)
    BY <1>1, <2>1, <2>4 DEF IsFull
  <2> QED
    BY <1>1, <2>1, <2>2, <2>3, <2>5, <2>6
<1>6. PICK k : Applies(h, n, clo, arg, heap', k)
  <2>1. \A c \in Cell : n[c] >= 0
    BY <1>4
  <2> HIDE DEF new
  <2>2. \E k : Applies(h, n, clo, arg, TailcallApply(h, clo, arg), k)
    BY <1>1, <1>2, <1>3, <1>5, <2>1, ApplyLedger
  <2> QED
    BY <1>1, <2>2
<1>7. /\ new = Fresh(h) /\ new \in Cell /\ h[new].kind = "free"
      /\ heap'[new] = [kind |-> "clo", rc |-> 1, name |-> h[clo].name,
                       args |-> Append(h[clo].args, arg)]
      /\ \A c \in Cell \ {new, clo} :
            /\ Contents(heap'[c]) = Contents(h[c])
            /\ (\A i \in DOMAIN h[clo].args : h[clo].args[i] # c) => heap'[c] = h[c]
      /\ \/ heap'[clo] = FreeCell /\ h[clo].rc = 1
         \/ Contents(heap'[clo]) = Contents(h[clo]) /\ h[clo].rc # 1
      /\ Ledger(heap', k)
      /\ \A c \in Cell : k[c] = n[c] + One(new, c) - One(arg, c) - One(clo, c)
  BY <1>6 DEF Applies
<1> HIDE DEF new
<1>8. Spares(heap')
  <2>1. ASSUME NEW c \in Cell, heap[c].kind \in {"token", "running"}, ~Referred(c)
        PROVE  heap'[c] = heap[c]
    <3>1. heap[new].kind = "free"
      BY <1>2, <1>7 DEF SameContents, Contents
    <3>2. c # new /\ c # clo
      BY <1>5, <2>1, <3>1
    <3>3. \A i \in DOMAIN h[clo].args : h[clo].args[i] # c
      <4>1. Fields(heap, clo) = h[clo].args
        BY <1>5 DEF Fields
      <4> QED
        BY <1>5, <2>1, <4>1 DEF Referred
    <3> QED
      BY <1>2, <1>7, <2>1, <3>2, <3>3
  <2>2. ASSUME NEW c \in start.shared
        PROVE  Contents(heap'[c]) = Contents(heap[c])
    <3>1. c \in Cell /\ heap[c].kind \in {"con", "clo"} /\ start.outside[c] + InHeap(heap, c) >= 1
      BY SharedHeld
    <3>2. Contents(h[c]) = Contents(heap[c]) /\ c # new
      BY <1>2, <1>7, <3>1 DEF SameContents, Contents
    <3>3. CASE c = clo
      <4>1. \A d \in Cell : Fields(h, d) = Fields(heap, d)
        BY <1>2 DEF SameContents, Contents, Fields
      <4>2. InHeap(h, c) = InHeap(heap, c)
        BY <4>1, HeapCountSame
      <4>3. h[c].rc # RcMax => h[c].rc = n[c] + InHeap(h, c)
        BY <1>3, <3>1 DEF Ledger
      <4>4. n[c] \in Int /\ n[c] >= start.outside[c] + 1 /\ start.outside[c] \in Nat
        BY <1>3, <1>4, <3>1, <3>3
      <4>5. InHeap(heap, c) \in Nat
        BY <3>1, HeapPlaces DEF IInv, HeapOK
      <4>6. h[c].rc # 1
        BY <3>1, <4>2, <4>3, <4>4, <4>5, MemoryAssumption
      <4> QED
        BY <1>7, <3>2, <3>3, <4>6
    <3> QED
      BY <1>7, <3>1, <3>2, <3>3
  <2> QED
    BY <2>1, <2>2 DEF Spares
<1>9. ASSUME NEW c \in Cell, IsFull(heap'[c])
      PROVE  /\ heap'[c].rc = 1 /\ drops' = <<>> /\ new = c
             /\ stack' # <<>> /\ Last(stack').kind = "trampoline"
  <2>1. ~IsFull(h[c])
    BY <1>1, <1>2, NoFull DEF SameContents, Contents, IsFull
  <2>2. c = new
    <3>1. CASE c # new /\ c # clo
      BY <1>7, <1>9, <2>1, <3>1 DEF Contents, IsFull
    <3>2. CASE c # new /\ c = clo
      BY <1>7, <1>9, <2>1, <3>2 DEF Contents, IsFull, FreeCell
    <3> QED
      BY <3>1, <3>2
  <2>3. stack' # <<>> /\ Last(stack').kind = "trampoline"
    <3>1. CASE now.tail
      BY <1>1, <3>1, NowEnv
    <3>2. CASE ~now.tail
      <4>1. stack' = Append(stack, Trampoline(Null)) /\ Trampoline(Null).kind = "trampoline"
        BY <1>1, <3>2 DEF Trampoline
      <4> QED
        BY <4>1, StackPush DEF IInv
    <3> QED
      BY <3>1, <3>2
  <2> QED
    BY <1>1, <1>7, <2>2, <2>3
<1>10. ASSUME NEW c \in Cell
       PROVE  k[c] = start.outside[c] + Below(stack, c) + One(new, c)
                     + Occurrences(drops', c) + lost'[c]
  <2>1. PICK a \in Nat, b \in Nat, l \in Nat, u \in Nat, v \in Nat, w \in Nat :
           /\ a = start.outside[c] /\ b = Below(stack, c) /\ l = lost[c]
           /\ v = One(clo, c) /\ w = One(arg, c) /\ u = One(new, c)
    BY <1>3 DEF One
  <2>2. n[c] = a + b + l + v + w
    BY <1>3, <2>1
  <2>3. k[c] = n[c] + One(new, c) - One(arg, c) - One(clo, c)
    BY <1>7
  <2>4. k[c] = (a + b + l + v + w) + u - w - v
    BY <2>1, <2>2, <2>3
  <2>5. Occurrences(drops', c) = 0 /\ lost'[c] = l
    BY <1>1, <2>1, OccurrencesSmall
  <2> QED
    BY <2>1, <2>4, <2>5
<1> QED
  <2>1. new \in Value /\ drops' \in Seq(Value) /\ lost' \in [Cell -> Nat]
    BY <1>1, <1>7 DEF IInv, ShapeOK, Value
  <2>2. stack' = stack \/ stack' = Append(stack, Trampoline(Null))
    BY <1>1
  <2>3. \A c \in Cell : IsFull(heap'[c]) =>
           heap'[c].rc = 1 /\ drops' = <<>> /\ new = c
           /\ stack' # <<>> /\ Last(stack').kind = "trampoline"
    BY <1>9
  <2>4. \A c \in Cell : k[c] = start.outside[c] + Below(stack, c) + One(new, c)
                               + Occurrences(drops', c) + lost'[c]
    BY <1>10
  <2>5. Ledger(heap', k) /\ now' = Return(new) /\ start' = start
    BY <1>1, <1>7
  <2> QED
    BY <1>8, <2>1, <2>2, <2>3, <2>4, <2>5, ReturnStep

\* What new references to the values of f do: g and k, afterwards.
Raises(f, g, k) ==
    /\ SameContents(heap, g) /\ Spares(g) /\ Ledger(g, k)
    /\ \A c \in Cell : ~Referred(c) => g[c] = heap[c]
    /\ \A c \in Cell : k[c] = Roots(c) + Occurrences(f, c)
                       /\ Occurrences(f, c) \in Nat /\ Roots(c) \in Nat

(* New references to what is referred to.                                    *)
LEMMA RaiseSome ==
    ASSUME IInv, NEW f, IsFiniteSet(DOMAIN f),
           \A i \in DOMAIN f : f[i] \in Value /\ (f[i] = Null \/ Referred(f[i]))
    PROVE  \E k : Raises(f, NewReferences(heap, f), k)
<1> DEFINE R == [c \in Cell |-> Roots(c)]
           g == NewReferences(heap, f)
           k == [c \in Cell |-> R[c] + Occurrences(f, c)]
<1>1. Ledger(heap, R)
  BY RootsSum
<1>2. \A c : Occurrences(f, c) \in Nat
  <2> SUFFICES ASSUME NEW c
               PROVE  Occurrences(f, c) \in Nat
    OBVIOUS
  <2>1. Occurrences(f, c) = Count(f, DOMAIN f, c)
    BY DEF Occurrences, Count
  <2> QED
    BY <2>1, CountType
<1>3. \A i \in DOMAIN f : Live(heap, f[i])
  BY ReferredLive
<1>4. /\ Ledger(g, k) /\ SameContents(heap, g)
      /\ \A c \in Cell : (\A x \in DOMAIN f : f[x] # c) => g[c] = heap[c]
  <2> HIDE DEF R
  <2> QED
    BY <1>1, <1>2, <1>3, RaiseLedger
<1>5. \A c \in Cell : k[c] = Roots(c) + Occurrences(f, c) /\ Roots(c) \in Nat
  BY RootsSum
<1>6. ASSUME NEW c \in Cell, ~Referred(c)
      PROVE  g[c] = heap[c]
  <2>1. \A x \in DOMAIN f : f[x] # c
    BY <1>6 DEF Null, Cell
  <2> HIDE DEF g, k
  <2> QED
    BY <1>4, <2>1
<1> HIDE DEF g, k
<1>7. Spares(g)
  BY <1>4, <1>6, SparesRaised
<1> QED
  BY <1>2, <1>4, <1>5, <1>6, <1>7 DEF Raises, g

(* The same for a sequence of values.                                        *)
LEMMA RaiseNow ==
    ASSUME IInv, NEW f \in Seq(Value),
           \A i \in DOMAIN f : f[i] = Null \/ Referred(f[i])
    PROVE  \E k : Raises(f, NewReferences(heap, f), k)
<1>1. IsFiniteSet(DOMAIN f)
  BY OccurrencesType
<1>2. \A i \in DOMAIN f : f[i] \in Value
  OBVIOUS
<1> QED
  BY <1>1, <1>2, RaiseSome

(* A value that is read from a cell gets a reference of its own.              *)
LEMMA GetField ==
    ASSUME IInv, NEW d \in Cell, heap[d].kind \in {"ref", "array"},
           NEW i \in DOMAIN heap[d].args, now.kind = "run",
           \A c \in Cell : Roots(c) = start.outside[c] + Below(stack, c) + lost'[c],
           heap' = NewReference(heap, heap[d].args[i]), now' = Return(heap[d].args[i]),
           drops' = <<>>, start' = start, stack' = stack, lost' \in [Cell -> Nat]
    PROVE  IInv'
<1> DEFINE v == heap[d].args[i]
           f == <<v>>
<1>1. v \in Value /\ f \in Seq(Value) /\ DOMAIN f = {1} /\ f[1] = v
  BY FieldsType DEF IInv, HeapOK
<1>2. Fields(heap, d) = heap[d].args
  BY DEF Fields
<1>3. Referred(v)
  BY <1>2 DEF Referred
<1> HIDE DEF v
<1>4. heap' = NewReferences(heap, f) /\ now' = Return(v)
  BY DEF NewReference, v
<1>5. PICK k : Raises(f, heap', k)
  <2>1. \A j \in DOMAIN f : f[j] = Null \/ Referred(f[j])
    BY <1>1, <1>3
  <2> HIDE DEF f
  <2> QED
    BY <1>1, <1>4, <2>1, RaiseNow
<1>6. Spares(heap') /\ Ledger(heap', k) /\ \A c \in Cell : ~IsFull(heap'[c])
  BY <1>5, SparesRaised DEF Raises
<1>7. ASSUME NEW c \in Cell
      PROVE  k[c] = start.outside[c] + Below(stack, c) + One(v, c)
                    + Occurrences(drops', c) + lost'[c]
  <2>1. k[c] = Roots(c) + One(v, c) /\ Roots(c) \in Nat /\ Occurrences(drops', c) = 0
    BY <1>5, OccurrencesSmall DEF Raises
  <2>2. PICK a \in Nat, b \in Nat, l \in Nat, w \in Nat :
           /\ a = start.outside[c] /\ b = Below(stack, c) /\ l = lost'[c] /\ w = One(v, c)
    BY RootsSum DEF One
  <2>3. k[c] = (a + b + l) + w
    BY <2>1, <2>2
  <2>4. k[c] = a + b + w + 0 + l
    BY <2>3
  <2> QED
    BY <2>1, <2>2, <2>4, Zenon
<1> QED
  BY <1>1, <1>4, <1>6, <1>7, ReturnStep

(* AExtPrim: the variables that the node owns are let go of.                  *)
LEMMA ExtLost ==
    ASSUME IInv, AExtPrim
    PROVE  /\ Node("ext") /\ drops = <<>> /\ now.kind = "run" /\ now.term.at \in Nat \ {0}
           /\ stack' = stack /\ start' = start /\ lost' \in [Cell -> Nat]
           /\ \A c \in Cell : /\ Roots(c) = start.outside[c] + Below(stack, c) + lost'[c]
                              /\ start.outside[c] \in Nat /\ Below(stack, c) \in Nat
           /\ LET args == Locals(now.term.args)
                  more == now.term.prim \in {"writeIORef", "arraySet"}
              IN  /\ 1 \in DOMAIN args /\ (more => 2 \in DOMAIN args)
                  /\ \A i \in DOMAIN args :
                       /\ args[i] \in Value /\ (args[i] = Null \/ Referred(args[i]))
                       /\ Lent(Frames, Len(Frames), args[i]) \/ lost'[args[i]] > 0
<1> DEFINE t == now.term
           names == t.args
           args == Locals(names)
<1>1. /\ Node("ext") /\ drops = <<>> /\ now.kind = "run"
      /\ stack' = stack /\ start' = start
      /\ lost' = [c \in Cell |-> lost[c] + Cardinality({x \in ToSet(names) \cap now.owned : now.locals[x] = c})]
  BY DEF AExtPrim, Node, Lose
<1>2. /\ names \in Seq(STRING) /\ FreeVariables(t) = ToSet(names) /\ UsedConstructors(t) = {}
      /\ t.at \in Nat \ {0}
      /\ Len(names) = IF t.prim \in {"writeIORef", "arraySet"} THEN 2 ELSE 1
      /\ now.owned \subseteq ToSet(names) /\ IsFiniteSet(now.owned)
  BY <1>1, NowEnv DEF WellFormed, EnvOK, Node
<1>3. ASSUME NEW c \in Cell
      PROVE  /\ lost'[c] = lost[c] + Count(now.locals, now.owned, c)
             /\ lost[c] \in Nat /\ Count(now.locals, now.owned, c) \in Nat
             /\ Roots(c) = start.outside[c] + Below(stack, c) + lost'[c]
             /\ start.outside[c] \in Nat /\ Below(stack, c) \in Nat
  <2>1. ToSet(names) \cap now.owned = now.owned
    BY <1>2
  <2>2. lost'[c] = lost[c] + Count(now.locals, now.owned, c)
    BY <1>1, <2>1 DEF Count
  <2>3. /\ start.outside[c] \in Nat /\ Below(stack, c) \in Nat /\ lost[c] \in Nat
        /\ Count(now.locals, now.owned, c) \in Nat
        /\ Roots(c) = start.outside[c] + Below(stack, c) + Count(now.locals, now.owned, c) + 0 + lost[c]
    BY <1>1, <1>2, NodeRoots
  <2> QED
    BY <2>2, <2>3
<1>4. lost' \in [Cell -> Nat]
  <2>1. lost' = [c \in Cell |-> lost'[c]] /\ \A c \in Cell : lost'[c] \in Nat
    BY <1>1, <1>3
  <2> QED
    BY <2>1
<1>5. /\ DOMAIN args = DOMAIN names /\ DOMAIN names = 1..Len(names)
      /\ \A i \in DOMAIN args : args[i] = now.locals[names[i]] /\ names[i] \in FreeVariables(t)
  BY <1>2 DEF Locals, Values, ToSet
<1>6. ASSUME NEW i \in DOMAIN args
      PROVE  /\ args[i] \in Value /\ (args[i] = Null \/ Referred(args[i]))
             /\ Lent(Frames, Len(Frames), args[i]) \/ lost'[args[i]] > 0
  <2> DEFINE x == names[i]
             v == now.locals[x]
  <2>1. x \in FreeVariables(t) /\ args[i] = v
    BY <1>5
  <2>2. /\ v \in Value /\ (v = Null \/ Referred(v))
        /\ x \notin now.owned => Lent(Frames, Len(Frames), v)
    BY <1>1, <2>1, ReadsReferred
  <2>3. CASE x \in now.owned
    <3>1. CASE v = Null
      BY <2>1, <2>2, <3>1 DEF Lent
    <3>2. CASE v # Null
      <4>1. v \in Cell
        BY <2>2, <3>2 DEF Value
      <4>2. Count(now.locals, now.owned, v) # 0
        <5>1. \E y \in now.owned : now.locals[y] = v
          BY <2>3
        <5> HIDE DEF v
        <5>2. IsFiniteSet(now.owned)
          BY <1>2
        <5>3. Count(now.locals, now.owned, v) = 0 <=> \A y \in now.owned : now.locals[y] # v
          BY <5>2, CountType
        <5> QED
          BY <5>1, <5>3
      <4>3. lost'[v] > 0
        <5> HIDE DEF v
        <5> QED
          BY <1>3, <4>1, <4>2
      <4> QED
        BY <2>1, <2>2, <4>3
    <3> QED
      BY <3>1, <3>2
  <2> QED
    BY <2>1, <2>2, <2>3
<1>7. 1 \in DOMAIN args /\ (t.prim \in {"writeIORef", "arraySet"} => 2 \in DOMAIN args)
  BY <1>2, <1>5
<1> HIDE DEF args
<1> QED
  BY <1>1, <1>2, <1>3, <1>4, <1>6, <1>7 DEF args

\* What an external primitive leaves alone, and the references there are then.
ExtFrame ==
    /\ now.kind = "run" /\ drops = <<>>
    /\ stack' = stack /\ start' = start /\ lost' \in [Cell -> Nat]
    /\ \A c \in Cell : /\ Roots(c) = start.outside[c] + Below(stack, c) + lost'[c]
                       /\ start.outside[c] \in Nat /\ Below(stack, c) \in Nat

(* newIORef, newArray: a new cell with references of its own.                 *)
LEMMA NewCell ==
    ASSUME IInv, ExtFrame, Room(heap), NEW kind \in {"ref", "array"}, NEW f \in Seq(Value),
           kind = "ref" => Len(f) = 1, \A i \in DOMAIN f : f[i] = Null \/ Referred(f[i]),
           heap' = NewValue(NewReferences(heap, f), kind, NoName, f),
           now' = Return(Fresh(heap)), drops' = <<>>
    PROVE  IInv'
<1> DEFINE g == NewReferences(heap, f)
           v == Fresh(g)
<1>1. PICK k : Raises(f, g, k)
  <2> HIDE DEF g
  <2> QED
    BY RaiseNow DEF g
<1>2. /\ SameContents(heap, g) /\ Ledger(g, k) /\ \A c \in Cell : ~Referred(c) => g[c] = heap[c]
      /\ \A c \in Cell : k[c] = Roots(c) + Occurrences(f, c)
                         /\ Occurrences(f, c) \in Nat /\ Roots(c) \in Nat
  BY <1>1 DEF Raises
<1>3. PICK m : Builds(g, k, kind, NoName, f, m)
  <2>1. Buildable(kind, NoName, f)
    BY MemoryAssumption DEF Buildable
  <2>2. now.kind # "return"
    BY DEF ExtFrame
  <2> HIDE DEF g
  <2> QED
    BY <1>2, <2>1, <2>2, BuildNow
<1>4. /\ heap' = NewValue(g, kind, NoName, f) /\ now' = Return(v)
      /\ v \in Cell /\ v \in Value
  BY <1>3 DEF Builds, Value
<1>5. Spares(heap') /\ Ledger(heap', m) /\ \A c \in Cell : ~IsFull(heap'[c])
  BY <1>3 DEF Builds
<1>6. ASSUME NEW c \in Cell
      PROVE  m[c] = start.outside[c] + Below(stack, c) + One(v, c)
                    + Occurrences(drops', c) + lost'[c]
  <2>1. m[c] = k[c] + One(v, c) - Occurrences(f, c)
    BY <1>3 DEF Builds
  <2>2. Occurrences(drops', c) = 0
    BY OccurrencesSmall
  <2> HIDE DEF v, g
  <2>3. PICK a \in Nat, b \in Nat, l \in Nat, w \in Nat, r \in Nat :
           /\ a = start.outside[c] /\ b = Below(stack, c) /\ l = lost'[c] /\ w = One(v, c)
           /\ r = Occurrences(f, c)
    BY <1>2 DEF One, ExtFrame
  <2>4. k[c] = (a + b + l) + r
    BY <1>2, <2>3 DEF ExtFrame
  <2>5. m[c] = ((a + b + l) + r) + w - r
    BY <2>1, <2>3, <2>4
  <2>6. m[c] = a + b + w + 0 + l
    BY <2>5
  <2> QED
    BY <2>2, <2>3, <2>6, Zenon
<1> HIDE DEF v
<1> QED
  <2>1. /\ drops' \in Seq(Value) /\ lost' \in [Cell -> Nat] /\ stack' = stack /\ start' = start
    BY DEF ExtFrame
  <2> QED
    BY <1>4, <1>5, <1>6, <2>1, ReturnStep

(* An IORef or an array that gets new contents is neither a token nor data    *)
(* that is held elsewhere.                                                    *)
LEMMA FillSpares ==
    ASSUME IInv, NEW g, Spares(g), SameContents(heap, g), NEW e \in Cell,
           NEW kind \in {"ref", "array"}, heap[e].kind = kind,
           NEW n, NEW args, NEW p, NEW k, Fills(g, n, e, kind, args, p, k)
    PROVE  /\ Spares(p)
           /\ now.kind # "return" => \A c \in Cell : ~IsFull(p[c])
<1>1. (\A c \in Cell \ {e} : p[c] = g[c]) /\ p[e].kind = kind
  BY DEF Fills
<1>2. e \notin start.shared /\ \A c \in start.shared : c \in Cell
  BY SharedHeld
<1>3. Spares(p)
  BY <1>1, <1>2 DEF Spares
<1>4. ASSUME now.kind # "return", NEW c \in Cell
      PROVE  ~IsFull(p[c])
  <2>1. ~IsFull(heap[c])
    BY <1>4, NoFull
  <2>2. ~IsFull(g[c])
    BY <2>1 DEF SameContents, Contents, IsFull
  <2> QED
    BY <1>1, <2>2 DEF IsFull
<1> QED
  BY <1>3, <1>4

(* writeIORef: the new value is referred to, the old one is to be dropped.    *)
LEMMA WriteStep ==
    ASSUME IInv, ExtFrame, NEW ref \in Cell, heap[ref].kind = "ref",
           NEW v \in Value, v = Null \/ Referred(v),
           heap' = WriteIORef(heap, ref, v), now' = Return(Null),
           drops' = <<heap[ref].args[1]>>
    PROVE  IInv'
<1> DEFINE f == <<v>>
           g == NewReferences(heap, f)
           w == heap[ref].args[1]
<1>1. /\ heap[ref].args \in Seq(Value) /\ Len(heap[ref].args) = 1
      /\ w \in Value /\ heap[ref].args = <<w>>
  <2>1. heap[ref].args \in Seq(Value) /\ Len(heap[ref].args) = 1
    BY FieldsType DEF IInv, HeapOK, CellOK
  <2> QED
    BY <2>1
<1>2. f \in Seq(Value) /\ DOMAIN f = {1} /\ f[1] = v
  OBVIOUS
<1> HIDE DEF w
<1>3. PICK k : Raises(f, g, k)
  <2>1. \A i \in DOMAIN f : f[i] = Null \/ Referred(f[i])
    BY <1>2
  <2> HIDE DEF f, g
  <2> QED
    BY <1>2, <2>1, RaiseNow DEF g
<1>4. /\ SameContents(heap, g) /\ Ledger(g, k) /\ Spares(g)
      /\ g[ref].kind = "ref" /\ g[ref].args = <<w>> /\ Fields(g, ref) = <<w>>
  BY <1>1, <1>3 DEF Raises, SameContents, Contents, Fields
<1>5. heap' = [g EXCEPT ![ref].args = f]
  BY DEF WriteIORef, NewReference
<1> HIDE DEF f, g
<1>6. PICK m : Fills(g, k, ref, "ref", f, heap', m)
  <2>1. Len(f) = 1
    BY DEF f
  <2>2. Filled(g, ref, "ref", f, heap')
    BY <1>4, <1>5, <2>1 DEF Filled
  <2> QED
    BY <1>2, <1>4, <2>2, FillLedger
<1>7. Spares(heap') /\ (\A c \in Cell : ~IsFull(heap'[c])) /\ Ledger(heap', m)
  <2>1. now.kind # "return"
    BY DEF ExtFrame
  <2>2. Spares(heap') /\ \A c \in Cell : ~IsFull(heap'[c])
    BY <1>4, <1>6, <2>1, FillSpares
  <2> QED
    BY <1>6, <2>2 DEF Fills
<1>8. ASSUME NEW c \in Cell
      PROVE  m[c] = start.outside[c] + Below(stack, c) + One(Null, c)
                    + Occurrences(drops', c) + lost'[c]
  <2>1. /\ m[c] = k[c] + Occurrences(<<w>>, c) - Occurrences(f, c)
        /\ Occurrences(<<w>>, c) \in Nat /\ Occurrences(f, c) \in Nat
    BY <1>4, <1>6 DEF Fills
  <2>2. k[c] = Roots(c) + Occurrences(f, c)
    BY <1>3 DEF Raises
  <2>3. drops' = <<w>> /\ One(Null, c) = 0
    BY DEF w, One, Null, Cell
  <2>4. PICK a \in Nat, b \in Nat, l \in Nat, q \in Nat, r \in Nat :
           /\ a = start.outside[c] /\ b = Below(stack, c) /\ l = lost'[c]
           /\ q = Occurrences(<<w>>, c) /\ r = Occurrences(f, c)
    BY <2>1 DEF ExtFrame
  <2>5. k[c] = (a + b + l) + r
    BY <2>2, <2>4 DEF ExtFrame
  <2>6. m[c] = ((a + b + l) + r) + q - r
    BY <2>1, <2>4, <2>5
  <2>7. m[c] = a + b + 0 + q + l
    BY <2>6
  <2>8. Occurrences(drops', c) = q
    BY <2>3, <2>4
  <2> QED
    BY <2>3, <2>4, <2>7, <2>8, Zenon
<1> QED
  <2>1. /\ drops' \in Seq(Value) /\ lost' \in [Cell -> Nat] /\ stack' = stack /\ start' = start
        /\ Null \in Value
    BY <1>1 DEF ExtFrame, w, Value
  <2> QED
    BY <1>7, <1>8, <2>1, ReturnStep

(* arraySet, first half: the old element is to be dropped.                    *)
LEMMA TakeOutStep ==
    ASSUME IInv, ExtFrame, NEW array \in Cell, heap[array].kind = "array",
           NEW at \in DOMAIN heap[array].args, NEW v \in Value,
           \A u \in {array, v} : Lent(Frames, Len(Frames), u) \/ lost'[u] > 0,
           heap' = ArrayTakeOut(heap, array, at), now' = Store(array, at, v),
           drops' = <<heap[array].args[at]>>
    PROVE  IInv'
<1> DEFINE args == heap[array].args
           w == args[at]
           t == [args EXCEPT ![at] = Null]
           R == [c \in Cell |-> Roots(c)]
<1>1. /\ args \in Seq(Value) /\ w \in Value /\ Null \in Value /\ Fields(heap, array) = args
      /\ Ledger(heap, R) /\ at \in DOMAIN args
  <2>1. args \in Seq(Value) /\ Fields(heap, array) = args
    BY FieldsType DEF IInv, HeapOK
  <2>2. Ledger(heap, R)
    BY RootsSum
  <2>3. Null \in Value
    BY DEF Value
  <2> QED
    BY <2>1, <2>2, <2>3
<1>2. /\ t \in Seq(Value) /\ DOMAIN t = DOMAIN args /\ t[at] = Null
      /\ \A c : Occurrences(t, c) + One(w, c) = Occurrences(args, c) + One(Null, c)
  <2>1. \A c : /\ t \in Seq(Value)
               /\ Occurrences(t, c) + One(w, c) = Occurrences(args, c) + One(Null, c)
    <3> HIDE DEF args
    <3> QED
      BY <1>1, OccurrencesExcept
  <2> QED
    BY <1>1, <2>1
<1>3. heap' = [heap EXCEPT ![array].args = t]
  BY DEF ArrayTakeOut
<1> HIDE DEF args, w, t, R
<1>4. PICK m : Fills(heap, R, array, "array", t, heap', m)
  <2>1. Filled(heap, array, "array", t, heap')
    BY <1>3 DEF Filled
  <2> QED
    BY <1>1, <1>2, <2>1, FillLedger
<1>5. /\ Spares(heap') /\ (\A c \in Cell : ~IsFull(heap'[c])) /\ Ledger(heap', m)
      /\ heap'[array].kind = "array" /\ heap'[array].args = t
  <2>1. now.kind # "return" /\ SameContents(heap, heap) /\ Spares(heap)
    BY DEF ExtFrame, SameContents, Spares
  <2>2. Spares(heap') /\ \A c \in Cell : ~IsFull(heap'[c])
    BY <1>4, <2>1, FillSpares
  <2> QED
    BY <1>4, <2>2 DEF Fills
<1>6. now'.kind = "store" /\ now'.array = array /\ now'.at = at /\ now'.value = v /\ stack' = stack
  BY DEF Store, ExtFrame
<1>7. /\ Len(stack) \in Nat /\ Frames'[Len(stack) + 1] = now' /\ Len(Frames') = Len(Frames)
      /\ Len(Frames) = Len(stack) + 1 /\ \A j \in 1..(Len(Frames) - 1) : Frames'[j] = Frames[j]
  <2>1. /\ Len(stack) \in Nat /\ Len(Frames) = Len(stack) + 1
        /\ \A i \in 1..Len(stack) : Frames[i] = stack[i]
    BY FramesShape DEF IInv
  <2>2. /\ Frames'[Len(stack) + 1] = now' /\ \A j \in 1..Len(stack) : Frames'[j] = stack[j]
        /\ Len(Frames') = Len(stack) + 1
    <3>1. stack \in Seq(ToSet(stack)) /\ Frames' = Append(stack, now')
      BY <1>6 DEF IInv, ShapeOK, Frames
    <3> QED
      BY <1>6, <3>1, StackNext
  <2> QED
    BY <2>1, <2>2
<1>8. StoreOK' /\ FullOK'
  <2>1. ASSUME NEW u \in {array, v}
        PROVE  Lent(Frames', Len(Frames'), u) \/ lost'[u] > 0
    BY <1>7, <2>1 DEF Lent
  <2>2. at \in DOMAIN t /\ t[at] = Null
    BY <1>2 DEF args
  <2> QED
    BY <1>5, <1>6, <2>1, <2>2 DEF StoreOK, FullOK
<1>9. \A j \in (Len(stack) + 1)..(Len(stack') + 1) : FrameOK(Frames', j) /\ Solo(heap', Frames'[j])
  <2>1. \A j \in (Len(stack) + 1)..(Len(stack') + 1) : Frames'[j] = now'
    BY <1>6, <1>7
  <2> QED
    BY <1>6, <2>1 DEF FrameOK, IsEnv, Solo, SoloCells
<1>10. ASSUME NEW c \in Cell
       PROVE  m[c] = start.outside[c] + (Below(stack', c) + InFrame(now', c))
                     + Occurrences(drops', c) + lost'[c]
  <2>1. /\ m[c] = Roots(c) + Occurrences(args, c) - Occurrences(t, c)
        /\ Occurrences(args, c) \in Nat /\ Occurrences(t, c) \in Nat
    BY <1>1, <1>4 DEF Fills, R
  <2>2. /\ Below(stack', c) = Below(stack, c) /\ InFrame(now', c) = 0
    BY <1>6, ValuePlaces DEF IsEnv
  <2>3. One(Null, c) = 0 /\ Occurrences(drops', c) = One(w, c)
    BY OccurrencesSmall DEF One, Null, Cell, w, args
  <2>4. PICK a \in Nat, b \in Nat, l \in Nat, q \in Nat, r \in Nat, o \in Nat :
           /\ a = start.outside[c] /\ b = Below(stack, c) /\ l = lost'[c]
           /\ q = One(w, c) /\ r = Occurrences(args, c) /\ o = Occurrences(t, c)
    BY <2>1 DEF ExtFrame, One
  <2>5. o + q = r + 0
    BY <1>2, <2>3, <2>4
  <2>6. m[c] = (a + b + l) + r - o
    BY <2>1, <2>4 DEF ExtFrame
  <2>7. m[c] = a + (b + 0) + q + l
    BY <2>5, <2>6
  <2> QED
    BY <2>2, <2>3, <2>4, <2>7, Zenon
<1> QED
  <2>1. /\ drops' \in Seq(Value) /\ lost' \in [Cell -> Nat] /\ stack' = stack /\ start' = start
    BY <1>1 DEF ExtFrame, w, args
  <2>2. now'.kind \in {"run", "return", "store"}
    BY <1>6
  <2> QED
    BY <1>5, <1>8, <1>9, <1>10, <2>1, <2>2, NodeStep

(* AExtPrim: one primitive after the other.                                   *)
LEMMA AExtPrimStep ==
    ASSUME IInv, AExtPrim
    PROVE  IInv'
<1> DEFINE prim == now.term.prim
           args == Locals(now.term.args)
           this == args[1]
           at == now.term.at
           Is(kind) == this # Null /\ heap[this].kind = kind /\ at \in DOMAIN heap[this].args
<1>1. /\ ExtFrame /\ now.kind = "run" /\ drops = <<>> /\ at \in Nat \ {0}
      /\ 1 \in DOMAIN args /\ (prim \in {"writeIORef", "arraySet"} => 2 \in DOMAIN args)
      /\ \A i \in DOMAIN args :
           /\ args[i] \in Value /\ (args[i] = Null \/ Referred(args[i]))
           /\ Lent(Frames, Len(Frames), args[i]) \/ lost'[args[i]] > 0
  <2> HIDE DEF at
  <2> QED
    BY ExtLost DEF ExtFrame, at
<1>2. /\ this \in Value /\ (this = Null \/ Referred(this))
      /\ Lent(Frames, Len(Frames), this) \/ lost'[this] > 0
  BY <1>1
<1>3. \/ /\ prim = "newIORef" /\ Room(heap)
         /\ Yield(NewIORef(heap, this), Fresh(heap)) /\ drops' = drops
      \/ /\ prim = "readIORef" /\ Is("ref")
         /\ Yield(ReadIORef(heap, this), heap[this].args[1]) /\ drops' = drops
      \/ /\ prim = "writeIORef" /\ Is("ref")
         /\ Yield(WriteIORef(heap, this, args[2]), Null) /\ drops' = <<heap[this].args[1]>>
      \/ /\ prim = "newArray" /\ Room(heap)
         /\ Yield(NewArray(heap, at, this), Fresh(heap)) /\ drops' = drops
      \/ /\ prim = "arrayGet" /\ Is("array")
         /\ Yield(ArrayGet(heap, this, at), heap[this].args[at]) /\ drops' = drops
      \/ /\ prim = "arraySet" /\ Is("array")
         /\ heap' = ArrayTakeOut(heap, this, at)
         /\ drops' = <<heap[this].args[at]>>
         /\ now' = Store(this, at, args[2])
  BY DEF AExtPrim
<1> HIDE DEF prim, args, this, at
<1>4. CASE /\ prim = "newIORef" /\ Room(heap)
           /\ Yield(NewIORef(heap, this), Fresh(heap)) /\ drops' = drops
  <2> DEFINE f == <<this>>
  <2>1. f \in Seq(Value) /\ Len(f) = 1 /\ \A i \in DOMAIN f : f[i] = Null \/ Referred(f[i])
    BY <1>2
  <2>2. /\ heap' = NewValue(NewReferences(heap, f), "ref", NoName, f) /\ now' = Return(Fresh(heap))
        /\ drops' = <<>>
    BY <1>1, <1>4 DEF Yield, NewIORef, NewReference
  <2> HIDE DEF f
  <2> QED
    BY <1>1, <1>4, <2>1, <2>2, NewCell
<1>5. CASE /\ prim = "readIORef" /\ Is("ref")
           /\ Yield(ReadIORef(heap, this), heap[this].args[1]) /\ drops' = drops
  <2>1. this \in Cell
    BY <1>2, <1>5 DEF Value
  <2>2. Len(heap[this].args) = 1 /\ heap[this].args \in Seq(Value)
    BY <1>5, <2>1, FieldsType DEF IInv, HeapOK, CellOK
  <2>3. 1 \in DOMAIN heap[this].args
    BY <2>2
  <2>4. /\ heap' = NewReference(heap, heap[this].args[1]) /\ now' = Return(heap[this].args[1])
        /\ drops' = <<>>
    BY <1>1, <1>5 DEF Yield, ReadIORef
  <2> QED
    BY <1>1, <1>5, <2>1, <2>3, <2>4, GetField DEF ExtFrame
<1>6. CASE /\ prim = "writeIORef" /\ Is("ref")
           /\ Yield(WriteIORef(heap, this, args[2]), Null) /\ drops' = <<heap[this].args[1]>>
  <2>1. this \in Cell
    BY <1>2, <1>6 DEF Value
  <2>2. args[2] \in Value /\ (args[2] = Null \/ Referred(args[2]))
    BY <1>1, <1>6
  <2>3. heap' = WriteIORef(heap, this, args[2]) /\ now' = Return(Null)
    BY <1>6 DEF Yield
  <2> QED
    BY <1>1, <1>6, <2>1, <2>2, <2>3, WriteStep
<1>7. CASE /\ prim = "newArray" /\ Room(heap)
           /\ Yield(NewArray(heap, at, this), Fresh(heap)) /\ drops' = drops
  <2> DEFINE f == [i \in 1..at |-> this]
  <2>1. f \in Seq(Value) /\ \A i \in DOMAIN f : f[i] = Null \/ Referred(f[i])
    BY <1>1, <1>2
  <2>2. /\ heap' = NewValue(NewReferences(heap, f), "array", NoName, f) /\ now' = Return(Fresh(heap))
        /\ drops' = <<>>
    BY <1>1, <1>7 DEF Yield, NewArray, MakeArray
  <2> HIDE DEF f
  <2> QED
    BY <1>1, <1>7, <2>1, <2>2, NewCell
<1>8. CASE /\ prim = "arrayGet" /\ Is("array")
           /\ Yield(ArrayGet(heap, this, at), heap[this].args[at]) /\ drops' = drops
  <2>1. this \in Cell
    BY <1>2, <1>8 DEF Value
  <2>2. /\ heap' = NewReference(heap, heap[this].args[at]) /\ now' = Return(heap[this].args[at])
        /\ drops' = <<>>
    BY <1>1, <1>8 DEF Yield, ArrayGet
  <2> QED
    BY <1>1, <1>8, <2>1, <2>2, GetField DEF ExtFrame
<1>9. CASE /\ prim = "arraySet" /\ Is("array")
           /\ heap' = ArrayTakeOut(heap, this, at)
           /\ drops' = <<heap[this].args[at]>>
           /\ now' = Store(this, at, args[2])
  <2>1. this \in Cell
    BY <1>2, <1>9 DEF Value
  <2>2. /\ args[2] \in Value
        /\ \A u \in {this, args[2]} : Lent(Frames, Len(Frames), u) \/ lost'[u] > 0
    BY <1>1, <1>2, <1>9
  <2> QED
    BY <1>1, <1>9, <2>1, <2>2, TakeOutStep
<1> QED
  BY <1>3, <1>4, <1>5, <1>6, <1>7, <1>8, <1>9

(* arraySet, second half: the array and the new value are still there.        *)
LEMMA ArrayStoreStep ==
    ASSUME IInv, ArrayStore
    PROVE  IInv'
<1> DEFINE array == now.array
           at == now.at
           v == now.value
           f == <<v>>
           g == NewReferences(heap, f)
           args == heap[array].args
           t == [args EXCEPT ![at] = v]
<1>1. /\ drops = <<>> /\ drops' = drops /\ now.kind = "store" /\ stack' = stack
      /\ start' = start /\ lost' = lost /\ now' = Return(Null)
      /\ heap' = ArrayPutIn(heap, array, at, v)
  BY DEF ArrayStore, Pure, Yield
<1>2. /\ array \in Cell /\ v \in Value /\ heap[array].kind = "array" /\ at \in DOMAIN args
      /\ args[at] = Null /\ (Lent(Frames, Len(Frames), v) \/ lost[v] > 0)
  BY <1>1 DEF IInv, StoreOK
<1>3. v = Null \/ Referred(v)
  <2>1. Len(Frames) \in Nat /\ DOMAIN Frames = 1..Len(Frames)
    BY FramesShape DEF IInv
  <2>2. \A j \in 1..(Len(Frames) - 1) : j \in DOMAIN Frames
    BY <2>1
  <2> QED
    BY <1>2, <2>2 DEF Lent, Referred
<1>4. f \in Seq(Value) /\ DOMAIN f = {1} /\ f[1] = v
  BY <1>2
<1> HIDE DEF v
<1>5. PICK k : Raises(f, g, k)
  <2>1. \A i \in DOMAIN f : f[i] = Null \/ Referred(f[i])
    BY <1>3, <1>4
  <2> HIDE DEF f, g
  <2> QED
    BY <1>4, <2>1, RaiseNow DEF g
<1>6. /\ SameContents(heap, g) /\ Ledger(g, k) /\ Spares(g)
      /\ g[array].kind = "array" /\ g[array].args = args /\ Fields(g, array) = args
  BY <1>2, <1>5 DEF Raises, SameContents, Contents, Fields
<1>7. args \in Seq(Value)
  BY <1>2, FieldsType DEF IInv, HeapOK
<1>8. t \in Seq(Value) /\ \A c : Occurrences(t, c) + One(Null, c) = Occurrences(args, c) + One(v, c)
  <2> HIDE DEF args, at
  <2>1. \A c : LET s == [args EXCEPT ![at] = v]
               IN  /\ s \in Seq(Value) /\ Len(s) = Len(args)
                   /\ Occurrences(s, c) + One(args[at], c) = Occurrences(args, c) + One(v, c)
    BY <1>2, <1>7, OccurrencesExcept
  <2> QED
    BY <1>2, <2>1
<1>9. heap' = [g EXCEPT ![array].args = t]
  <2>1. heap' = [g EXCEPT ![array].args[at] = v]
    BY <1>1 DEF ArrayPutIn, NewReference
  <2>2. g[array].args = args
    BY <1>6
  <2> HIDE DEF g
  <2> QED
    BY <2>1, <2>2
<1> HIDE DEF f, g, args, t, array
<1>10. PICK m : Fills(g, k, array, "array", t, heap', m)
  <2>1. Filled(g, array, "array", t, heap')
    BY <1>6, <1>9 DEF Filled
  <2> QED
    BY <1>2, <1>6, <1>8, <2>1, FillLedger
<1>11. Spares(heap') /\ (\A c \in Cell : ~IsFull(heap'[c])) /\ Ledger(heap', m)
  <2>1. now.kind # "return"
    BY <1>1
  <2>2. Spares(heap') /\ \A c \in Cell : ~IsFull(heap'[c])
    BY <1>2, <1>6, <1>10, <2>1, FillSpares
  <2> QED
    BY <1>10, <2>2 DEF Fills
<1>12. ASSUME NEW c \in Cell
       PROVE  m[c] = start.outside[c] + Below(stack, c) + One(Null, c)
                     + Occurrences(drops', c) + lost'[c]
  <2>1. /\ m[c] = k[c] + Occurrences(args, c) - Occurrences(t, c)
        /\ Occurrences(args, c) \in Nat /\ Occurrences(t, c) \in Nat
    BY <1>6, <1>10 DEF Fills
  <2>2. k[c] = Roots(c) + One(v, c)
    BY <1>5, OccurrencesSmall DEF Raises, f
  <2>3. One(Null, c) = 0 /\ Occurrences(drops, c) = 0 /\ InFrame(now, c) = 0
    BY <1>1, OccurrencesSmall, ValuePlaces DEF One, Null, Cell, IsEnv
  <2>4. PICK a \in Nat, b \in Nat, l \in Nat, q \in Nat, r \in Nat, o \in Nat :
           /\ a = start.outside[c] /\ b = Below(stack, c) /\ l = lost[c]
           /\ q = One(v, c) /\ r = Occurrences(args, c) /\ o = Occurrences(t, c)
    BY <2>1, RootsSum DEF One
  <2>5. Roots(c) = a + b + 0 + 0 + l
    <3>1. Roots(c) = start.outside[c] + Below(stack, c) + InFrame(now, c)
                     + Occurrences(drops, c) + lost[c]
      BY RootsSum
    <3> QED
      BY <2>3, <2>4, <3>1
  <2>6. o + 0 = r + q
    BY <1>8, <2>3, <2>4
  <2>7. m[c] = ((a + b + 0 + 0 + l) + q) + r - o
    BY <2>1, <2>2, <2>4, <2>5
  <2>8. m[c] = a + b + 0 + 0 + l
    BY <2>6, <2>7
  <2>9. Occurrences(drops', c) = 0 /\ lost'[c] = l
    BY <1>1, <2>3, <2>4
  <2> QED
    BY <2>3, <2>4, <2>8, <2>9, Zenon
<1> QED
  <2>1. drops' \in Seq(Value) /\ lost' \in [Cell -> Nat] /\ Null \in Value
    BY <1>1 DEF IInv, ShapeOK, Value
  <2> QED
    BY <1>1, <1>11, <1>12, <2>1, ReturnStep

\* What a case does that takes the branch b.
Scrutinee == now.locals[now.term.sc]
FieldNames(b) == ToSet(b.args)
CaseLocals(b) ==
    IF FieldNames(b) = {} THEN now.locals ELSE Over(Binding(b.args, heap[Scrutinee].args), now.locals)
OwnedStill(b) == IF b.con \in NullCons THEN now.owned \ {now.term.sc} ELSE now.owned
Mine(b) == FieldNames(b) \cup OwnedStill(b)
Dropped(b) == Mine(b) \ FreeVariables(b.body)
Reusing(b) == MayReuse(b.con, Dropped(b), UsedConstructors(b.body))
Unique(b) == Reusing(b) /\ IsUnique(heap, Scrutinee)
\* The variables that are dropped one by one, and the tokens of the branch.
Rest(b) == Dropped(b) \ (FieldNames(b) \cup (IF Reusing(b) THEN {now.term.sc} ELSE {}))
BranchReuse(b) ==
    Over(Kept(now.reuse, UsedConstructors(b.body)),
         IF Reusing(b) THEN Only(b.con, IF Unique(b) THEN Scrutinee ELSE Null) ELSE NoReuse)
CaseTaken(b) ==
    /\ Node("case")
    /\ Scrutinee # Null => heap[Scrutinee].kind = "con"
    /\ b \in Branches(now.term, Scrutinee = Null,
                      IF Scrutinee = Null THEN NoName ELSE heap[Scrutinee].name)
    /\ b.con \notin NullCons \cup {NoName} => Len(heap[Scrutinee].args) = Len(b.args)
    /\ heap' = IF Unique(b) THEN [heap EXCEPT ![Scrutinee].kind = "token"]
               ELSE NewReferences(heap, Restrict(CaseLocals(b), FieldNames(b) \ Dropped(b)))
    /\ drops' = (IF Reusing(b) /\ ~Unique(b) THEN <<Scrutinee>> ELSE <<>>)
                \o ValuesOf(Rest(b), CaseLocals(b))
                \o Tokens(Without(now.reuse, UsedConstructors(b.body)))
    /\ now' = Run(b.body, CaseLocals(b), Mine(b) \ Dropped(b), BranchReuse(b), now.tail)
    /\ lost' = [c \in Cell |-> lost[c] + Cardinality({x \in (IF Unique(b) THEN FieldNames(b) \cap Dropped(b)
                                                             ELSE {}) : CaseLocals(b)[x] = c})]
    /\ stack' = stack /\ start' = start

(* AConCase takes a branch.                                                  *)
LEMMA CaseBranch ==
    ASSUME AConCase
    PROVE  \E b : CaseTaken(b)
BY DEF AConCase, CaseTaken, Scrutinee, FieldNames, CaseLocals, OwnedStill, Mine, Dropped, Reusing,
       Unique, Rest, BranchReuse, Lose

\* What is known of the branch: the fields are new variables, and a constructor
\* with fields is a cell that matched.
BranchOK(b) ==
    /\ drops = <<>> /\ now.kind = "run" /\ b.body \in Term
    /\ now.term.sc \in FreeVariables(now.term)
    /\ b.args \in Seq(STRING) /\ IsInjective(b.args)
    /\ FieldNames(b) \cap FreeVariables(now.term) = {}
    /\ FreeVariables(b.body) \subseteq FreeVariables(now.term) \cup FieldNames(b)
    /\ UsedConstructors(b.body) \subseteq UsedConstructors(now.term)
    /\ b.con \in NullCons \cup {NoName} => FieldNames(b) = {}
    /\ b.con \in NullCons => Scrutinee = Null
    /\ b.con \notin NullCons \cup {NoName} =>
         /\ Scrutinee \in Cell /\ heap[Scrutinee].kind = "con"
         /\ Len(heap[Scrutinee].args) = Len(b.args)
    /\ Reusing(b) => /\ b.con \notin NullCons \cup {NoName}
                     /\ now.term.sc \in now.owned \cap Dropped(b)
                     /\ b.con \in UsedConstructors(b.body) \ DOMAIN now.reuse

(* The branch that is taken is an alternative that matches, or the default.   *)
LEMMA CaseShape ==
    ASSUME IInv, NEW b, CaseTaken(b)
    PROVE  BranchOK(b)
<1> DEFINE t == now.term
           null == Scrutinee = Null
           name == IF null THEN NoName ELSE heap[Scrutinee].name
<1>1. /\ drops = <<>> /\ now.kind = "run" /\ t.op = "case" /\ t \in Term /\ WellFormed(t)
      /\ Subterms(t) \subseteq Term /\ b \in Branches(t, null, name)
      /\ Scrutinee # Null => heap[Scrutinee].kind = "con"
      /\ b.con \notin NullCons \cup {NoName} => Len(heap[Scrutinee].args) = Len(b.args)
  BY NowEnv DEF CaseTaken, Node
<1>2. /\ t.sc \in FreeVariables(t)
      /\ \A alt \in ToSet(t.alts) :
           /\ alt.args \in Seq(STRING) /\ IsInjective(alt.args)
           /\ alt.con # NoName /\ (alt.con \in NullCons => alt.args = <<>>)
           /\ ToSet(alt.args) \cap FreeVariables(t) = {}
           /\ FreeVariables(alt.body) \subseteq FreeVariables(t) \cup ToSet(alt.args)
           /\ UsedConstructors(alt.body) \subseteq UsedConstructors(t)
           /\ alt.body \in Term
      /\ \A body \in ToSet(t.def) :
           /\ FreeVariables(body) \subseteq FreeVariables(t)
           /\ UsedConstructors(body) \subseteq UsedConstructors(t)
           /\ body \in Term
      /\ NoName \notin UsedConstructors(t)
  BY <1>1 DEF WellFormed, Subterms
<1>3. Scrutinee \in Value
  BY <1>1, <1>2, ReadsReferred DEF Scrutinee
<1>4. \/ b \in ToSet(t.alts) /\ Matches(b, null, name)
      \/ /\ b.con = NoName /\ b.args = <<>> /\ b.body \in ToSet(t.def)
  <2> HIDE DEF t, null, name
  <2> QED
    BY <1>1 DEF Branches, ToSet
<1>5. /\ b.body \in Term /\ b.args \in Seq(STRING) /\ IsInjective(b.args)
      /\ FieldNames(b) \cap FreeVariables(t) = {}
      /\ FreeVariables(b.body) \subseteq FreeVariables(t) \cup FieldNames(b)
      /\ UsedConstructors(b.body) \subseteq UsedConstructors(t)
      /\ b.con \in NullCons \cup {NoName} => FieldNames(b) = {}
  <2>1. CASE b \in ToSet(t.alts)
    <3>1. b.args = <<>> => FieldNames(b) = {}
      BY DEF FieldNames, ToSet
    <3> QED
      BY <1>2, <2>1, <3>1 DEF FieldNames
  <2>2. CASE b.con = NoName /\ b.args = <<>> /\ b.body \in ToSet(t.def)
    <3>1. FieldNames(b) = {} /\ IsInjective(b.args)
      BY <2>2 DEF FieldNames, ToSet, IsInjective
    <3> QED
      BY <1>2, <2>2, <3>1
  <2> QED
    BY <1>4, <2>1, <2>2
<1>6. /\ b.con \in NullCons => Scrutinee = Null
      /\ b.con \notin NullCons \cup {NoName} =>
           Scrutinee \in Cell /\ heap[Scrutinee].kind = "con"
  BY <1>1, <1>3, <1>4, ProgramAssumption DEF Matches, Value
<1>7. ASSUME Reusing(b)
      PROVE  /\ b.con \notin NullCons \cup {NoName}
             /\ t.sc \in now.owned \cap Dropped(b)
             /\ b.con \in UsedConstructors(b.body) \ DOMAIN now.reuse
  <2>1. /\ b.con \notin DOMAIN now.reuse /\ b.con \in UsedConstructors(b.body)
        /\ t.sc \in Dropped(b)
    BY <1>7 DEF Reusing, MayReuse
  <2>2. t.sc \in OwnedStill(b)
    BY <1>2, <1>5, <2>1 DEF Dropped, Mine
  <2> QED
    BY <1>2, <1>5, <2>1, <2>2 DEF OwnedStill
<1> HIDE DEF t, null, name
<1> QED
  BY <1>1, <1>2, <1>5, <1>6, <1>7 DEF BranchOK, t

\* The variables of the branch: the fields, and those that were there.
CaseVars(b) ==
    LET locals == CaseLocals(b)
        values == heap[Scrutinee].args
    IN  /\ FreeVariables(now.term) \cup FieldNames(b) \subseteq DOMAIN locals
        /\ \A x \in DOMAIN locals : locals[x] \in Value
        /\ \A x \in FreeVariables(now.term) : locals[x] = now.locals[x]
        /\ \A x \in FieldNames(b) : \E i \in DOMAIN values : locals[x] = values[i]
        /\ IsFiniteSet(FieldNames(b))
        /\ b.con \notin NullCons \cup {NoName} =>
             \A c : Occurrences(values, c) = Count(locals, FieldNames(b), c)

(* The fields of the constructor become variables.                            *)
LEMMA CaseBinding ==
    ASSUME IInv, NEW b, BranchOK(b)
    PROVE  CaseVars(b)
<1> DEFINE locals == CaseLocals(b)
           values == heap[Scrutinee].args
           xs == FieldNames(b)
           named == Binding(b.args, values)
<1>1. /\ FreeVariables(now.term) \subseteq DOMAIN now.locals
      /\ \A x \in DOMAIN now.locals : now.locals[x] \in Value
      /\ xs \cap FreeVariables(now.term) = {} /\ xs = ToSet(b.args)
      /\ b.args \in Seq(STRING) /\ IsInjective(b.args)
  BY NowEnv DEF BranchOK, EnvOK, FieldNames
<1>2. ASSUME b.con \notin NullCons \cup {NoName}
      PROVE  /\ values \in Seq(Value) /\ Len(values) = Len(b.args)
             /\ DOMAIN named = xs /\ IsFiniteSet(xs)
             /\ \A i \in DOMAIN b.args : named[b.args[i]] = values[i]
             /\ \A x \in xs : named[x] \in Value
             /\ \A c : Occurrences(values, c) = Count(named, xs, c)
  <2>1. values \in Seq(Value) /\ Len(values) = Len(b.args)
    BY <1>2, FieldsType DEF BranchOK, IInv, HeapOK
  <2> HIDE DEF values
  <2> QED
    BY <1>1, <2>1, BindingCount
<1>3. CASE xs = {}
  <2>1. locals = now.locals /\ IsFiniteSet(xs)
    BY <1>3, FS_EmptySet DEF CaseLocals
  <2>2. ASSUME b.con \notin NullCons \cup {NoName}, NEW c
        PROVE  Occurrences(values, c) = Count(locals, xs, c)
    <3>1. DOMAIN b.args = {}
      BY <1>1, <1>3 DEF ToSet
    <3>2. Len(values) = 0 /\ values \in Seq(Value)
      <4>1. Len(values) = Len(b.args) /\ values \in Seq(Value)
        BY <1>2, <2>2
      <4>2. Len(b.args) = 0
        <5>1. Len(b.args) \in Nat /\ DOMAIN b.args = 1..Len(b.args)
          BY <1>1
        <5>2. Len(b.args) # 0 => 1 \in 1..Len(b.args)
          BY <5>1
        <5> QED
          BY <3>1, <5>1, <5>2
      <4> QED
        BY <4>1, <4>2
    <3>3. values = <<>>
      BY <3>2
    <3> HIDE DEF values, locals, xs
    <3>4. Occurrences(values, c) = 0
      BY <3>3, OccurrencesSmall
    <3>5. Count(locals, xs, c) = 0
      BY <1>3, <2>1, CountType
    <3> QED
      BY <3>4, <3>5
  <2> HIDE DEF locals, values, xs
  <2> QED
    BY <1>1, <1>3, <2>1, <2>2 DEF CaseVars, locals, values, xs
<1>4. CASE xs # {}
  <2>1. b.con \notin NullCons \cup {NoName}
    BY <1>4 DEF BranchOK
  <2>2. locals = Over(named, now.locals)
    BY <1>4 DEF CaseLocals
  <2> HIDE DEF named
  <2>3. /\ DOMAIN locals = xs \cup DOMAIN now.locals
        /\ \A x \in xs : locals[x] = named[x]
        /\ \A x \in DOMAIN now.locals \ xs : locals[x] = now.locals[x]
    <3>1. DOMAIN named = xs
      BY <1>2, <2>1
    <3> HIDE DEF xs, locals
    <3> QED
      BY <2>2, <3>1 DEF Over
  <2> HIDE DEF locals, values, xs
  <2>4. \A x \in xs : \E i \in DOMAIN values : locals[x] = values[i]
    <3>1. \A x \in xs : \E i \in DOMAIN b.args : x = b.args[i]
      BY <1>1 DEF ToSet
    <3>2. DOMAIN values = DOMAIN b.args
      BY <1>1, <1>2, <2>1
    <3> QED
      BY <1>2, <2>1, <2>3, <3>1, <3>2
  <2>5. \A c : Occurrences(values, c) = Count(locals, xs, c)
    BY <1>2, <2>1, <2>3, CountSame
  <2>6. \A x \in DOMAIN locals : locals[x] \in Value
    BY <1>1, <1>2, <2>1, <2>3
  <2>7. FreeVariables(now.term) \cup xs \subseteq DOMAIN locals
    BY <1>1, <2>3
  <2>8. \A x \in FreeVariables(now.term) : locals[x] = now.locals[x]
    BY <1>1, <2>3
  <2> QED
    BY <1>2, <2>1, <2>4, <2>5, <2>6, <2>7, <2>8 DEF CaseVars, locals, values, xs
<1> QED
  BY <1>3, <1>4

\* The variables the branch keeps, of those that were owned and of the fields.
KeptOwned(b) == OwnedStill(b) \ Dropped(b)
KeptFields(b) == FieldNames(b) \ Dropped(b)
LostFields(b) == FieldNames(b) \cap Dropped(b)
\* The references of the variables that are owned are shared out.
CaseShares(b) ==
    LET locals == CaseLocals(b)
    IN  /\ IsFiniteSet(KeptOwned(b)) /\ IsFiniteSet(KeptFields(b))
        /\ IsFiniteSet(LostFields(b)) /\ IsFiniteSet(Rest(b)) /\ Rest(b) \subseteq DOMAIN locals
        /\ IsFiniteSet(Mine(b) \ Dropped(b))
        /\ \A c \in Cell :
             /\ Count(locals, KeptOwned(b), c) \in Nat /\ Count(locals, KeptFields(b), c) \in Nat
             /\ Count(locals, LostFields(b), c) \in Nat /\ Count(locals, Rest(b), c) \in Nat
             /\ Count(now.locals, now.owned, c)
                  = Count(locals, KeptOwned(b), c) + Count(locals, Rest(b), c)
                    + (IF Reusing(b) THEN One(Scrutinee, c) ELSE 0)
             /\ Count(locals, FieldNames(b), c)
                  = Count(locals, KeptFields(b), c) + Count(locals, LostFields(b), c)
             /\ Count(locals, Mine(b) \ Dropped(b), c)
                  = Count(locals, KeptOwned(b), c) + Count(locals, KeptFields(b), c)

(* Sums of natural numbers.                                                   *)
LEMMA AddZero ==
    ASSUME NEW i \in Nat, NEW j \in Nat
    PROVE  i + j + 0 = i + j
  OBVIOUS

(* Sums of natural numbers.                                                   *)
LEMMA AddAssoc ==
    ASSUME NEW i \in Nat, NEW j \in Nat, NEW k \in Nat
    PROVE  i + (j + k) = i + j + k
  OBVIOUS

(* What the node owned is kept or dropped, and so are the fields.             *)
LEMMA CaseCounts ==
    ASSUME IInv, NEW b, BranchOK(b), CaseVars(b)
    PROVE  CaseShares(b)
<1> DEFINE locals == CaseLocals(b)
           sc == now.term.sc
           fields == FieldNames(b)
           still == OwnedStill(b)
           dropped == Dropped(b)
           K == KeptOwned(b)
           F == KeptFields(b)
           G == LostFields(b)
           rest == Rest(b)
           reusing == Reusing(b)
<1>1. /\ now.owned \subseteq FreeVariables(now.term) /\ IsFiniteSet(now.owned)
      /\ still = (IF b.con \in NullCons THEN now.owned \ {sc} ELSE now.owned)
      /\ still \subseteq now.owned
      /\ IsFiniteSet(fields) /\ fields \cap FreeVariables(now.term) = {}
      /\ sc \in FreeVariables(now.term)
      /\ \A x \in FreeVariables(now.term) : locals[x] = now.locals[x]
      /\ FreeVariables(now.term) \cup fields \subseteq DOMAIN locals
  BY NowEnv DEF BranchOK, CaseVars, EnvOK, OwnedStill
<1>2. /\ dropped \subseteq fields \cup still
      /\ K = still \ dropped /\ F = fields \ dropped /\ G = fields \cap dropped
      /\ Mine(b) \ dropped = K \cup F
      /\ rest = dropped \ (fields \cup (IF reusing THEN {sc} ELSE {}))
  BY DEF Dropped, Mine, KeptOwned, KeptFields, LostFields, Rest
<1>3. reusing => sc \in dropped
  BY DEF BranchOK
<1> HIDE DEF locals, fields, still, dropped, K, F, G, rest, reusing
<1>4. /\ IsFiniteSet(still) /\ IsFiniteSet(dropped \ fields)
      /\ IsFiniteSet(K) /\ IsFiniteSet(F) /\ IsFiniteSet(G) /\ IsFiniteSet(rest)
      /\ IsFiniteSet(K \cup F)
  <2>1. /\ still \in SUBSET now.owned /\ dropped \ fields \in SUBSET now.owned
        /\ K \in SUBSET now.owned /\ F \in SUBSET fields /\ G \in SUBSET fields
        /\ rest \in SUBSET now.owned
    BY <1>1, <1>2
  <2> QED
    BY <1>1, <2>1, FS_Subset, FS_Union
<1>5. ASSUME NEW c \in Cell
      PROVE  Count(now.locals, now.owned, c)
               = Count(locals, K, c) + Count(locals, rest, c)
                 + (IF reusing THEN One(Scrutinee, c) ELSE 0)
  <2>1. Count(now.locals, now.owned, c) = Count(now.locals, still, c)
    <3>1. {x \in now.owned : now.locals[x] = c} = {x \in still : now.locals[x] = c}
      <4>1. b.con \in NullCons => now.locals[sc] # c
        BY DEF BranchOK, Scrutinee, Null, Cell
      <4> QED
        BY <1>1, <4>1
    <3> QED
      BY <3>1 DEF Count
  <2>2. Count(now.locals, still, c) = Count(locals, still, c)
    <3>1. \A x \in still : now.locals[x] = locals[x]
      BY <1>1
    <3> QED
      BY <3>1, CountSame
  <2>3. /\ K \cap (dropped \ fields) = {} /\ K \cup (dropped \ fields) = still
    BY <1>1, <1>2
  <2>4. Count(locals, K \cup (dropped \ fields), c)
          = Count(locals, K, c) + Count(locals, dropped \ fields, c)
    BY <1>4, <2>3, CountSplit
  <2>7. Count(now.locals, now.owned, c)
          = Count(locals, K, c) + Count(locals, dropped \ fields, c)
    BY <2>1, <2>2, <2>3, <2>4
  <2>8. /\ Count(locals, K, c) \in Nat /\ Count(locals, rest, c) \in Nat
        /\ One(Scrutinee, c) \in Nat
    BY <1>4, CountType DEF One
  <2>5. CASE ~reusing
    <3>1. rest = dropped \ fields
      BY <1>2, <2>5
    <3>2. Count(now.locals, now.owned, c) = Count(locals, K, c) + Count(locals, rest, c)
      BY <2>7, <3>1
    <3> QED
      BY <2>5, <2>8, <3>2, AddZero
  <2>6. CASE reusing
    <3>1. dropped \ fields = rest \cup {sc} /\ sc \notin rest
      BY <1>1, <1>2, <1>3, <2>6
    <3>2. Count(locals, rest \cup {sc}, c) = Count(locals, rest, c) + One(locals[sc], c)
      BY <1>4, <3>1, CountMore
    <3>3. locals[sc] = Scrutinee
      BY <1>1 DEF Scrutinee
    <3>4. Count(now.locals, now.owned, c)
            = Count(locals, K, c) + (Count(locals, rest, c) + One(Scrutinee, c))
      BY <2>7, <3>1, <3>2, <3>3
    <3> QED
      BY <2>6, <2>8, <3>4, AddAssoc
  <2> QED
    BY <2>5, <2>6
<1>6. ASSUME NEW c \in Cell
      PROVE  /\ Count(locals, fields, c) = Count(locals, F, c) + Count(locals, G, c)
             /\ Count(locals, K \cup F, c) = Count(locals, K, c) + Count(locals, F, c)
             /\ Count(locals, K, c) \in Nat /\ Count(locals, F, c) \in Nat
             /\ Count(locals, G, c) \in Nat /\ Count(locals, rest, c) \in Nat
  <2>1. F \cap G = {} /\ F \cup G = fields /\ K \cap F = {}
    BY <1>1, <1>2
  <2>2. Count(locals, F \cup G, c) = Count(locals, F, c) + Count(locals, G, c)
    BY <1>4, <2>1, CountSplit
  <2>3. Count(locals, K \cup F, c) = Count(locals, K, c) + Count(locals, F, c)
    BY <1>4, <2>1, CountSplit
  <2>4. /\ Count(locals, K, c) \in Nat /\ Count(locals, F, c) \in Nat
        /\ Count(locals, G, c) \in Nat /\ Count(locals, rest, c) \in Nat
    BY <1>4, CountType
  <2> QED
    BY <2>1, <2>2, <2>3, <2>4
<1>7. rest \subseteq DOMAIN locals
  BY <1>1, <1>2
<1> QED
  BY <1>2, <1>4, <1>5, <1>6, <1>7 DEF CaseShares, locals, fields, dropped, K, F, G, rest, reusing

\* The tokens of the branch: those that its body may use, and the scrutinee.
CaseReuse(b) ==
    LET r == BranchReuse(b)
        kept == Kept(now.reuse, UsedConstructors(b.body))
    IN  /\ IsFiniteSet(DOMAIN r) /\ DOMAIN r \subseteq UsedConstructors(b.body) \ NullCons
        /\ \A con \in DOMAIN r : \/ r[con] = Null \/ r[con] \in SoloCells(now)
                                 \/ Unique(b) /\ r[con] = Scrutinee
        /\ \A c \in Cell :
             Count(r, DOMAIN r, c)
               = Count(kept, DOMAIN kept, c) + (IF Unique(b) THEN One(Scrutinee, c) ELSE 0)

(* The scrutinee is a token exactly if the branch keeps it.                   *)
LEMMA CaseTokens ==
    ASSUME IInv, NEW b, BranchOK(b)
    PROVE  CaseReuse(b)
<1> DEFINE r == BranchReuse(b)
           used == UsedConstructors(b.body)
           kept == Kept(now.reuse, used)
           token == IF Unique(b) THEN Scrutinee ELSE Null
<1>1. /\ DOMAIN kept = DOMAIN now.reuse \cap used
      /\ \A con \in DOMAIN kept : kept[con] = now.reuse[con]
  BY DEF Kept, Restrict
<1>2. /\ EnvOK(now) /\ IsEnv(now) /\ IsFiniteSet(DOMAIN now.reuse)
  BY NowEnv DEF BranchOK
<1>3. IsFiniteSet(DOMAIN kept)
  <2>1. DOMAIN kept \in SUBSET DOMAIN now.reuse
    BY <1>1
  <2> QED
    BY <1>2, <2>1, FS_Subset
<1>4. DOMAIN kept \subseteq used \ NullCons
  BY <1>1, <1>2 DEF EnvOK
<1>5. \A con \in DOMAIN kept : kept[con] = Null \/ kept[con] \in SoloCells(now)
  BY <1>1, <1>2 DEF SoloCells
<1>6. CASE ~Reusing(b)
  <2>1. r = Over(kept, NoReuse) /\ DOMAIN NoReuse = {}
    BY <1>6 DEF BranchReuse, NoReuse
  <2>2. DOMAIN r = DOMAIN kept /\ \A con \in DOMAIN r : r[con] = kept[con]
    BY <2>1 DEF Over
  <2>3. ~Unique(b)
    BY <1>6 DEF Unique
  <2> HIDE DEF r, kept, used
  <2>4. ASSUME NEW c \in Cell
        PROVE  Count(r, DOMAIN r, c)
                 = Count(kept, DOMAIN kept, c) + (IF Unique(b) THEN One(Scrutinee, c) ELSE 0)
    <3>1. Count(r, DOMAIN r, c) = Count(kept, DOMAIN kept, c)
      BY <2>2, CountSame
    <3>2. Count(kept, DOMAIN kept, c) \in Nat
      BY <1>3, CountType
    <3> QED
      BY <2>3, <3>1, <3>2
  <2>5. \A con \in DOMAIN r : r[con] = Null \/ r[con] \in SoloCells(now)
    BY <1>5, <2>2
  <2> QED
    BY <1>3, <1>4, <2>2, <2>4, <2>5 DEF CaseReuse, r, kept, used
<1>7. CASE Reusing(b)
  <2>1. r = Over(kept, Only(b.con, token))
    BY <1>7 DEF BranchReuse
  <2>2. b.con \in used /\ b.con \notin DOMAIN now.reuse /\ b.con \notin NullCons
    BY <1>7 DEF BranchOK
  <2>3. /\ DOMAIN r = DOMAIN kept \cup {b.con} /\ b.con \notin DOMAIN kept
        /\ \A con \in DOMAIN kept : r[con] = kept[con]
        /\ r[b.con] = token
    <3>1. DOMAIN Only(b.con, token) = {b.con} /\ Only(b.con, token)[b.con] = token
      BY DEF Only
    <3>2. b.con \notin DOMAIN kept
      BY <1>1, <2>2
    <3> HIDE DEF r, kept, token
    <3> QED
      BY <2>1, <3>1, <3>2 DEF Over
  <2>4. token \in {Null, Scrutinee} /\ (token # Null => Unique(b))
    OBVIOUS
  <2>5. \A c \in Cell : One(token, c) = IF Unique(b) THEN One(Scrutinee, c) ELSE 0
    BY DEF One, Null, Cell
  <2> HIDE DEF r, kept, used, token
  <2>6. ASSUME NEW c \in Cell
        PROVE  Count(r, DOMAIN r, c) = Count(kept, DOMAIN kept, c) + One(token, c)
    <3>1. Count(r, DOMAIN kept \cup {b.con}, c) = Count(r, DOMAIN kept, c) + One(r[b.con], c)
      BY <1>3, <2>3, CountMore
    <3>2. Count(r, DOMAIN kept, c) = Count(kept, DOMAIN kept, c)
      BY <2>3, CountSame
    <3> QED
      BY <2>3, <3>1, <3>2
  <2>7. IsFiniteSet(DOMAIN r)
    BY <1>3, <2>3, FS_AddElement
  <2>8. DOMAIN r \subseteq used \ NullCons
    BY <1>4, <2>2, <2>3
  <2>9. \A con \in DOMAIN r : \/ r[con] = Null \/ r[con] \in SoloCells(now)
                              \/ Unique(b) /\ r[con] = Scrutinee
    BY <1>5, <2>3, <2>4
  <2>10. \A c \in Cell :
            Count(r, DOMAIN r, c)
              = Count(kept, DOMAIN kept, c) + (IF Unique(b) THEN One(Scrutinee, c) ELSE 0)
    BY <2>5, <2>6
  <2> QED
    BY <2>7, <2>8, <2>9, <2>10 DEF CaseReuse, r, kept, used
<1> QED
  BY <1>6, <1>7

\* The environment of the branch.
CaseFrame(b) ==
    LET locals == CaseLocals(b)
        kept == Kept(now.reuse, UsedConstructors(b.body))
    IN  /\ now'.kind = "run" /\ FrameOK(Frames', Len(stack) + 1)
        /\ SoloCells(now') \subseteq SoloCells(now) \cup (IF Unique(b) THEN {Scrutinee} ELSE {})
        /\ \A c \in Cell :
             /\ InFrame(now', c)
                  = Count(locals, KeptOwned(b), c) + Count(locals, KeptFields(b), c)
                    + (Count(kept, DOMAIN kept, c) + (IF Unique(b) THEN One(Scrutinee, c) ELSE 0))
             /\ Count(kept, DOMAIN kept, c) \in Nat

(* The branch runs with the variables it owns, and borrows the others from   *)
(* those that the case borrows.                                              *)
LEMMA CaseEnv ==
    ASSUME IInv, NEW b, CaseTaken(b), BranchOK(b), CaseVars(b), CaseShares(b), CaseReuse(b)
    PROVE  CaseFrame(b)
<1> DEFINE locals == CaseLocals(b)
           r == BranchReuse(b)
           mine == Mine(b)
           dropped == Dropped(b)
           fv == FreeVariables(b.body)
           n == Len(stack)
           kept == Kept(now.reuse, UsedConstructors(b.body))
<1>1. /\ now' = Run(b.body, locals, mine \ dropped, r, now.tail)
      /\ stack' = stack /\ now.kind = "run"
  BY DEF CaseTaken, Node
<1>2. /\ now'.kind = "run" /\ now'.term = b.body /\ now'.locals = locals
      /\ now'.owned = mine \ dropped /\ now'.reuse = r /\ now'.tail = now.tail
  BY <1>1 DEF Run
<1>3. /\ EnvOK(now) /\ IsEnv(now) /\ Needs(now) = FreeVariables(now.term)
  BY <1>1, NowEnv
<1>4. IsEnv(now') /\ Needs(now') = fv
  BY <1>2 DEF IsEnv, Needs
<1>5. dropped = mine \ fv
  BY DEF Dropped
<1>6. /\ FreeVariables(now.term) \cup FieldNames(b) \subseteq DOMAIN locals
      /\ \A x \in DOMAIN locals : locals[x] \in Value
      /\ \A x \in FreeVariables(now.term) : locals[x] = now.locals[x]
      /\ fv \subseteq FreeVariables(now.term) \cup FieldNames(b)
      /\ b.body \in Term
  BY DEF CaseVars, BranchOK
<1>7. /\ IsFiniteSet(DOMAIN r) /\ DOMAIN r \subseteq UsedConstructors(b.body) \ NullCons
      /\ \A con \in DOMAIN r : \/ r[con] = Null \/ r[con] \in SoloCells(now)
                               \/ Unique(b) /\ r[con] = Scrutinee
      /\ \A c \in Cell : Count(r, DOMAIN r, c)
                           = Count(kept, DOMAIN kept, c) + (IF Unique(b) THEN One(Scrutinee, c) ELSE 0)
  BY DEF CaseReuse
<1>8. Unique(b) => Scrutinee \in Cell
  BY DEF Unique, BranchOK
<1>9. /\ IsFiniteSet(mine \ dropped)
      /\ \A c \in Cell : Count(locals, mine \ dropped, c)
                           = Count(locals, KeptOwned(b), c) + Count(locals, KeptFields(b), c)
  BY DEF CaseShares
<1> HIDE DEF locals, r, mine, dropped, kept, fv
<1>10. EnvOK(now')
  <2>1. \A con \in DOMAIN r : r[con] \in Value
    <3>1. SoloCells(now) \subseteq Cell
      BY <1>1, NowEnv
    <3> QED
      BY <1>7, <1>8, <3>1 DEF Value
  <2>2. fv \subseteq DOMAIN locals /\ mine \ dropped \subseteq fv
    BY <1>5, <1>6
  <2>3. now.tail \in BOOLEAN
    BY <1>3 DEF EnvOK
  <2>4. DOMAIN now'.reuse \subseteq UsedConstructors(now'.term) \ NullCons
    BY <1>2, <1>7
  <2>5. now'.term \in Term /\ now'.owned \subseteq Needs(now') /\ Needs(now') \subseteq DOMAIN now'.locals
    BY <1>2, <1>4, <1>6, <2>2
  <2>6. \A x \in DOMAIN now'.locals : now'.locals[x] \in Value
    BY <1>2, <1>6
  <2>7. (\A con \in DOMAIN now'.reuse : now'.reuse[con] \in Value) /\ now'.tail \in BOOLEAN
    BY <1>2, <2>1, <2>3
  <2> QED
    BY <2>4, <2>5, <2>6, <2>7 DEF EnvOK
<1>11. SoloCells(now') \subseteq SoloCells(now) \cup (IF Unique(b) THEN {Scrutinee} ELSE {})
  BY <1>2, <1>4, <1>7 DEF SoloCells
<1>12. ASSUME NEW c \in Cell
       PROVE  /\ InFrame(now', c)
                   = Count(locals, KeptOwned(b), c) + Count(locals, KeptFields(b), c)
                     + (Count(kept, DOMAIN kept, c) + (IF Unique(b) THEN One(Scrutinee, c) ELSE 0))
              /\ Count(kept, DOMAIN kept, c) \in Nat
  <2>1. InFrame(now', c) = Count(now'.locals, now'.owned, c) + Count(now'.reuse, DOMAIN now'.reuse, c)
    BY <1>2, <1>4, <1>7, <1>9, EnvPlaces
  <2>2. InFrame(now', c) = Count(locals, mine \ dropped, c) + Count(r, DOMAIN r, c)
    BY <1>2, <2>1
  <2>3. IsFiniteSet(DOMAIN now.reuse)
    BY <1>1, NowEnv
  <2>4. Count(kept, DOMAIN kept, c) \in Nat
    BY <2>3, ReuseSplit DEF Shares, kept
  <2> QED
    BY <1>7, <1>9, <2>2, <2>4
<1>13. FrameOK(Frames', n + 1)
  <2>1. /\ n \in Nat /\ Frames'[n + 1] = now' /\ \A j \in 1..n : Frames'[j] = Frames[j]
        /\ Frames[n + 1] = now /\ FrameOK(Frames, n + 1)
    <3>1. /\ n \in Nat /\ Frames[n + 1] = now /\ DOMAIN Frames = 1..(n + 1)
          /\ \A j \in 1..n : Frames[j] = stack[j]
      BY FramesShape DEF IInv
    <3>2. Frames'[n + 1] = now' /\ \A j \in 1..n : Frames'[j] = stack'[j]
      BY <1>1, StackNext
    <3>3. FrameOK(Frames, n + 1)
      BY <3>1 DEF IInv, FramesOK
    <3> QED
      BY <1>1, <3>1, <3>2, <3>3
  <2> HIDE DEF n
  <2>2. \A v : Lent(Frames, n + 1, v) => Lent(Frames', n + 1, v)
    BY <2>1 DEF Lent
  <2>3. ASSUME NEW x \in fv \ (mine \ dropped)
        PROVE  Lent(Frames', n + 1, locals[x])
    <3>1. x \notin mine
      BY <1>5
    <3>2. x \in FreeVariables(now.term) /\ x \notin OwnedStill(b)
      BY <1>6, <3>1 DEF mine, Mine
    <3>3. locals[x] = now.locals[x]
      BY <1>6, <3>2
    <3>4. CASE x \notin now.owned
      <4>1. Lent(Frames, n + 1, now.locals[x])
        BY <1>3, <2>1, <3>2, <3>4 DEF FrameOK
      <4> QED
        BY <2>2, <3>3, <4>1
    <3>5. CASE x \in now.owned
      <4>1. b.con \in NullCons /\ x = now.term.sc
        BY <3>2, <3>5 DEF OwnedStill
      <4>2. locals[x] = Null
        BY <3>3, <4>1 DEF BranchOK, Scrutinee
      <4> QED
        BY <4>2 DEF Lent
    <3> QED
      BY <3>4, <3>5
  <2>4. now.tail => n + 1 > 1 /\ Frames'[n + 1 - 1].kind = "trampoline"
    BY <1>3, <2>1 DEF FrameOK
  <2>5. now'.kind # "trampoline" /\ now'.kind # "return"
    BY <1>2
  <2>6. \A x \in Needs(now') \ now'.owned : Lent(Frames', n + 1, now'.locals[x])
    BY <1>2, <1>4, <2>3
  <2> QED
    BY <1>2, <1>10, <2>1, <2>4, <2>5, <2>6 DEF FrameOK
<1> QED
  BY <1>2, <1>11, <1>12, <1>13 DEF CaseFrame, locals, kept

(* The branch drops the scrutinee that it does not build over, the variables  *)
(* that its body does not use, and the tokens of constructors it does not     *)
(* build.                                                                    *)
LEMMA CaseDrops ==
    ASSUME IInv, NEW b, CaseTaken(b), BranchOK(b), CaseVars(b), CaseShares(b)
    PROVE  LET locals == CaseLocals(b)
               without == Without(now.reuse, UsedConstructors(b.body))
           IN  /\ drops' \in Seq(Value)
               /\ \A c \in Cell :
                    /\ Occurrences(drops', c)
                         = (IF Reusing(b) /\ ~Unique(b) THEN One(Scrutinee, c) ELSE 0)
                           + Count(locals, Rest(b), c) + Count(without, DOMAIN without, c)
                    /\ Count(without, DOMAIN without, c) \in Nat
<1> DEFINE locals == CaseLocals(b)
           without == Without(now.reuse, UsedConstructors(b.body))
           rest == Rest(b)
           again == Reusing(b) /\ ~Unique(b)
           A == IF again THEN <<Scrutinee>> ELSE <<>>
           B == ValuesOf(rest, locals)
           C == ValuesOf(DOMAIN without, without)
<1>1. drops' = A \o B \o C
  BY DEF CaseTaken, Tokens
<1>2. again => Scrutinee \in Value
  BY DEF BranchOK, Value
<1>3. IsFiniteSet(rest) /\ \A x \in rest : locals[x] \in Value
  BY DEF CaseShares, CaseVars
<1>4. EnvOK(now) /\ IsFiniteSet(DOMAIN now.reuse)
  BY NowEnv DEF BranchOK
<1>5. /\ IsFiniteSet(DOMAIN without) /\ \A c : Count(without, DOMAIN without, c) \in Nat
      /\ \A con \in DOMAIN without : con \in DOMAIN now.reuse /\ without[con] = now.reuse[con]
  BY <1>4, ReuseSplit DEF Shares
<1>6. \A con \in DOMAIN without : without[con] \in Value
  BY <1>4, <1>5 DEF EnvOK
<1> HIDE DEF locals, without, rest, again
<1>7. A \in Seq(Value) /\ \A c : Occurrences(A, c) = IF again THEN One(Scrutinee, c) ELSE 0
  <2>1. A \in Seq(Value)
    BY <1>2
  <2>2. \A c : Occurrences(A, c) = IF again THEN One(Scrutinee, c) ELSE 0
    BY OccurrencesSmall
  <2> QED
    BY <2>1, <2>2
<1> HIDE DEF A
<1>8. B \in Seq(Value) /\ \A c : Occurrences(B, c) = Count(locals, rest, c)
  BY <1>3, ValuesOfCount
<1>9. C \in Seq(Value) /\ \A c : Occurrences(C, c) = Count(without, DOMAIN without, c)
  BY <1>5, <1>6, ValuesOfCount
<1> HIDE DEF B, C
<1>10. A \o B \in Seq(Value) /\ A \o B \o C \in Seq(Value)
  BY <1>7, <1>8, <1>9
<1>11. ASSUME NEW c \in Cell
       PROVE  Occurrences(drops', c)
                = (IF again THEN One(Scrutinee, c) ELSE 0)
                  + Count(locals, rest, c) + Count(without, DOMAIN without, c)
  <2>1. Occurrences(A \o B, c) = Occurrences(A, c) + Occurrences(B, c)
    BY <1>7, <1>8, OccurrencesConcat
  <2>2. Occurrences(A \o B \o C, c) = Occurrences(A \o B, c) + Occurrences(C, c)
    BY <1>9, <1>10, OccurrencesConcat
  <2> QED
    BY <1>1, <1>7, <1>8, <1>9, <2>1, <2>2
<1> QED
  BY <1>1, <1>5, <1>10, <1>11 DEF locals, without, rest, again

\* What the branch does to the memory: k, afterwards.
CaseMemory(b, k) ==
    LET locals == CaseLocals(b)
    IN  /\ Spares(heap') /\ Ledger(heap', k)
        /\ \A e \in SoloCells(now) : heap'[e] = heap[e]
        /\ Unique(b) => heap'[Scrutinee].kind = "token" /\ heap'[Scrutinee].rc = 1
        /\ \A c \in Cell : ~IsFull(heap'[c])
        /\ \A c \in Cell : k[c] = Roots(c) + Count(locals, KeptFields(b), c)
                                  + (IF Unique(b) THEN Count(locals, LostFields(b), c) ELSE 0)

(* The fields of a scrutinee that has a single owner pass to the variables of *)
(* the branch.                                                               *)
LEMMA CaseMoves ==
    ASSUME IInv, NEW b, CaseTaken(b), BranchOK(b), CaseVars(b), CaseShares(b), Unique(b)
    PROVE  \E k : CaseMemory(b, k)
<1> DEFINE locals == CaseLocals(b)
           sc == Scrutinee
           R == [c \in Cell |-> Roots(c)]
           g == [heap EXCEPT ![sc].kind = "token"]
<1>1. /\ Reusing(b) /\ sc \in Cell /\ heap[sc].kind = "con" /\ heap[sc].rc = 1
      /\ now.term.sc \in now.owned /\ b.con \notin NullCons \cup {NoName}
      /\ now.kind = "run" /\ drops = <<>> /\ heap' = g
  BY DEF Unique, BranchOK, IsUnique, CaseTaken
<1>2. Ledger(heap, R)
  BY RootsSum
<1>3. PICK k : Hollows(heap, R, sc, "token", g, k)
  <2>1. sc \in Cell /\ heap[sc].kind \in {"con", "clo"} /\ "token" \in {"token", "running"}
    BY <1>1
  <2>2. g = [heap EXCEPT ![sc].kind = "token"]
    OBVIOUS
  <2> HIDE DEF R, sc, g
  <2> QED
    BY <1>2, <2>1, <2>2, HollowLedger
<1>4. /\ Ledger(g, k) /\ \A c \in Cell \ {sc} : g[c] = heap[c]
      /\ g[sc].kind = "token" /\ g[sc].rc = heap[sc].rc
      /\ \A c \in Cell : k[c] = R[c] + Occurrences(heap[sc].args, c)
  BY <1>3 DEF Hollows
<1>10. ASSUME NEW c \in Cell
       PROVE  k[c] = Roots(c) + Count(locals, KeptFields(b), c) + Count(locals, LostFields(b), c)
  <2>1. Occurrences(heap[sc].args, c) = Count(locals, FieldNames(b), c)
    BY <1>1 DEF CaseVars
  <2>2. Count(locals, FieldNames(b), c)
          = Count(locals, KeptFields(b), c) + Count(locals, LostFields(b), c)
    BY DEF CaseShares
  <2>3. /\ Roots(c) \in Nat /\ Count(locals, KeptFields(b), c) \in Nat
        /\ Count(locals, LostFields(b), c) \in Nat
    BY RootsSum DEF CaseShares
  <2>4. k[c] = Roots(c) + Occurrences(heap[sc].args, c)
    BY <1>4
  <2> HIDE DEF locals, sc
  <2> QED
    BY <2>1, <2>2, <2>3, <2>4
<1>5. sc \notin start.shared
  <2> SUFFICES ASSUME sc \in start.shared
               PROVE  FALSE
    OBVIOUS
  <2>1. heap[sc].rc # RcMax
    BY <1>1, MemoryAssumption
  <2>2. heap[sc].rc >= 1 + Below(stack, sc) + InFrame(now, sc) + Occurrences(drops, sc)
    BY <2>1, SharedHeld
  <2>3. /\ Below(stack, sc) \in Nat /\ Occurrences(drops, sc) \in Nat
        /\ InFrame(now, sc) = Count(now.locals, now.owned, sc)
                              + Count(now.reuse, DOMAIN now.reuse, sc)
        /\ Count(now.reuse, DOMAIN now.reuse, sc) \in Nat
        /\ IsFiniteSet(now.owned)
    BY <1>1, RootsSum, NowEnv
  <2>4. Count(now.locals, now.owned, sc) \in Nat /\ Count(now.locals, now.owned, sc) # 0
    <3>1. now.locals[now.term.sc] = sc
      BY DEF Scrutinee
    <3> HIDE DEF sc
    <3>2. /\ Count(now.locals, now.owned, sc) \in Nat
          /\ Count(now.locals, now.owned, sc) = 0 <=> \A x \in now.owned : now.locals[x] # sc
      <4>1. IsFiniteSet(now.owned)
        BY <2>3
      <4> QED
        BY <4>1, CountType
    <3> QED
      BY <1>1, <3>1, <3>2
  <2> HIDE DEF sc
  <2> QED
    BY <1>1, <2>2, <2>3, <2>4
<1> HIDE DEF g
<1>6. Spares(g)
  <2>1. \A c \in Cell : heap[c].kind \in {"token", "running"} => g[c] = heap[c]
    BY <1>1, <1>4
  <2>2. \A c \in start.shared : g[c] = heap[c]
    BY <1>4, <1>5, SharedHeld
  <2> QED
    BY <2>1, <2>2 DEF Spares
<1>7. \A c \in Cell : ~IsFull(g[c])
  <2>1. \A c \in Cell : ~IsFull(heap[c])
    BY <1>1, NoFull
  <2> QED
    BY <1>4, <2>1 DEF IsFull
<1>8. \A e \in SoloCells(now) : g[e] = heap[e]
  <2>1. \A e \in SoloCells(now) : e \in Cell /\ heap[e].kind \in {"token", "running"}
    BY <1>1, NowEnv DEF Solo, SoloKind
  <2> QED
    BY <1>1, <1>4, <2>1
<1> HIDE DEF R
<1>9. CaseMemory(b, k)
  BY <1>1, <1>4, <1>6, <1>7, <1>8, <1>10 DEF CaseMemory
<1> QED
  BY <1>9

(* The fields of any other scrutinee are referred to once more.               *)
LEMMA CaseCopies ==
    ASSUME IInv, NEW b, CaseTaken(b), BranchOK(b), CaseVars(b), CaseShares(b), ~Unique(b)
    PROVE  \E k : CaseMemory(b, k)
<1> DEFINE locals == CaseLocals(b)
           sc == Scrutinee
           F == KeptFields(b)
           f == Restrict(locals, F)
<1>1. /\ now.kind = "run" /\ drops = <<>> /\ heap' = NewReferences(heap, f)
  BY DEF BranchOK, CaseTaken, KeptFields
<1>2. /\ IsFiniteSet(F) /\ F \subseteq FieldNames(b)
      /\ FieldNames(b) \subseteq DOMAIN locals
      /\ \A c \in Cell : Count(locals, F, c) \in Nat
  BY DEF CaseShares, KeptFields, CaseVars
<1>3. DOMAIN f = F /\ \A x \in F : f[x] = locals[x]
  BY DEF Restrict
<1> HIDE DEF f
<1>4. ASSUME NEW x \in F
      PROVE  f[x] \in Value /\ (f[x] = Null \/ Referred(f[x]))
  <2>1. locals[x] \in Value
    BY <1>2 DEF CaseVars
  <2>2. b.con \notin NullCons \cup {NoName} /\ x \in FieldNames(b)
    BY <1>2 DEF BranchOK
  <2>3. sc \in Cell /\ heap[sc].kind = "con"
    BY <2>2 DEF BranchOK
  <2>4. PICK i \in DOMAIN heap[sc].args : locals[x] = heap[sc].args[i]
    BY <2>2 DEF CaseVars
  <2>5. Fields(heap, sc) = heap[sc].args
    BY <2>3 DEF Fields
  <2>6. Referred(locals[x])
    <3> HIDE DEF sc
    <3> QED
      BY <2>3, <2>4, <2>5 DEF Referred
  <2> QED
    BY <1>3, <2>1, <2>6
<1>5. PICK k : Raises(f, NewReferences(heap, f), k)
  BY <1>2, <1>3, <1>4, RaiseSome
<1>6. \A c \in Cell : Occurrences(f, c) = Count(locals, F, c)
  <2>1. \A c : Occurrences(f, c) = Count(f, F, c)
    BY <1>3 DEF Occurrences, Count
  <2> QED
    BY <1>3, <2>1, CountSame
<1>7. \A c \in Cell : k[c] = Roots(c) + Count(locals, F, c) + 0
  <2>1. \A c \in Cell : k[c] = Roots(c) + Count(locals, F, c) /\ Roots(c) \in Nat
    BY <1>5, <1>6 DEF Raises
  <2> HIDE DEF locals, F
  <2> QED
    BY <1>2, <2>1
<1>8. \A c \in Cell : ~IsFull(heap'[c])
  BY <1>1, <1>5, SparesRaised DEF Raises
<1>9. \A e \in SoloCells(now) : heap'[e] = heap[e]
  <2>1. SoloCells(now) \subseteq Cell
    BY <1>1, NowEnv
  <2>2. Len(stack) + 1 \in DOMAIN Frames /\ Frames[Len(stack) + 1] = now
    BY FramesShape DEF IInv
  <2>3. \A e \in SoloCells(now) : ~Referred(e)
    BY <2>1, <2>2, Apart
  <2> QED
    BY <1>1, <1>5, <2>1, <2>3 DEF Raises
<1>10. Spares(heap') /\ Ledger(heap', k)
  BY <1>1, <1>5 DEF Raises
<1>11. CaseMemory(b, k)
  BY <1>7, <1>8, <1>9, <1>10 DEF CaseMemory
<1> QED
  BY <1>11

(* What goes with the fields that the branch does not use.                    *)
LEMMA CaseLost ==
    ASSUME IInv, NEW b, CaseTaken(b), CaseShares(b)
    PROVE  /\ lost' \in [Cell -> Nat]
           /\ \A c \in Cell : lost'[c] = lost[c]
                + (IF Unique(b) THEN Count(CaseLocals(b), LostFields(b), c) ELSE 0)
<1> DEFINE locals == CaseLocals(b)
           xs == IF Unique(b) THEN LostFields(b) ELSE {}
<1>1. lost' = [c \in Cell |-> lost[c] + Count(locals, xs, c)]
  BY DEF CaseTaken, Count, LostFields
<1>2. /\ lost \in [Cell -> Nat] /\ IsFiniteSet(LostFields(b))
      /\ \A c \in Cell : Count(locals, LostFields(b), c) \in Nat
  BY DEF IInv, ShapeOK, CaseShares
<1> HIDE DEF locals
<1>3. ASSUME NEW c \in Cell
      PROVE  Count(locals, xs, c) = IF Unique(b) THEN Count(locals, LostFields(b), c) ELSE 0
  <2>1. Count(locals, {}, c) = 0
    BY FS_EmptySet, CountType
  <2> QED
    BY <2>1
<1> HIDE DEF xs
<1>4. \A c \in Cell : Count(locals, xs, c) \in Nat
  BY <1>2, <1>3
<1> QED
  BY <1>1, <1>2, <1>3, <1>4 DEF locals

(* A reference that was counted before the case is counted after it.          *)
LEMMA CaseSum ==
    ASSUME IInv, NEW b, CaseTaken(b), BranchOK(b), CaseVars(b), CaseShares(b), CaseReuse(b),
           CaseFrame(b), NEW k, CaseMemory(b, k), NEW c \in Cell
    PROVE  k[c] = start.outside[c] + (Below(stack', c) + InFrame(now', c))
                  + Occurrences(drops', c) + lost'[c]
<1> DEFINE locals == CaseLocals(b)
           kept == Kept(now.reuse, UsedConstructors(b.body))
           without == Without(now.reuse, UsedConstructors(b.body))
           moved == IF Unique(b) THEN One(Scrutinee, c) ELSE 0
           again == IF Reusing(b) /\ ~Unique(b) THEN One(Scrutinee, c) ELSE 0
           gone == IF Unique(b) THEN Count(locals, LostFields(b), c) ELSE 0
<1>1. drops = <<>> /\ now.kind = "run" /\ stack' = stack
  BY DEF BranchOK, CaseTaken
<1>2. /\ start.outside[c] \in Nat /\ Below(stack, c) \in Nat /\ lost[c] \in Nat
      /\ Roots(c) = start.outside[c] + Below(stack, c) + Count(now.locals, now.owned, c)
                    + Count(now.reuse, DOMAIN now.reuse, c) + lost[c]
  BY <1>1, NodeRoots
<1>3. /\ Count(locals, KeptOwned(b), c) \in Nat /\ Count(locals, KeptFields(b), c) \in Nat
      /\ Count(locals, Rest(b), c) \in Nat /\ Count(locals, LostFields(b), c) \in Nat
      /\ Count(now.locals, now.owned, c)
           = Count(locals, KeptOwned(b), c) + Count(locals, Rest(b), c)
             + (IF Reusing(b) THEN One(Scrutinee, c) ELSE 0)
  BY DEF CaseShares
<1>4. /\ Count(now.reuse, DOMAIN now.reuse, c)
           = Count(kept, DOMAIN kept, c) + Count(without, DOMAIN without, c)
      /\ Count(kept, DOMAIN kept, c) \in Nat /\ Count(without, DOMAIN without, c) \in Nat
  <2>1. IsFiniteSet(DOMAIN now.reuse)
    BY <1>1, NowEnv
  <2> QED
    BY <2>1, ReuseSplit DEF Shares
<1>5. InFrame(now', c)
        = Count(locals, KeptOwned(b), c) + Count(locals, KeptFields(b), c)
          + (Count(kept, DOMAIN kept, c) + moved)
  BY DEF CaseFrame
<1>6. Occurrences(drops', c)
        = again + Count(locals, Rest(b), c) + Count(without, DOMAIN without, c)
  BY CaseDrops
<1>7. lost'[c] = lost[c] + gone
  BY CaseLost
<1>8. k[c] = Roots(c) + Count(locals, KeptFields(b), c) + gone
  BY DEF CaseMemory
<1>9. (IF Reusing(b) THEN One(Scrutinee, c) ELSE 0) = moved + again
  <2>1. One(Scrutinee, c) \in Nat
    BY DEF One
  <2>2. Unique(b) => Reusing(b)
    BY DEF Unique
  <2> QED
    BY <2>1, <2>2
<1>10. moved \in Nat /\ again \in Nat /\ gone \in Nat
  <2>1. One(Scrutinee, c) \in Nat
    BY DEF One
  <2> QED
    BY <1>3, <2>1
<1> HIDE DEF locals, kept, without, moved, again, gone
<1>11. PICK a \in Nat, p \in Nat, l \in Nat, o \in Nat, f \in Nat, r \in Nat, t \in Nat, w \in Nat,
            m \in Nat, n \in Nat, g \in Nat :
         /\ a = start.outside[c] /\ p = Below(stack, c) /\ l = lost[c]
         /\ o = Count(locals, KeptOwned(b), c) /\ f = Count(locals, KeptFields(b), c)
         /\ r = Count(locals, Rest(b), c) /\ t = Count(kept, DOMAIN kept, c)
         /\ w = Count(without, DOMAIN without, c) /\ m = moved /\ n = again /\ g = gone
  BY <1>2, <1>3, <1>4, <1>10
<1>12. /\ k[c] = Roots(c) + f + g
       /\ Roots(c) = a + p + (o + r + (m + n)) + (t + w) + l
  BY <1>2, <1>3, <1>4, <1>8, <1>9, <1>11
<1>13. /\ InFrame(now', c) = o + f + (t + m) /\ Occurrences(drops', c) = n + r + w
       /\ lost'[c] = l + g /\ Below(stack', c) = p /\ start.outside[c] = a
  BY <1>1, <1>5, <1>6, <1>7, <1>11
<1>14. a + p + (o + r + (m + n)) + (t + w) + l + f + g
         = a + (p + (o + f + (t + m))) + (n + r + w) + (l + g)
  OBVIOUS
<1> QED
  BY <1>12, <1>13, <1>14

(* AConCase: the branch that is taken.                                       *)
LEMMA AConCaseStep ==
    ASSUME IInv, AConCase
    PROVE  IInv'
<1>1. PICK b : CaseTaken(b)
  BY CaseBranch
<1>2. BranchOK(b)
  BY <1>1, CaseShape
<1>3. CaseVars(b)
  BY <1>2, CaseBinding
<1>4. CaseShares(b)
  BY <1>2, <1>3, CaseCounts
<1>5. CaseReuse(b)
  BY <1>2, CaseTokens
<1>6. CaseFrame(b)
  BY <1>1, <1>2, <1>3, <1>4, <1>5, CaseEnv
<1>7. PICK k : CaseMemory(b, k)
  BY <1>1, <1>2, <1>3, <1>4, CaseMoves, CaseCopies
<1>8. /\ stack' = stack /\ start' = start /\ now'.kind = "run" /\ now.kind = "run" /\ drops = <<>>
  BY <1>1, <1>2, <1>6 DEF CaseTaken, CaseFrame, BranchOK
<1>9. Solo(heap', now')
  <2>1. IsEnv(now') /\ IsEnv(now)
    BY <1>8 DEF IsEnv
  <2>2. Solo(heap, now)
    BY <1>8, NowEnv
  <2>3. \A e \in SoloCells(now) : heap'[e].kind = "token" /\ heap'[e].rc = 1
    BY <1>7, <1>8, <2>1, <2>2 DEF CaseMemory, Solo, SoloKind
  <2>4. \A e \in SoloCells(now') : heap'[e].kind = "token" /\ heap'[e].rc = 1
    BY <1>6, <1>7, <2>3 DEF CaseFrame, CaseMemory
  <2> QED
    BY <1>8, <2>1, <2>4 DEF Solo, SoloKind
<1>10. \A j \in (Len(stack) + 1)..(Len(stack') + 1) : FrameOK(Frames', j) /\ Solo(heap', Frames'[j])
  <2>1. Len(stack) \in Nat /\ Frames'[Len(stack') + 1] = now'
    BY <1>8, StackNext
  <2>2. \A j \in (Len(stack) + 1)..(Len(stack') + 1) : j = Len(stack) + 1
    BY <1>8, <2>1
  <2> QED
    BY <1>6, <1>8, <1>9, <2>1, <2>2 DEF CaseFrame
<1>11. FullOK' /\ StoreOK'
  BY <1>7, <1>8 DEF CaseMemory, FullOK, StoreOK
<1>12. drops' \in Seq(Value) /\ lost' \in [Cell -> Nat]
  BY <1>1, <1>2, <1>3, <1>4, CaseDrops, CaseLost
<1>13. Spares(heap') /\ Ledger(heap', k)
  BY <1>7 DEF CaseMemory
<1>14. \A c \in Cell : k[c] = start.outside[c] + (Below(stack', c) + InFrame(now', c))
                              + Occurrences(drops', c) + lost'[c]
  BY <1>1, <1>2, <1>3, <1>4, <1>5, <1>6, <1>7, CaseSum
<1> QED
  BY <1>8, <1>10, <1>11, <1>12, <1>13, <1>14, NodeStep

(* The array of an arraySet that drops the old element has a reference more   *)
(* than those that are dropped.                                              *)
LEMMA StoreHeld ==
    ASSUME IInv, now.kind = "store", NEW k \in DOMAIN drops, drops[k] = now.array
    PROVE  heap[now.array].rc # 1
<1> SUFFICES ASSUME heap[now.array].rc = 1
             PROVE  FALSE
  OBVIOUS
<1> DEFINE v == now.array
<1>1. v \in Cell /\ (Lent(Frames, Len(Frames), v) \/ lost[v] > 0)
  BY DEF IInv, StoreOK
<1>2. heap[v].rc = Roots(v) + InHeap(heap, v) /\ InHeap(heap, v) \in Nat
  <2>1. heap[v].rc # RcMax
    BY MemoryAssumption
  <2>2. heap \in [Cell -> CellType]
    BY DEF IInv, HeapOK
  <2> HIDE DEF v
  <2> QED
    BY <1>1, <2>1, <2>2, HeapPlaces DEF IInv, Exact
<1>3. /\ start.outside[v] \in Nat /\ Below(stack, v) \in Nat /\ InFrame(now, v) \in Nat
      /\ Occurrences(drops, v) \in Nat /\ lost[v] \in Nat
      /\ Roots(v) = start.outside[v] + Below(stack, v) + InFrame(now, v)
                    + Occurrences(drops, v) + lost[v]
      /\ IsFiniteSet(PlacesInFrames(Frames, v))
  BY <1>1, RootsSum
<1>4. Occurrences(drops, v) # 0
  <2>1. drops \in Seq(Value)
    BY DEF IInv, ShapeOK
  <2>2. Occurrences(drops, v) = 0 <=> \A i \in DOMAIN drops : drops[i] # v
    BY <2>1, OccurrencesType
  <2> QED
    BY <2>2
<1>5. CASE lost[v] > 0
  <2> HIDE DEF v
  <2>1. heap[v].rc = 1
    BY DEF v
  <2> QED
    BY <1>2, <1>3, <1>4, <1>5, <2>1
<1>6. CASE Lent(Frames, Len(Frames), v)
  <2>1. v # Null
    BY <1>1 DEF Cell, Null
  <2>2. PICK j \in 1..(Len(Frames) - 1) : HeldIn(Frames[j], v)
    BY <1>6, <2>1 DEF Lent
  <2>3. j \in DOMAIN Frames
    BY <2>2, FramesShape DEF IInv
  <2>4. PlacesInFrames(Frames, v) # {}
    <3> HIDE DEF v
    <3> QED
      BY <2>2, <2>3, PlaceOf
  <2>5. Cardinality(PlacesInFrames(Frames, v)) >= 1
    BY <1>3, <2>4, PlacesAtLeast
  <2>6. Roots(v) >= 2
    <3>1. Roots(v) = start.outside[v] + Cardinality(PlacesInFrames(Frames, v))
                     + Occurrences(drops, v) + lost[v]
      BY DEF Roots
    <3>2. Cardinality(PlacesInFrames(Frames, v)) \in Nat
      BY <1>3, <2>4, PlacesAtLeast
    <3> HIDE DEF v
    <3>3. PICK a \in Nat, p \in Nat, o \in Nat, l \in Nat :
             /\ a = start.outside[v] /\ p = Cardinality(PlacesInFrames(Frames, v))
             /\ o = Occurrences(drops, v) /\ l = lost[v]
      BY <1>3, <3>2
    <3>4. Roots(v) = a + p + o + l
      BY <3>1, <3>3
    <3>5. p >= 1 /\ o # 0
      BY <1>4, <2>5, <3>3
    <3>6. a + p + o + l >= 2
      BY <3>5
    <3> QED
      BY <3>4, <3>6
  <2>7. Roots(v) \in Nat
    BY <1>1, RootsSum
  <2>8. PICK r \in Nat, i \in Nat : r = Roots(v) /\ i = InHeap(heap, v)
    BY <1>2, <2>7
  <2>9. heap[v].rc = r + i /\ r >= 2
    BY <1>2, <2>6, <2>8
  <2>10. r + i # 1
    BY <2>9
  <2> QED
    BY <2>9, <2>10
<1> QED
  BY <1>1, <1>5, <1>6

(* idris2_removeReference, one cell at a time.                               *)
LEMMA DropReferenceStep ==
    ASSUME IInv, DropReference
    PROVE  IInv'
<1> DEFINE v == Head(drops)
           R == [c \in Cell |-> Roots(c)]
           g == RemoveReference(heap, v)
           also == AlsoRemoved(heap, v)
           k == [c \in Cell |-> R[c] - One(v, c) + Occurrences(also, c)]
<1>1. /\ drops # <<>> /\ heap' = g /\ drops' = also \o Tail(drops)
      /\ now' = now /\ stack' = stack /\ start' = start /\ lost' = lost
  BY DEF DropReference, Pure
<1>2. /\ drops \in Seq(Value) /\ v \in Value /\ Tail(drops) \in Seq(Value)
      /\ 1 \in DOMAIN drops /\ drops[1] = v
      /\ now.kind \in {"run", "return", "store"} /\ lost \in [Cell -> Nat]
  BY <1>1 DEF IInv, ShapeOK
<1>3. Live(heap, v)
  <2>1. Referred(v)
    BY <1>2 DEF Referred
  <2> HIDE DEF v
  <2> QED
    BY <1>2, <2>1, ReferredLive
<1>4. Ledger(heap, R)
  BY RootsSum
<1>5. /\ Ledger(g, k) /\ \A c \in Cell \ {v} : g[c] = heap[c]
      /\ v # Null => \/ g[v] = FreeCell /\ heap[v].rc = 1
                     \/ Contents(g[v]) = Contents(heap[v]) /\ heap[v].rc # 1
      /\ also \in Seq(Value)
  <2> HIDE DEF v, R
  <2> QED
    BY <1>3, <1>4, RemoveLedger
<1>6. Referred(v)
  BY <1>2 DEF Referred
<1>7. \A c \in Cell : c = v => v # Null
  BY DEF Cell, Null
<1>8. ASSUME NEW c \in Cell
      PROVE  k[c] = start.outside[c] + (Below(stack', c) + InFrame(now', c))
                    + Occurrences(drops', c) + lost'[c]
  <2>1. Occurrences(drops, c) = One(v, c) + Occurrences(Tail(drops), c)
    BY <1>1, <1>2, OccurrencesHead
  <2>2. Occurrences(drops', c) = Occurrences(also, c) + Occurrences(Tail(drops), c)
    <3>1. also \in Seq(Value) /\ Tail(drops) \in Seq(Value)
      BY <1>2, <1>5
    <3> HIDE DEF also, v, g, k, R
    <3>2. Occurrences(also \o Tail(drops), c)
            = Occurrences(also, c) + Occurrences(Tail(drops), c)
      BY <3>1, OccurrencesConcat
    <3> QED
      BY <1>1, <3>2
  <2>3. /\ Occurrences(also, c) \in Nat /\ Occurrences(Tail(drops), c) \in Nat
    <3> HIDE DEF also, v
    <3> QED
      BY <1>2, <1>5, OccurrencesType
  <2>4. /\ start.outside[c] \in Nat /\ Below(stack, c) \in Nat /\ InFrame(now, c) \in Nat
        /\ Occurrences(drops, c) \in Nat /\ lost[c] \in Nat
        /\ Roots(c) = start.outside[c] + Below(stack, c) + InFrame(now, c)
                      + Occurrences(drops, c) + lost[c]
    BY RootsSum
  <2>5. k[c] = Roots(c) - One(v, c) + Occurrences(also, c)
    OBVIOUS
  <2>6. One(v, c) \in Nat
    BY DEF One
  <2> HIDE DEF k, v, also, R
  <2>7. PICK a \in Nat, p \in Nat, i \in Nat, l \in Nat, o \in Nat, q \in Nat, t \in Nat :
           /\ a = start.outside[c] /\ p = Below(stack, c) /\ i = InFrame(now, c) /\ l = lost[c]
           /\ o = One(v, c) /\ q = Occurrences(also, c) /\ t = Occurrences(Tail(drops), c)
    BY <2>3, <2>4, <2>6
  <2>8. k[c] = a + p + i + (o + t) + l - o + q
    BY <2>1, <2>4, <2>5, <2>7
  <2>9. /\ Occurrences(drops', c) = q + t /\ Below(stack', c) = p /\ InFrame(now', c) = i
        /\ lost'[c] = l /\ start.outside[c] = a
    BY <1>1, <2>2, <2>7
  <2>10. a + p + i + (o + t) + l - o + q = a + (p + i) + (q + t) + l
    OBVIOUS
  <2> QED
    BY <2>8, <2>9, <2>10
<1>9. drops' \in Seq(Value)
  <2> HIDE DEF also, v
  <2> QED
    BY <1>1, <1>2, <1>5
<1> HIDE DEF k, g, R
<1>10. Spares(heap')
  <2>1. \A c \in Cell : ~Referred(c) => g[c] = heap[c]
    BY <1>5, <1>6
  <2>2. ASSUME NEW c \in start.shared
        PROVE  Contents(g[c]) = Contents(heap[c])
    <3>1. /\ c \in Cell
          /\ heap[c].rc # RcMax => heap[c].rc >= 1 + Below(stack, c) + InFrame(now, c)
                                                 + Occurrences(drops, c)
      BY SharedHeld
    <3>2. CASE c # v
      BY <1>5, <3>1, <3>2
    <3>3. CASE c = v
      <4>1. Occurrences(drops, c) \in Nat /\ Occurrences(drops, c) # 0
        BY <1>2, <3>3, OccurrencesType
      <4>2. Below(stack, c) \in Nat /\ InFrame(now, c) \in Nat
        BY <3>1, RootsSum
      <4>3. heap[c].rc # 1
        BY <3>1, <4>1, <4>2, MemoryAssumption
      <4> HIDE DEF v
      <4> QED
        BY <1>5, <1>7, <3>1, <3>3, <4>3
    <3> QED
      BY <3>2, <3>3
  <2> QED
    BY <1>1, <2>1, <2>2 DEF Spares
<1>11. /\ Len(stack) \in Nat /\ Frames' = Frames /\ Len(Frames) = Len(stack) + 1
       /\ Frames[Len(stack) + 1] = now /\ Len(stack) + 1 \in DOMAIN Frames
  BY <1>1, FramesShape DEF IInv, Frames
<1>12. FrameOK(Frames', Len(stack) + 1) /\ Solo(heap', now)
  <2>1. FrameOK(Frames, Len(stack) + 1) /\ Solo(heap, now)
    BY <1>11 DEF IInv, FramesOK
  <2>2. \A e \in SoloCells(now) \cap Cell : ~Referred(e)
    BY <1>11, Apart
  <2>3. \A e \in SoloCells(now) : e \in Cell
    <3>1. \A e \in Value \ {Null} : e \in Cell
      BY DEF Value
    <3>2. FrameOK(Frames, Len(stack) + 1) /\ SoloCells(now) \subseteq Value \ {Null}
      BY <1>11, <2>1 DEF FrameOK, SoloCells, EnvOK
    <3> QED
      BY <3>1, <3>2
  <2>4. \A e \in SoloCells(now) : g[e] = heap[e]
    BY <1>5, <1>6, <2>2, <2>3
  <2> QED
    BY <1>1, <1>11, <2>1, <2>4 DEF Solo
<1>13. \A c \in Cell : Contents(g[c]) = Contents(heap[c]) \/ g[c] = FreeCell
  BY <1>5, <1>7
<1>14. FullOK'
  <2>1. \A c \in Cell : ~IsFull(heap[c])
    BY <1>1, NoFull
  <2>2. \A c \in Cell : ~IsFull(g[c])
    BY <1>13, <2>1 DEF IsFull, Contents, FreeCell
  <2> QED
    BY <1>1, <2>2 DEF FullOK
<1>15. StoreOK'
  <2> SUFFICES ASSUME now.kind = "store"
               PROVE  StoreOK'
    BY <1>1 DEF StoreOK
  <2>1. /\ now.array \in Cell /\ now.value \in Value
        /\ heap[now.array].kind = "array" /\ now.at \in DOMAIN heap[now.array].args
        /\ heap[now.array].args[now.at] = Null
        /\ \A u \in {now.array, now.value} : Lent(Frames, Len(Frames), u) \/ lost[u] > 0
    BY DEF IInv, StoreOK
  <2>2. Contents(g[now.array]) = Contents(heap[now.array])
    <3>1. now.array = v => heap[v].rc # 1
      BY <1>2, StoreHeld
    <3> HIDE DEF v
    <3> QED
      BY <1>5, <1>7, <2>1, <3>1
  <2>3. /\ g[now.array].kind = "array" /\ now.at \in DOMAIN g[now.array].args
        /\ g[now.array].args[now.at] = Null
    BY <2>1, <2>2 DEF Contents
  <2> HIDE DEF v, also
  <2> QED
    BY <1>1, <1>11, <2>1, <2>3 DEF StoreOK
<1>16. \A j \in (Len(stack) + 1)..(Len(stack') + 1) : FrameOK(Frames', j) /\ Solo(heap', Frames'[j])
  <2>1. \A j \in (Len(stack) + 1)..(Len(stack') + 1) : j = Len(stack) + 1
    BY <1>1, <1>11
  <2> QED
    BY <1>11, <1>12, <2>1
<1>17. Ledger(heap', k) /\ now'.kind \in {"run", "return", "store"} /\ lost' \in [Cell -> Nat]
  BY <1>1, <1>2, <1>5
<1> HIDE DEF v, also
<1> QED
  BY <1>1, <1>8, <1>9, <1>10, <1>14, <1>15, <1>16, <1>17, NodeStep

(***************************************************************************)
(* Between the nodes                                                       *)
(***************************************************************************)
\* The frames of a state in which the last of m + 1 frames has gone, or has been
\* replaced by f.
Popped(m, t) ==
    /\ t \in Seq(ToSet(t)) /\ m \in Nat /\ m + 1 = Len(stack) /\ m <= Len(t)
    /\ \A i \in DOMAIN t : t[i].kind \in {"let", "trampoline"}
    /\ \A j \in 1..m : t[j] = stack[j]
    /\ stack[m + 1] = Last(stack)
(* The last frame goes.                                                      *)
LEMMA PopOnly ==
    ASSUME IInv, stack # <<>>
    PROVE  \E m : /\ Popped(m, Front(stack)) /\ Len(Front(stack)) = m
                  /\ stack = Append(Front(stack), Last(stack))
<1> DEFINE t == Front(stack)
           m == Len(stack) - 1
<1>1. /\ t \in Seq(ToSet(t)) /\ Len(t) = Len(stack) - 1 /\ Len(stack) \in Nat \ {0}
      /\ \A i \in 1..Len(t) : t[i] = stack[i]
      /\ stack = Append(t, Last(stack)) /\ Last(stack) = stack[Len(stack)]
      /\ \A i \in DOMAIN t : t[i].kind \in {"let", "trampoline"}
  BY StackPop DEF IInv
<1>2. m \in Nat /\ m + 1 = Len(stack) /\ m <= Len(t)
  BY <1>1
<1> HIDE DEF t
<1>3. stack[m + 1] = Last(stack) /\ \A j \in 1..m : t[j] = stack[j]
  BY <1>1, <1>2
<1> HIDE DEF m
<1>4. Popped(m, t) /\ Len(t) = m
  BY <1>1, <1>2, <1>3 DEF Popped, m
<1> QED
  BY <1>1, <1>4 DEF t

(* The last frame is another.                                                *)
LEMMA PopPush ==
    ASSUME IInv, stack # <<>>, NEW f, f.kind \in {"let", "trampoline"}
    PROVE  \E m : LET t == Append(Front(stack), f)
                  IN  Popped(m, t) /\ Len(t) = m + 1 /\ t[m + 1] = f
<1> DEFINE s == Front(stack)
           t == Append(s, f)
<1>1. PICK m : Popped(m, s) /\ Len(s) = m
  BY PopOnly
<1>2. /\ s \in Seq(ToSet(s)) /\ m \in Nat /\ m + 1 = Len(stack)
      /\ \A i \in DOMAIN s : s[i].kind \in {"let", "trampoline"}
      /\ \A j \in 1..m : s[j] = stack[j]
      /\ stack[m + 1] = Last(stack)
  BY <1>1 DEF Popped
<1> HIDE DEF s
<1>3. /\ t \in Seq(ToSet(s) \cup {f}) /\ Len(t) = m + 1 /\ t[m + 1] = f
      /\ DOMAIN t = 1..(m + 1) /\ DOMAIN s = 1..m
      /\ \A i \in 1..m : t[i] = s[i]
  BY <1>1, <1>2
<1>4. t \in Seq(ToSet(t))
  <2>1. \A i \in DOMAIN t : t[i] \in ToSet(t)
    BY DEF ToSet
  <2> HIDE DEF t
  <2> QED
    BY <1>3, <2>1
<1> HIDE DEF t
<1>5. \A i \in DOMAIN t : t[i].kind \in {"let", "trampoline"}
  BY <1>2, <1>3
<1>6. \A j \in 1..m : t[j] = stack[j]
  BY <1>2, <1>3
<1>7. m <= Len(t)
  BY <1>2, <1>3
<1>8. Popped(m, t)
  BY <1>2, <1>4, <1>5, <1>6, <1>7 DEF Popped
<1> QED
  BY <1>3, <1>8 DEF t, s

(* A step that leaves the frames below the last one alone.                    *)
LEMMA PopStep ==
    ASSUME IInv, NEW m, Popped(m, stack'),
           \A c \in Cell : heap[c].kind \in {"token", "running"} /\ ~Referred(c)
                           /\ c \notin SoloCells(Last(stack)) => heap'[c] = heap[c],
           \A c \in start.shared : Contents(heap'[c]) = Contents(heap[c]),
           start' = start, drops' \in Seq(Value), lost' \in [Cell -> Nat],
           now'.kind \in {"run", "return", "store"},
           \A j \in (m + 1)..(Len(stack') + 1) : FrameOK(Frames', j) /\ Solo(heap', Frames'[j]),
           FullOK', StoreOK',
           NEW k, Ledger(heap', k),
           \A c \in Cell : k[c] = start.outside[c] + (Below(stack', c) + InFrame(now', c))
                                  + Occurrences(drops', c) + lost'[c]
    PROVE  IInv'
<1>1. /\ stack' \in Seq(ToSet(stack')) /\ m \in Nat /\ m + 1 = Len(stack) /\ m <= Len(stack')
      /\ \A i \in DOMAIN stack' : stack'[i].kind \in {"let", "trampoline"}
      /\ \A j \in 1..m : stack'[j] = stack[j]
      /\ stack[m + 1] = Last(stack)
  BY DEF Popped
<1>2. ShapeOK'
  BY <1>1 DEF IInv, ShapeOK
<1>3. ASSUME NEW j \in 1..m, NEW e \in SoloCells(stack[j])
      PROVE  heap'[e] = heap[e]
  <2>1. /\ j \in 1..Len(stack) /\ m + 1 \in 1..Len(stack) /\ j # m + 1
    BY <1>1
  <2>2. /\ e \in Cell /\ ~Referred(e) /\ heap[e].kind \in {"token", "running"}
        /\ (e \in SoloCells(stack[m + 1]) => m + 1 = j)
    BY <2>1, SoloIn
  <2> QED
    BY <1>1, <2>1, <2>2
<1>4. FramesOK'
  <2>1. m <= Len(stack)
    BY <1>1
  <2> QED
    BY <1>1, <1>3, <2>1, FramesNext
<1>5. HeapOK(heap')
  BY DEF Ledger
<1>6. Exact'
  <2>1. \A c \in Cell : k[c] = Roots(c)'
    BY <1>1, <1>4, RootsNext
  <2>2. \A c \in Cell : heap'[c].rc # RcMax => heap'[c].rc = k[c] + InHeap(heap', c)
    BY DEF Ledger
  <2> QED
    BY <2>1, <2>2 DEF Exact
<1>7. Intact'
  BY DEF IInv, Intact
<1> QED
  BY <1>2, <1>4, <1>5, <1>6, <1>7 DEF IInv

(* The references when a value is returned to a frame.                        *)
LEMMA PopRoots ==
    ASSUME IInv, stack # <<>>, drops = <<>>, now.kind = "return", NEW c \in Cell
    PROVE  /\ start.outside[c] \in Nat /\ Below(Front(stack), c) \in Nat
           /\ InFrame(Last(stack), c) \in Nat /\ lost[c] \in Nat
           /\ Roots(c) = start.outside[c] + Below(Front(stack), c) + InFrame(Last(stack), c)
                         + One(now.value, c) + lost[c]
<1> DEFINE s == Front(stack)
           f == Last(stack)
<1>1. PICK m : Popped(m, s) /\ Len(s) = m /\ stack = Append(s, f)
  BY PopOnly
<1>2. s \in Seq(ToSet(s))
  BY <1>1 DEF Popped
<1>3. \A i \in DOMAIN stack : IsFiniteSet(PlacesIn(stack[i], c))
  <2>1. \A i \in DOMAIN stack : i \in DOMAIN Frames /\ Frames[i] = stack[i]
    BY FramesShape DEF IInv
  <2> QED
    BY <2>1, FrameFinite DEF IInv, FramesOK
<1> HIDE DEF s, f
<1>4. /\ Below(s, c) \in Nat /\ InFrame(f, c) \in Nat
      /\ Below(stack, c) = Below(s, c) + InFrame(f, c)
  <2>1. /\ Below(s, c) \in Nat /\ InFrame(f, c) \in Nat
        /\ Below(Append(s, f), c) = Below(s, c) + InFrame(f, c)
    <3>1. \A i \in DOMAIN Append(s, f) : IsFiniteSet(PlacesIn(Append(s, f)[i], c))
      BY <1>1, <1>3
    <3> QED
      BY <1>2, <3>1, BelowAppend
  <2> QED
    BY <1>1, <2>1
<1>5. /\ start.outside[c] \in Nat /\ lost[c] \in Nat
      /\ Roots(c) = start.outside[c] + Below(stack, c) + InFrame(now, c)
                    + Occurrences(drops, c) + lost[c]
  BY RootsSum
<1>6. Occurrences(drops, c) = 0
  BY OccurrencesSmall
<1>7. InFrame(now, c) = One(now.value, c)
  BY ValuePlaces DEF IsEnv
<1>8. One(now.value, c) \in Nat
  BY DEF One
<1>9. Roots(c) = start.outside[c] + Below(s, c) + InFrame(f, c) + One(now.value, c) + lost[c]
  BY <1>4, <1>5, <1>6, <1>7, <1>8
<1> QED
  BY <1>4, <1>5, <1>9 DEF s, f

\* The environment of the body of a let, once the variable has its value.
BodyFrame(frame, v, env, removed) ==
    /\ env.kind = "run" /\ EnvOK(env) /\ removed \in Seq(Value)
    /\ SoloCells(env) = SoloCells(frame) /\ env.tail = frame.tail
    /\ \A y \in Needs(env) \ env.owned :
          y \in Needs(frame) \ frame.owned /\ env.locals[y] = frame.locals[y]
    /\ \A c \in Cell : /\ InFrame(env, c) \in Nat /\ Occurrences(removed, c) \in Nat
                       /\ InFrame(frame, c) + One(v, c) = InFrame(env, c) + Occurrences(removed, c)

(* The variable of a let owns the value, unless the body does not use it.     *)
LEMMA LetBound ==
    ASSUME NEW frame, frame.kind = "let", EnvOK(frame), NEW v \in Value
    PROVE  LET used == frame.x \in FreeVariables(frame.term)
               env == Run(frame.term, Over(Only(frame.x, v), frame.locals),
                          frame.owned \cup (IF used THEN {frame.x} ELSE {}),
                          frame.reuse, frame.tail)
           IN  BodyFrame(frame, v, env, IF used THEN <<>> ELSE <<v>>)
<1> DEFINE x == frame.x
           fv == FreeVariables(frame.term)
           used == x \in fv
           locals == Over(Only(x, v), frame.locals)
           owned == frame.owned \cup (IF used THEN {x} ELSE {})
           env == Run(frame.term, locals, owned, frame.reuse, frame.tail)
           removed == IF used THEN <<>> ELSE <<v>>
<1>1. /\ env.kind = "run" /\ env.term = frame.term /\ env.locals = locals /\ env.owned = owned
      /\ env.reuse = frame.reuse /\ env.tail = frame.tail
  BY DEF Run
<1>2. Needs(frame) = fv \ {x} /\ Needs(env) = fv /\ IsEnv(frame) /\ IsEnv(env)
  BY <1>1 DEF Needs, IsEnv
<1>3. /\ DOMAIN locals = {x} \cup DOMAIN frame.locals /\ locals[x] = v
      /\ \A y \in DOMAIN frame.locals \ {x} : locals[y] = frame.locals[y]
  BY DEF Over, Only
<1>4. /\ frame.term \in Term /\ frame.owned \subseteq fv \ {x} /\ fv \ {x} \subseteq DOMAIN frame.locals
      /\ \A y \in DOMAIN frame.locals : frame.locals[y] \in Value
      /\ DOMAIN frame.reuse \subseteq UsedConstructors(frame.term) \ NullCons
      /\ \A con \in DOMAIN frame.reuse : frame.reuse[con] \in Value
      /\ frame.tail \in BOOLEAN
  BY <1>2 DEF EnvOK
<1>5. IsFiniteSet(frame.owned) /\ IsFiniteSet(DOMAIN frame.reuse)
  BY EnvFinite
<1> HIDE DEF fv, locals, x, env
<1>6. EnvOK(env)
  <2>1. env.owned \subseteq Needs(env) /\ Needs(env) \subseteq DOMAIN env.locals
    BY <1>1, <1>2, <1>3, <1>4
  <2>2. \A y \in DOMAIN env.locals : env.locals[y] \in Value
    BY <1>1, <1>3, <1>4
  <2> QED
    BY <1>1, <1>4, <2>1, <2>2 DEF EnvOK
<1>7. removed \in Seq(Value)
  OBVIOUS
<1>8. SoloCells(env) = SoloCells(frame)
  BY <1>1, <1>2 DEF SoloCells
<1>9. ASSUME NEW y \in Needs(env) \ env.owned
      PROVE  y \in Needs(frame) \ frame.owned /\ env.locals[y] = frame.locals[y]
  <2>1. y \in fv /\ y \notin frame.owned /\ y # x
    BY <1>1, <1>2
  <2> QED
    BY <1>1, <1>2, <1>3, <1>4, <2>1
<1>10. ASSUME NEW c \in Cell
       PROVE  /\ InFrame(env, c) \in Nat /\ Occurrences(removed, c) \in Nat
              /\ InFrame(frame, c) + One(v, c) = InFrame(env, c) + Occurrences(removed, c)
  <2>1. /\ InFrame(env, c) \in Nat
        /\ InFrame(env, c) = Count(locals, owned, c) + Count(frame.reuse, DOMAIN frame.reuse, c)
    <3>1. /\ IsFiniteSet(env.owned) /\ IsFiniteSet(DOMAIN env.reuse)
      BY <1>6, EnvFinite
    <3>2. /\ InFrame(env, c) \in Nat
          /\ InFrame(env, c) = Count(env.locals, env.owned, c) + Count(env.reuse, DOMAIN env.reuse, c)
      BY <1>2, <3>1, EnvPlaces
    <3> QED
      BY <1>1, <3>2
  <2>2. /\ InFrame(frame, c) = Count(frame.locals, frame.owned, c)
                               + Count(frame.reuse, DOMAIN frame.reuse, c)
    BY <1>2, <1>5, EnvPlaces
  <2>3. /\ Count(frame.locals, frame.owned, c) \in Nat
        /\ Count(frame.reuse, DOMAIN frame.reuse, c) \in Nat
        /\ One(v, c) \in Nat
    BY <1>5, CountType DEF One
  <2>4. Count(locals, frame.owned, c) = Count(frame.locals, frame.owned, c)
    <3>1. \A y \in frame.owned : locals[y] = frame.locals[y]
      BY <1>3, <1>4
    <3> QED
      BY <3>1, CountSame
  <2>5. CASE used
    <3>1. Count(locals, frame.owned \cup {x}, c) = Count(locals, frame.owned, c) + One(locals[x], c)
      <4>1. x \notin frame.owned
        BY <1>4
      <4> QED
        BY <1>5, <4>1, CountMore
    <3>2. Count(locals, owned, c) = Count(frame.locals, frame.owned, c) + One(v, c)
      BY <1>3, <2>4, <2>5, <3>1
    <3>3. Occurrences(removed, c) = 0
      BY <2>5, OccurrencesSmall
    <3> HIDE DEF owned, removed, used
    <3> QED
      BY <2>1, <2>2, <2>3, <3>2, <3>3
  <2>6. CASE ~used
    <3>1. Count(locals, owned, c) = Count(frame.locals, frame.owned, c)
      BY <2>4, <2>6
    <3>2. Occurrences(removed, c) = One(v, c)
      BY <2>6, OccurrencesSmall
    <3> HIDE DEF owned, removed, used
    <3> QED
      BY <2>1, <2>2, <2>3, <3>1, <3>2
  <2> QED
    BY <2>5, <2>6
<1> HIDE DEF removed
<1>11. BodyFrame(frame, v, env, removed)
  BY <1>1, <1>6, <1>7, <1>8, <1>9, <1>10 DEF BodyFrame
<1> QED
  BY <1>11 DEF env, removed, locals, owned, x, fv

(* The value of a let is there, and its body runs.                           *)
LEMMA LetBodyStep ==
    ASSUME IInv, LetBody
    PROVE  IInv'
<1> DEFINE frame == Last(stack)
           v == now.value
           used == frame.x \in FreeVariables(frame.term)
           env == Run(frame.term, Over(Only(frame.x, v), frame.locals),
                      frame.owned \cup (IF used THEN {frame.x} ELSE {}),
                      frame.reuse, frame.tail)
           removed == IF used THEN <<>> ELSE <<v>>
           R == [c \in Cell |-> Roots(c)]
<1>1. /\ drops = <<>> /\ now.kind = "return" /\ stack # <<>> /\ frame.kind = "let"
      /\ now' = env /\ drops' = removed /\ stack' = Front(stack) /\ heap' = heap
      /\ start' = start /\ lost' = lost
  BY DEF LetBody, Returning, Pure
<1>2. PICK m : Popped(m, stack') /\ Len(stack') = m /\ stack = Append(stack', frame)
  BY <1>1, PopOnly
<1>3. m \in Nat /\ m + 1 = Len(stack) /\ frame = stack[m + 1] /\ \A j \in 1..m : stack'[j] = stack[j]
  BY <1>2 DEF Popped
<1>4. /\ Frames[m + 1] = frame /\ Frames[m + 2] = now
      /\ \A j \in 1..m : Frames[j] = stack[j]
      /\ FrameOK(Frames, m + 1) /\ FrameOK(Frames, m + 2) /\ Solo(heap, frame)
  <2>1. /\ DOMAIN Frames = 1..(Len(stack) + 1) /\ Frames[Len(stack) + 1] = now
        /\ \A i \in 1..Len(stack) : Frames[i] = stack[i]
    BY FramesShape DEF IInv
  <2>2. m + 1 \in DOMAIN Frames /\ m + 2 \in DOMAIN Frames
    BY <1>3, <2>1
  <2>3. Frames[m + 1] = frame /\ Frames[m + 2] = now /\ \A j \in 1..m : Frames[j] = stack[j]
    <3> HIDE DEF frame
    <3> QED
      BY <1>3, <2>1
  <2>4. FrameOK(Frames, m + 1) /\ FrameOK(Frames, m + 2) /\ Solo(heap, Frames[m + 1])
    BY <2>2 DEF IInv, FramesOK
  <2> QED
    BY <2>3, <2>4
<1>5. v \in Value
  BY <1>1, <1>4 DEF FrameOK
<1>6. EnvOK(frame) /\ IsEnv(frame)
  BY <1>1, <1>4 DEF FrameOK, IsEnv
<1>7. BodyFrame(frame, v, env, removed)
  <2> HIDE DEF frame, v
  <2> QED
    BY <1>1, <1>5, <1>6, LetBound
<1> HIDE DEF env, removed
<1>8. /\ env.kind = "run" /\ EnvOK(env) /\ removed \in Seq(Value)
      /\ SoloCells(env) = SoloCells(frame) /\ env.tail = frame.tail
      /\ \A y \in Needs(env) \ env.owned :
            y \in Needs(frame) \ frame.owned /\ env.locals[y] = frame.locals[y]
      /\ \A c \in Cell : /\ InFrame(env, c) \in Nat /\ Occurrences(removed, c) \in Nat
                         /\ InFrame(frame, c) + One(v, c) = InFrame(env, c) + Occurrences(removed, c)
  BY <1>7 DEF BodyFrame
<1>9. /\ Frames'[m + 1] = env /\ \A j \in 1..m : Frames'[j] = Frames[j]
  <2>1. Frames' = Append(stack', env) /\ stack' \in Seq(ToSet(stack'))
    BY <1>1, <1>2 DEF Frames, Popped
  <2> QED
    BY <1>2, <1>3, <1>4, <2>1
<1> HIDE DEF frame
<1>10. FrameOK(Frames', m + 1) /\ Solo(heap', Frames'[m + 1])
  <2>1. ASSUME NEW y \in Needs(env) \ env.owned
        PROVE  Lent(Frames', m + 1, env.locals[y])
    <3>1. y \in Needs(frame) \ frame.owned /\ env.locals[y] = frame.locals[y]
      BY <1>8
    <3>2. Lent(Frames, m + 1, frame.locals[y])
      BY <1>4, <1>6, <3>1 DEF FrameOK
    <3>3. \A j \in 1..((m + 1) - 1) : j \in 1..m
      BY <1>3
    <3> QED
      BY <1>9, <3>1, <3>2, <3>3 DEF Lent
  <2>2. env.tail => m + 1 > 1 /\ Frames'[(m + 1) - 1].kind = "trampoline"
    <3>1. frame.tail => m + 1 > 1 /\ Frames[(m + 1) - 1].kind = "trampoline"
      BY <1>4, <1>6 DEF FrameOK
    <3>2. m + 1 > 1 => (m + 1) - 1 \in 1..m
      BY <1>3
    <3> QED
      BY <1>8, <1>9, <3>1, <3>2
  <2>3. FrameOK(Frames', m + 1)
    BY <1>8, <1>9, <2>1, <2>2 DEF FrameOK, IsEnv
  <2>4. Solo(heap', env)
    BY <1>1, <1>4, <1>8 DEF Solo, SoloKind
  <2> QED
    BY <1>9, <2>3, <2>4
<1>11. FullOK' /\ StoreOK'
  <2>1. \A c \in Cell : ~IsFull(heap[c])
    BY <1>1 DEF IInv, FullOK, frame
  <2> QED
    BY <1>1, <1>8, <2>1 DEF FullOK, StoreOK
<1>12. ASSUME NEW c \in Cell
       PROVE  R[c] = start.outside[c] + (Below(stack', c) + InFrame(now', c))
                     + Occurrences(drops', c) + lost'[c]
  <2>1. /\ start.outside[c] \in Nat /\ Below(stack', c) \in Nat
        /\ InFrame(frame, c) \in Nat /\ lost[c] \in Nat
        /\ Roots(c) = start.outside[c] + Below(stack', c) + InFrame(frame, c)
                      + One(v, c) + lost[c]
    BY <1>1, PopRoots DEF frame
  <2>2. One(v, c) \in Nat /\ R[c] = Roots(c)
    BY DEF One
  <2> HIDE DEF R, v
  <2>3. PICK a \in Nat, p \in Nat, f \in Nat, l \in Nat, o \in Nat, i \in Nat, q \in Nat :
           /\ a = start.outside[c] /\ p = Below(stack', c) /\ f = InFrame(frame, c) /\ l = lost[c]
           /\ o = One(v, c) /\ i = InFrame(env, c) /\ q = Occurrences(removed, c)
    BY <1>8, <2>1, <2>2
  <2>4. Roots(c) = a + p + f + o + l /\ f + o = i + q
    BY <1>8, <2>1, <2>3
  <2>5. a + p + f + o + l = a + (p + i) + q + l
    BY <2>4
  <2>6. /\ InFrame(now', c) = i /\ Occurrences(drops', c) = q /\ lost'[c] = l
        /\ start.outside[c] = a /\ Below(stack', c) = p
    BY <1>1, <2>3
  <2> QED
    BY <2>2, <2>4, <2>5, <2>6
<1>13. Ledger(heap', R)
  BY <1>1, RootsSum
<1>14. /\ drops' \in Seq(Value) /\ lost' \in [Cell -> Nat] /\ now'.kind = "run"
  BY <1>1, <1>8 DEF IInv, ShapeOK
<1>15. \A j \in (m + 1)..(Len(stack') + 1) : FrameOK(Frames', j) /\ Solo(heap', Frames'[j])
  <2>1. \A j \in (m + 1)..(Len(stack') + 1) : j = m + 1
    BY <1>2, <1>3
  <2> QED
    BY <1>10, <2>1
<1> HIDE DEF R
<1> QED
  BY <1>1, <1>2, <1>11, <1>12, <1>13, <1>14, <1>15, PopStep

\* The closure that the last trampoline has run, and the heap without it.
Ran == Last(stack).clo
Released == IF Ran = Null THEN heap ELSE ReleaseShell(heap, Ran)
\* What is left of it, in a heap with ledger n.
Freed(n) ==
    /\ Ledger(Released, n) /\ Ran \in Value
    /\ \A c \in Cell : c # Ran => Released[c] = heap[c]
    /\ Ran # Null => /\ Released[Ran] = FreeCell /\ heap[Ran].kind = "running"
                     /\ Ran \notin start.shared /\ Ran \in SoloCells(Last(stack))
    /\ \A c \in Cell :
         n[c] = start.outside[c] + Below(Front(stack), c) + One(now.value, c) + lost[c]

(* The closure that has been run is freed.                                    *)
LEMMA RanFreed ==
    ASSUME IInv, Returning("trampoline")
    PROVE  /\ \E n : Freed(n)
           /\ now.value \in Value
<1> DEFINE R == [c \in Cell |-> Roots(c)]
<1>1. drops = <<>> /\ now.kind = "return" /\ stack # <<>> /\ Last(stack).kind = "trampoline"
  BY DEF Returning
<1>2. PICK m : Popped(m, Front(stack))
  BY <1>1, PopOnly
<1>3. m \in Nat /\ m + 1 = Len(stack) /\ Last(stack) = stack[m + 1]
  BY <1>2 DEF Popped
<1>4. /\ Frames[m + 1] = Last(stack) /\ Frames[m + 2] = now
      /\ m + 1 \in DOMAIN Frames /\ m + 2 \in DOMAIN Frames
  BY <1>3, FramesShape DEF IInv
<1>5. Ran \in Value /\ now.value \in Value
  BY <1>1, <1>4 DEF IInv, FramesOK, FrameOK, Ran
<1>6. Ran # Null => /\ Ran \in SoloCells(Last(stack)) /\ Ran \in Cell
                    /\ heap[Ran].kind = "running" /\ heap[Ran].rc = 1 /\ Ran \notin start.shared
  <2> SUFFICES ASSUME Ran # Null
               PROVE  /\ Ran \in SoloCells(Last(stack)) /\ Ran \in Cell
                      /\ heap[Ran].kind = "running" /\ heap[Ran].rc = 1 /\ Ran \notin start.shared
    OBVIOUS
  <2>1. Ran \in SoloCells(Last(stack)) /\ Ran \in Cell
    BY <1>1, <1>5 DEF SoloCells, IsEnv, Ran, Value
  <2>2. heap[Ran].kind = "running" /\ heap[Ran].rc = 1
    BY <1>1, <1>4, <2>1 DEF IInv, FramesOK, Solo, SoloKind
  <2>3. Ran \notin start.shared
    BY <1>4, <2>1, Apart
  <2> QED
    BY <2>1, <2>2, <2>3
<1>7. ASSUME NEW c \in Cell
      PROVE  Roots(c) = start.outside[c] + Below(Front(stack), c) + One(Ran, c)
                        + One(now.value, c) + lost[c]
  <2>1. InFrame(Last(stack), c) = One(Ran, c)
    BY <1>1, ValuePlaces DEF IsEnv, Ran
  <2> QED
    BY <1>1, <2>1, PopRoots
<1>8. \A c \in Cell : /\ start.outside[c] \in Nat /\ Below(Front(stack), c) \in Nat
                      /\ lost[c] \in Nat /\ One(now.value, c) \in Nat /\ One(Ran, c) \in Nat
  BY <1>1, PopRoots DEF One
<1>9. Ledger(heap, R)
  BY RootsSum
<1>10. CASE Ran = Null
  <2>1. \A c \in Cell : R[c] = start.outside[c] + Below(Front(stack), c) + One(now.value, c) + lost[c]
    <3>1. \A c \in Cell : One(Ran, c) = 0
      BY <1>10 DEF One, Null, Cell
    <3> QED
      BY <1>7, <1>8, <3>1
  <2>2. Released = heap
    BY <1>10 DEF Released
  <2> HIDE DEF R
  <2>3. Freed(R)
    BY <1>5, <1>9, <1>10, <2>1, <2>2 DEF Freed
  <2> QED
    BY <1>5, <2>3
<1>11. CASE Ran # Null
  <2> DEFINE left == IF heap[Ran].rc = 1 THEN Fields(heap, Ran) ELSE <<>>
             n == [c \in Cell |-> R[c] - One(Ran, c) + Occurrences(left, c)]
  <2>1. Ran \in Cell /\ heap[Ran].kind # "free" /\ heap[Ran].rc # RcMax
    BY <1>6, <1>11, MemoryAssumption
  <2>2. Released = ReleaseShell(heap, Ran)
    BY <1>11 DEF Released
  <2>3. /\ Ledger(Released, n) /\ \A c \in Cell \ {Ran} : Released[c] = heap[c]
        /\ \/ Released[Ran] = FreeCell /\ heap[Ran].rc = 1
           \/ Contents(Released[Ran]) = Contents(heap[Ran]) /\ heap[Ran].rc # 1
    <3> HIDE DEF R
    <3> QED
      BY <1>9, <2>1, <2>2, ReleaseLedger
  <2>4. left = <<>>
    BY <1>6, <1>11 DEF Fields
  <2>5. \A c \in Cell : n[c] = Roots(c) - One(Ran, c) + 0
    BY <2>4, OccurrencesSmall
  <2> HIDE DEF n, R
  <2>6. \A c \in Cell :
           n[c] = start.outside[c] + Below(Front(stack), c) + One(now.value, c) + lost[c]
    BY <1>7, <1>8, <2>5
  <2>7. Freed(n)
    BY <1>5, <1>6, <2>3, <2>6 DEF Freed
  <2> QED
    BY <1>5, <2>7
<1> QED
  BY <1>10, <1>11

(* A saturated closure is run by the trampoline that gets it.                 *)
LEMMA LoopEnters ==
    ASSUME IInv, Returning("trampoline"), Pure, NEW it, it = now.value, it # Null,
           Released[it].kind = "clo", Len(Released[it].args) = Arity(Released[it].name),
           Enter([Released EXCEPT ![it].kind = "running"], Released[it].name, Released[it].args),
           stack' = Append(Front(stack), Trampoline(it))
    PROVE  IInv'
<1> DEFINE h == Released
           fn == h[it].name
           values == h[it].args
           g == [h EXCEPT ![it].kind = "running"]
           body == Defs[fn].body
           locals == Binding(Defs[fn].params, values)
           used == FreeVariables(body)
           removed == ValuesOf(ToSet(Defs[fn].params) \ used, locals)
           env == Run(body, locals, used, NoReuse, TRUE)
<1>1. /\ drops = <<>> /\ now.kind = "return" /\ stack # <<>> /\ Last(stack).kind = "trampoline"
      /\ heap' = g /\ now' = env /\ drops' = removed /\ start' = start /\ lost' = lost
  BY DEF Returning, Enter, Pure
<1>2. now.value \in Value /\ it \in Cell
  BY RanFreed DEF Value
<1>3. PICK n : Freed(n)
  BY RanFreed
<1>4. /\ Ledger(h, n) /\ Ran \in Value
      /\ \A c \in Cell : c # Ran => h[c] = heap[c]
      /\ Ran # Null => /\ h[Ran] = FreeCell /\ heap[Ran].kind = "running"
                       /\ Ran \notin start.shared /\ Ran \in SoloCells(Last(stack))
      /\ \A c \in Cell :
           n[c] = start.outside[c] + Below(Front(stack), c) + One(now.value, c) + lost[c]
  BY <1>3 DEF Freed
<1>5. it # Ran
  BY <1>4 DEF FreeCell
<1>6. h[it] = heap[it] /\ heap[it].rc = 1 /\ heap[it].kind = "clo"
  <2>1. h[it] = heap[it]
    BY <1>2, <1>4, <1>5
  <2>2. IsFull(heap[it])
    BY <2>1 DEF IsFull
  <2> QED
    BY <1>2, <2>1, <2>2 DEF IInv, FullOK
<1>7. fn \in DOMAIN Defs /\ values \in Seq(Value) /\ Len(values) = Arity(fn)
  <2>1. HeapOK(h)
    BY <1>4 DEF Ledger
  <2>2. CellOK(h[it]) /\ h[it].args \in Seq(Value)
    BY <1>2, <2>1, FieldsType DEF HeapOK
  <2> QED
    BY <2>2 DEF CellOK
<1>8. PICK k : Hollows(h, n, it, "running", g, k)
  <2>1. h[it].kind \in {"con", "clo"} /\ "running" \in {"token", "running"}
    OBVIOUS
  <2>2. g = [h EXCEPT ![it].kind = "running"]
    OBVIOUS
  <2> HIDE DEF h, g
  <2> QED
    BY <1>2, <1>4, <2>1, <2>2, HollowLedger
<1>9. /\ Ledger(g, k) /\ \A c \in Cell : k[c] = n[c] + Occurrences(values, c)
      /\ \A c \in Cell \ {it} : g[c] = h[c]
      /\ g[it].kind = "running" /\ g[it].rc = 1
  BY <1>6, <1>8 DEF Hollows
<1>10. /\ removed \in Seq(Value)
       /\ IsEnv(env) /\ EnvOK(env) /\ Needs(env) \ env.owned = {} /\ SoloCells(env) = {}
       /\ \A c : /\ InFrame(env, c) \in Nat /\ Occurrences(removed, c) \in Nat
                 /\ Occurrences(values, c) = InFrame(env, c) + Occurrences(removed, c)
  <2> HIDE DEF values, fn
  <2> QED
    BY <1>7, Prologue
<1>11. env.kind = "run" /\ env.tail = TRUE
  BY DEF Run
<1> DEFINE f == Trampoline(it)
<1>12. /\ f.kind = "trampoline" /\ f.clo = it /\ ~IsEnv(f)
       /\ SoloCells(f) = {it} /\ SoloKind(f) = "running"
  BY <1>2 DEF Trampoline, IsEnv, SoloCells, SoloKind, Cell, Null
<1> HIDE DEF f
<1>13. PICK m : Popped(m, stack') /\ Len(stack') = m + 1 /\ stack'[m + 1] = f
  <2>1. stack' = Append(Front(stack), f) /\ IInv /\ stack # <<>>
    BY <1>1 DEF f
  <2>2. f.kind \in {"let", "trampoline"}
    BY <1>12
  <2> DEFINE t == Append(Front(stack), f)
  <2>3. \E m : Popped(m, t) /\ Len(t) = m + 1 /\ t[m + 1] = f
    BY <2>1, <2>2, PopPush
  <2>4. stack' = t
    BY <2>1
  <2> HIDE DEF t
  <2> QED
    BY <2>3, <2>4
<1>14. m \in Nat /\ stack' \in Seq(ToSet(stack'))
  BY <1>13 DEF Popped
<1> HIDE DEF env, removed, values, fn, h, g
<1>15. Frames'[m + 1] = f /\ Frames'[m + 2] = env
  BY <1>1, <1>13, <1>14 DEF Frames
<1>16. FrameOK(Frames', m + 1) /\ Solo(heap', Frames'[m + 1])
  BY <1>1, <1>2, <1>9, <1>12, <1>15 DEF FrameOK, Solo, Value
<1>17. FrameOK(Frames', m + 2) /\ Solo(heap', Frames'[m + 2])
  <2>1. m + 2 > 1 /\ (m + 2) - 1 = m + 1 /\ Frames'[m + 1].kind = "trampoline"
    BY <1>12, <1>14, <1>15
  <2>2. FrameOK(Frames', m + 2)
    BY <1>10, <1>11, <1>15, <2>1 DEF FrameOK
  <2>3. Solo(heap', env)
    BY <1>10 DEF Solo
  <2> QED
    BY <1>15, <2>2, <2>3
<1>18. \A j \in (m + 1)..(Len(stack') + 1) : FrameOK(Frames', j) /\ Solo(heap', Frames'[j])
  <2>1. \A j \in (m + 1)..(Len(stack') + 1) : j = m + 1 \/ j = m + 2
    BY <1>13, <1>14
  <2> QED
    BY <1>16, <1>17, <2>1
<1>19. it \notin start.shared
  <2> SUFFICES ASSUME it \in start.shared
               PROVE  FALSE
    OBVIOUS
  <2>1. heap[it].rc # RcMax
    BY <1>6, MemoryAssumption
  <2>2. heap[it].rc >= 1 + Below(stack, it) + InFrame(now, it) + Occurrences(drops, it)
    BY <2>1, SharedHeld
  <2>3. Below(stack, it) \in Nat /\ Occurrences(drops, it) \in Nat
    BY <1>2, RootsSum
  <2>4. InFrame(now, it) = 1
    BY <1>1, ValuePlaces DEF IsEnv, One
  <2> QED
    BY <1>6, <2>2, <2>3, <2>4
<1>20. /\ \A c \in Cell : heap[c].kind \in {"token", "running"} /\ ~Referred(c)
                          /\ c \notin SoloCells(Last(stack)) => heap'[c] = heap[c]
       /\ \A c \in start.shared : Contents(heap'[c]) = Contents(heap[c])
  <2>1. \A c \in Cell : c # it /\ c # Ran => heap'[c] = heap[c]
    BY <1>1, <1>4, <1>9
  <2>2. \A c \in Cell : c # Null
    BY DEF Cell, Null
  <2>3. \A c \in start.shared : c \in Cell /\ c # it /\ c # Ran
    BY <1>4, <1>19, <2>2, SharedHeld
  <2> QED
    BY <1>4, <1>6, <2>1, <2>2, <2>3
<1>21. FullOK' /\ StoreOK'
  <2>1. ASSUME NEW c \in Cell
        PROVE  ~IsFull(g[c])
    <3>1. CASE c = it
      BY <1>9, <3>1 DEF IsFull
    <3>2. CASE c # it /\ c = Ran
      BY <1>4, <1>9, <3>2 DEF IsFull, FreeCell, Cell, Null
    <3>3. CASE c # it /\ c # Ran
      <4>1. g[c] = heap[c]
        BY <1>4, <1>9, <3>3
      <4> QED
        BY <3>3, <4>1 DEF IInv, FullOK
    <3> QED
      BY <3>1, <3>2, <3>3
  <2> QED
    BY <1>1, <1>11, <2>1 DEF FullOK, StoreOK
<1>22. ASSUME NEW c \in Cell
       PROVE  k[c] = start.outside[c] + (Below(stack', c) + InFrame(now', c))
                     + Occurrences(drops', c) + lost'[c]
  <2>1. /\ start.outside[c] \in Nat /\ Below(Front(stack), c) \in Nat /\ lost[c] \in Nat
    BY <1>1, PopRoots
  <2>2. k[c] = start.outside[c] + Below(Front(stack), c) + One(it, c) + lost[c]
               + Occurrences(values, c)
    BY <1>4, <1>9
  <2>3. Below(stack', c) = Below(Front(stack), c) + One(it, c)
    <3>1. PICK p : Popped(p, Front(stack)) /\ Len(Front(stack)) = p
                   /\ stack = Append(Front(stack), Last(stack))
      BY <1>1, PopOnly
    <3>2. Front(stack) \in Seq(ToSet(Front(stack))) /\ p \in Nat /\ p + 1 = Len(stack)
          /\ \A j \in 1..p : Front(stack)[j] = stack[j]
      BY <3>1 DEF Popped
    <3>3. \A i \in DOMAIN stack : IsFiniteSet(PlacesIn(stack[i], c))
      <4>1. \A i \in DOMAIN stack : i \in DOMAIN Frames /\ Frames[i] = stack[i]
        BY FramesShape DEF IInv
      <4> QED
        BY <4>1, FrameFinite DEF IInv, FramesOK
    <3> DEFINE s == Front(stack)
    <3>4. \A i \in DOMAIN s : IsFiniteSet(PlacesIn(s[i], c))
      <4>1. \A i \in 1..p : i \in 1..Len(stack)
        BY <3>2
      <4>2. DOMAIN stack = 1..Len(stack) /\ DOMAIN s = 1..p
        BY <3>1, <3>2, FramesShape DEF IInv
      <4> HIDE DEF s
      <4>3. \A j \in 1..p : s[j] = stack[j]
        BY <3>2 DEF s
      <4> QED
        BY <3>3, <4>1, <4>2, <4>3
    <3>5. IsFiniteSet(PlacesIn(f, c)) /\ InFrame(f, c) = One(it, c)
      BY <1>12, ValuePlaces
    <3>6. stack' = Append(s, f) /\ s \in Seq(ToSet(s))
      BY <3>2 DEF f
    <3> HIDE DEF s
    <3>7. Below(Append(s, f), c) = Below(s, c) + InFrame(f, c)
      BY <3>4, <3>5, <3>6, FramesAppend
    <3> QED
      BY <3>5, <3>6, <3>7 DEF s
  <2>4. PICK a \in Nat, p \in Nat, l \in Nat, o \in Nat, i \in Nat, q \in Nat :
           /\ a = start.outside[c] /\ p = Below(Front(stack), c) /\ l = lost[c]
           /\ o = One(it, c) /\ i = InFrame(env, c) /\ q = Occurrences(removed, c)
    BY <1>10, <2>1 DEF One
  <2>5. k[c] = a + p + o + l + (i + q)
    BY <1>10, <2>2, <2>4
  <2>6. a + p + o + l + (i + q) = a + (p + o + i) + q + l
    OBVIOUS
  <2>7. /\ Below(stack', c) = p + o /\ InFrame(now', c) = i /\ Occurrences(drops', c) = q
        /\ lost'[c] = l /\ start.outside[c] = a
    BY <1>1, <2>3, <2>4
  <2> QED
    BY <2>5, <2>6, <2>7
<1>23. /\ Ledger(heap', k) /\ drops' \in Seq(Value) /\ lost' \in [Cell -> Nat] /\ now'.kind = "run"
  BY <1>1, <1>9, <1>10, <1>11 DEF IInv, ShapeOK
<1> QED
  BY <1>1, <1>13, <1>18, <1>20, <1>21, <1>22, <1>23, PopStep

(* Any other value is what the trampoline returns.                           *)
LEMMA LoopReturns ==
    ASSUME IInv, Returning("trampoline"), Pure, heap' = Released, stack' = Front(stack),
           now' = now, drops' = drops,
           ~(/\ now.value # Null /\ Released[now.value].kind = "clo"
             /\ Len(Released[now.value].args) = Arity(Released[now.value].name))
    PROVE  IInv'
<1> DEFINE h == Released
           it == now.value
<1>1. /\ drops = <<>> /\ now.kind = "return" /\ stack # <<>> /\ Last(stack).kind = "trampoline"
      /\ start' = start /\ lost' = lost
  BY DEF Returning, Pure
<1>2. it \in Value
  BY RanFreed
<1>3. PICK n : Freed(n)
  BY RanFreed
<1>4. /\ Ledger(h, n) /\ Ran \in Value
      /\ \A c \in Cell : c # Ran => h[c] = heap[c]
      /\ Ran # Null => /\ h[Ran] = FreeCell /\ heap[Ran].kind = "running"
                       /\ Ran \notin start.shared /\ Ran \in SoloCells(Last(stack))
      /\ \A c \in Cell :
           n[c] = start.outside[c] + Below(Front(stack), c) + One(it, c) + lost[c]
  BY <1>3 DEF Freed
<1>5. PICK m : Popped(m, stack') /\ Len(stack') = m
  BY <1>1, PopOnly
<1>6. m \in Nat /\ stack' \in Seq(ToSet(stack'))
  BY <1>5 DEF Popped
<1>7. Frames'[m + 1] = now
  BY <1>5, <1>6 DEF Frames
<1>8. FrameOK(Frames', m + 1) /\ Solo(heap', Frames'[m + 1])
  BY <1>1, <1>2, <1>7 DEF FrameOK, Solo, SoloCells, IsEnv
<1>9. \A j \in (m + 1)..(Len(stack') + 1) : FrameOK(Frames', j) /\ Solo(heap', Frames'[j])
  <2>1. \A j \in (m + 1)..(Len(stack') + 1) : j = m + 1
    BY <1>5, <1>6
  <2> QED
    BY <1>8, <2>1
<1>10. \A c \in Cell : c # Null
  BY DEF Cell, Null
<1> HIDE DEF h
<1>11. /\ \A c \in Cell : heap[c].kind \in {"token", "running"} /\ ~Referred(c)
                          /\ c \notin SoloCells(Last(stack)) => h[c] = heap[c]
       /\ \A c \in start.shared : Contents(h[c]) = Contents(heap[c])
  <2>1. \A c \in start.shared : c \in Cell /\ c # Ran
    BY <1>4, <1>10, SharedHeld
  <2> QED
    BY <1>4, <1>10, <2>1
<1>12. FullOK' /\ StoreOK'
  <2>1. ASSUME NEW c \in Cell
        PROVE  ~IsFull(h[c])
    <3>1. CASE c = Ran
      BY <1>4, <1>10, <3>1 DEF IsFull, FreeCell
    <3>2. CASE c # Ran
      <4>1. h[c] = heap[c]
        BY <1>4, <3>2
      <4>2. IsFull(heap[c]) => c = it
        BY DEF IInv, FullOK
      <4>3. ~(it # Null /\ IsFull(h[it]))
        BY DEF IsFull, h
      <4> HIDE DEF it
      <4> QED
        BY <1>10, <4>1, <4>2, <4>3
    <3> QED
      BY <3>1, <3>2
  <2> QED
    BY <1>1, <2>1 DEF FullOK, StoreOK, h
<1>13. ASSUME NEW c \in Cell
       PROVE  n[c] = start.outside[c] + (Below(stack', c) + InFrame(now', c))
                     + Occurrences(drops', c) + lost'[c]
  <2>1. /\ start.outside[c] \in Nat /\ Below(Front(stack), c) \in Nat /\ lost[c] \in Nat
    BY <1>1, PopRoots
  <2>2. InFrame(now, c) = One(it, c) /\ One(it, c) \in Nat
    BY <1>1, ValuePlaces DEF IsEnv, One
  <2>3. Occurrences(drops', c) = 0
    BY <1>1, OccurrencesSmall
  <2>4. PICK a \in Nat, p \in Nat, l \in Nat, o \in Nat :
           a = start.outside[c] /\ p = Below(Front(stack), c) /\ l = lost[c] /\ o = One(it, c)
    BY <2>1, <2>2
  <2>5. n[c] = a + p + o + l
    BY <1>4, <2>4
  <2>6. a + p + o + l = a + (p + o) + 0 + l
    OBVIOUS
  <2>7. /\ Below(stack', c) = p /\ InFrame(now', c) = o /\ lost'[c] = l /\ start.outside[c] = a
    BY <1>1, <2>2, <2>4
  <2> QED
    BY <2>3, <2>5, <2>6, <2>7
<1>14. Ledger(heap', n) /\ drops' \in Seq(Value) /\ lost' \in [Cell -> Nat] /\ now'.kind = "return"
  BY <1>1, <1>4 DEF IInv, ShapeOK, h
<1> QED
  BY <1>1, <1>5, <1>9, <1>11, <1>12, <1>13, <1>14, PopStep DEF h

(* idris2_trampoline.                                                        *)
LEMMA TrampolineLoopStep ==
    ASSUME IInv, TrampolineLoop
    PROVE  IInv'
<1> DEFINE it == now.value
           full == /\ it # Null /\ Released[it].kind = "clo"
                   /\ Len(Released[it].args) = Arity(Released[it].name)
<1>1. Returning("trampoline") /\ Pure
  BY DEF TrampolineLoop
<1>2. \/ /\ full
         /\ Enter([Released EXCEPT ![it].kind = "running"], Released[it].name, Released[it].args)
         /\ stack' = Append(Front(stack), Trampoline(it))
      \/ /\ ~full /\ heap' = Released /\ stack' = Front(stack) /\ now' = now /\ drops' = drops
  BY DEF TrampolineLoop, Released, Ran
<1>3. CASE /\ full
           /\ Enter([Released EXCEPT ![it].kind = "running"], Released[it].name, Released[it].args)
           /\ stack' = Append(Front(stack), Trampoline(it))
  BY <1>1, <1>3, LoopEnters
<1>4. CASE ~full /\ heap' = Released /\ stack' = Front(stack) /\ now' = now /\ drops' = drops
  BY <1>1, <1>4, LoopReturns
<1> QED
  BY <1>2, <1>3, <1>4

(***************************************************************************)
(* The theorems                                                            *)
(***************************************************************************)
(* The references in the heap that main finds.                                *)
LEMMA StartPlaces ==
    ASSUME NEW s \in Starts, NEW c \in Cell
    PROVE  s.heap[c].rc # RcMax =>
             s.heap[c].rc = s.outside[c] + Occurrences(s.locals, c) + InHeap(s.heap, c)
<1> DEFINE h == s.heap
           fields == {p \in UNION {{d} \X DOMAIN h[d].args : d \in Cell} : h[p[1]].args[p[2]] = c}
<1>1. /\ \A d \in Cell : h[d].kind \notin {"token", "running"}
      /\ h[c].rc # RcMax => h[c].rc = s.outside[c] + Occurrences(s.locals, c) + Cardinality(fields)
  BY StartAssumption
<1>2. \A d \in Cell : Fields(h, d) = h[d].args
  BY <1>1 DEF Fields
<1>3. fields = PlacesInHeap(h, c)
  <2> HIDE DEF h
  <2>1. ASSUME NEW p \in fields
        PROVE  p \in PlacesInHeap(h, c)
    <3>1. PICK d \in Cell : p \in {d} \X DOMAIN h[d].args
      OBVIOUS
    <3>2. p = <<d, p[2]>> /\ p[1] = d /\ p[2] \in DOMAIN h[d].args /\ h[d].args[p[2]] = c
      BY <3>1
    <3>3. p \in {d} \X {i \in DOMAIN Fields(h, d) : Fields(h, d)[i] = c}
      BY <1>2, <3>1, <3>2
    <3> QED
      BY <3>3 DEF PlacesInHeap
  <2>2. ASSUME NEW p \in PlacesInHeap(h, c)
        PROVE  p \in fields
    <3>1. PICK d \in Cell : p \in {d} \X {i \in DOMAIN Fields(h, d) : Fields(h, d)[i] = c}
      BY DEF PlacesInHeap
    <3>2. p[1] = d /\ p \in {d} \X DOMAIN h[d].args /\ h[d].args[p[2]] = c
      BY <1>2, <3>1
    <3> QED
      BY <3>2
  <2> HIDE DEF fields
  <2> QED
    BY <2>1, <2>2
<1> QED
  BY <1>1, <1>3 DEF InHeap

(* main starts with the variables that it uses; the others are dropped.       *)
LEMMA InitFrames ==
    ASSUME Init
    PROVE  ShapeOK /\ FramesOK /\ now.kind = "run" /\ start \in Starts /\ heap = start.heap
           /\ \A c \in Cell : Roots(c) = start.outside[c] + Occurrences(start.locals, c)
<1>1. PICK s \in Starts :
        LET used == FreeVariables(s.main)
        IN  /\ heap = s.heap
            /\ drops = ValuesOf(DOMAIN s.locals \ used, s.locals)
            /\ now = Run(s.main, s.locals, used, NoReuse, TRUE)
            /\ stack = <<Trampoline(Null)>>
            /\ start = s
            /\ lost = [c \in Cell |-> 0]
  BY DEF Init
<1> DEFINE t == s.main
           used == FreeVariables(t)
           rest == DOMAIN s.locals \ used
           f == Trampoline(Null)
<1>2. /\ used \subseteq DOMAIN s.locals /\ heap = s.heap /\ drops = ValuesOf(rest, s.locals)
      /\ now = Run(t, s.locals, used, NoReuse, TRUE) /\ stack = <<f>> /\ start = s
      /\ lost = [c \in Cell |-> 0]
  BY <1>1, StartAssumption
<1>3. /\ now.kind = "run" /\ now.term = t /\ now.locals = s.locals /\ now.owned = used
      /\ now.reuse = <<>> /\ now.tail = TRUE
  BY <1>2 DEF Run, NoReuse
<1>4. t \in Term
  BY ProgramAssumption
<1>5. /\ IsFiniteSet(DOMAIN s.locals) /\ \A x \in DOMAIN s.locals : s.locals[x] \in Value
      /\ s.outside \in [Cell -> Nat]
  BY StartAssumption
<1>6. IsFiniteSet(used) /\ IsFiniteSet(rest)
  <2>1. used \in SUBSET DOMAIN s.locals /\ rest \in SUBSET DOMAIN s.locals
    BY <1>2
  <2> QED
    BY <1>5, <2>1, FS_Subset
<1>7. drops \in Seq(Value) /\ \A c : Occurrences(drops, c) = Count(s.locals, rest, c)
  <2> HIDE DEF rest
  <2>1. \A x \in rest : s.locals[x] \in Value
    BY <1>5 DEF rest
  <2> QED
    BY <1>2, <1>6, <2>1, ValuesOfCount
<1>8. /\ stack \in Seq({f}) /\ Len(stack) = 1 /\ DOMAIN stack = {1} /\ stack[1] = f
  BY <1>2
<1>9. f.kind = "trampoline" /\ ~IsEnv(f) /\ SoloCells(f) = {}
      /\ (\A frames, i : frames[i] = f => FrameOK(frames, i)) /\ (\A h : Solo(h, f))
      /\ \A c \in Cell : IsFiniteSet(PlacesIn(f, c)) /\ InFrame(f, c) = 0
  BY EmptyTrampoline
<1> HIDE DEF f, used, rest
<1>10. ShapeOK
  <2>1. stack \in Seq(ToSet(stack))
    <3>1. ToSet(stack) = {f}
      BY <1>8 DEF ToSet
    <3> QED
      BY <1>8, <3>1
  <2>2. lost \in [Cell -> Nat] /\ start \in Starts
    BY <1>2
  <2> QED
    BY <1>3, <1>7, <1>8, <1>9, <2>1, <2>2 DEF ShapeOK
<1>11. IsEnv(now) /\ EnvOK(now) /\ Needs(now) = used /\ SoloCells(now) = {}
  <2>1. IsEnv(now) /\ Needs(now) = used
    BY <1>3 DEF IsEnv, Needs, used
  <2>2. SoloCells(now) = {}
    BY <1>3, <2>1 DEF SoloCells
  <2>3. DOMAIN now.reuse = {}
    BY <1>3
  <2>4. /\ now.term \in Term /\ now.owned \subseteq Needs(now) /\ Needs(now) \subseteq DOMAIN now.locals
        /\ \A x \in DOMAIN now.locals : now.locals[x] \in Value
        /\ now.tail \in BOOLEAN
    BY <1>2, <1>3, <1>4, <1>5, <2>1
  <2>5. EnvOK(now)
    BY <2>3, <2>4 DEF EnvOK
  <2> QED
    BY <2>1, <2>2, <2>5
<1>12. Frames[1] = f /\ Frames[2] = now /\ DOMAIN Frames = {1, 2}
  <2>1. /\ DOMAIN Frames = 1..(Len(stack) + 1) /\ Frames[Len(stack) + 1] = now
        /\ \A i \in 1..Len(stack) : Frames[i] = stack[i]
    BY <1>10, FramesShape
  <2> QED
    BY <1>8, <2>1
<1>13. FramesOK
  <2>1. FrameOK(Frames, 1) /\ Solo(heap, Frames[1])
    BY <1>9, <1>12
  <2>2. FrameOK(Frames, 2)
    <3>1. Needs(now) \ now.owned = {}
      BY <1>3, <1>11
    <3>2. 2 > 1 /\ 2 - 1 = 1
      OBVIOUS
    <3> QED
      BY <1>3, <1>9, <1>11, <1>12, <3>1, <3>2 DEF FrameOK
  <2>3. Solo(heap, Frames[2])
    BY <1>11, <1>12 DEF Solo
  <2> QED
    BY <1>12, <2>1, <2>2, <2>3 DEF FramesOK
<1>14. ASSUME NEW c \in Cell
       PROVE  Roots(c) = start.outside[c] + Occurrences(start.locals, c)
  <2>1. Cardinality(PlacesInFrames(Frames, c)) = Count(s.locals, used, c)
    <3>1. PlacesInFrames(Frames, c) = {2} \X PlacesIn(now, c)
      <4>1. PlacesIn(f, c) = {}
        BY <1>9, FS_EmptySet DEF InFrame
      <4>2. PlacesInFrames(Frames, c) = ({1} \X PlacesIn(f, c)) \cup ({2} \X PlacesIn(now, c))
        BY <1>12 DEF PlacesInFrames
      <4>3. {1} \X PlacesIn(f, c) = {}
        BY <4>1
      <4> QED
        BY <4>2, <4>3
    <3>2. /\ IsFiniteSet(PlacesIn(now, c))
          /\ InFrame(now, c) = Count(now.locals, now.owned, c)
                               + Count(now.reuse, DOMAIN now.reuse, c)
      <4>1. IsFiniteSet(now.owned) /\ IsFiniteSet(DOMAIN now.reuse)
        BY <1>11, EnvFinite
      <4> QED
        BY <1>11, <4>1, EnvPlaces
    <3>3. Count(now.reuse, DOMAIN now.reuse, c) = 0
      <4>1. DOMAIN now.reuse = {}
        BY <1>3
      <4> QED
        BY <4>1, FS_EmptySet, CountType
    <3>4. Cardinality({2} \X PlacesIn(now, c)) = InFrame(now, c)
      BY <3>2, PairWith DEF InFrame
    <3>5. Count(s.locals, used, c) \in Nat
      BY <1>6, CountType
    <3> QED
      BY <1>3, <3>1, <3>2, <3>3, <3>4, <3>5
  <2>2. Occurrences(s.locals, c) = Count(s.locals, used, c) + Count(s.locals, rest, c)
    <3>1. used \cap rest = {} /\ used \cup rest = DOMAIN s.locals
      BY <1>2 DEF rest
    <3>2. Count(s.locals, used \cup rest, c) = Count(s.locals, used, c) + Count(s.locals, rest, c)
      BY <1>6, <3>1, CountSplit
    <3> QED
      BY <3>1, <3>2 DEF Occurrences, Count
  <2>3. Count(s.locals, used, c) \in Nat /\ Count(s.locals, rest, c) \in Nat
    BY <1>6, CountType
  <2>4. lost[c] = 0 /\ s.outside[c] \in Nat /\ start = s
    BY <1>2, <1>5
  <2>5. Roots(c) = s.outside[c] + Count(s.locals, used, c) + Count(s.locals, rest, c) + 0
    BY <1>7, <2>1, <2>4 DEF Roots
  <2> QED
    BY <2>2, <2>3, <2>4, <2>5
<1> QED
  BY <1>2, <1>3, <1>10, <1>13, <1>14

(* The invariant holds when main starts.                                     *)
LEMMA InitInv ==
    ASSUME Init
    PROVE  IInv /\ ~worn
<1>1. /\ ShapeOK /\ FramesOK /\ now.kind = "run" /\ start \in Starts /\ heap = start.heap
      /\ \A c \in Cell : Roots(c) = start.outside[c] + Occurrences(start.locals, c)
  BY InitFrames
<1>2. /\ heap \in [Cell -> CellType]
      /\ \A c \in Cell :
           /\ heap[c].kind = "free" => heap[c] = FreeCell
           /\ heap[c].kind # "free" => heap[c].rc # 0
           /\ heap[c].kind = "clo" => /\ heap[c].name \in DOMAIN Defs
                                      /\ Len(heap[c].args) < Arity(heap[c].name)
           /\ heap[c].kind = "ref" => Len(heap[c].args) = 1
  BY <1>1, StartAssumption
<1>3. \A c \in Cell : heap[c].kind = "clo" =>
         Len(heap[c].args) <= Arity(heap[c].name) /\ Len(heap[c].args) # Arity(heap[c].name)
  <2> SUFFICES ASSUME NEW c \in Cell, heap[c].kind = "clo"
               PROVE  /\ Len(heap[c].args) <= Arity(heap[c].name)
                      /\ Len(heap[c].args) # Arity(heap[c].name)
    OBVIOUS
  <2>1. Len(heap[c].args) \in Nat
    BY <1>2, CellFields
  <2>2. Arity(heap[c].name) \in Nat /\ Len(heap[c].args) < Arity(heap[c].name)
    BY <1>2, ProgramAssumption DEF Arity
  <2> QED
    BY <2>1, <2>2
<1>4. HeapOK(heap)
  BY <1>2, <1>3 DEF HeapOK, CellOK, FreeCell
<1>5. FullOK /\ StoreOK
  BY <1>1, <1>3 DEF FullOK, StoreOK, IsFull
<1>6. Exact
  BY <1>1, StartPlaces DEF Exact
<1>7. Intact
  BY <1>1 DEF Intact
<1>8. ~worn
  BY DEF Init
<1> QED
  BY <1>1, <1>4, <1>5, <1>6, <1>7, <1>8 DEF IInv

\* As long as no closure was applied whose counter was at its maximum.
Inv == ~worn => IInv
(* Once such a closure was applied, it was.                                   *)
LEMMA WornStays ==
    ASSUME Next, ~worn'
    PROVE  ~worn
<1>1. CASE AApp
  BY <1>1 DEF AApp
<1>2. CASE AExtPrim \/ AConCase
  BY <1>2 DEF AExtPrim, AConCase
<1>3. CASE AV \/ AAppName \/ AUnderApp \/ ALet \/ ACon \/ ArrayStore
  BY <1>3 DEF AV, AAppName, AUnderApp, ALet, ACon, ArrayStore, Pure
<1>4. CASE DropReference \/ LetBody \/ TrampolineLoop
  BY <1>4 DEF DropReference, LetBody, TrampolineLoop, Pure
<1>5. CASE Done
  BY <1>5 DEF Done, vars
<1> QED
  BY <1>1, <1>2, <1>3, <1>4, <1>5 DEF Next

(* A step that changes nothing.                                              *)
LEMMA StutterStep ==
    ASSUME IInv, UNCHANGED vars
    PROVE  IInv'
<1>1. /\ heap' = heap /\ now' = now /\ stack' = stack /\ drops' = drops /\ start' = start
      /\ lost' = lost
  BY DEF vars
<1>2. Frames' = Frames
  BY <1>1 DEF Frames
<1>3. ShapeOK' /\ HeapOK(heap)'
  BY <1>1 DEF IInv, ShapeOK
<1>4. FramesOK'
  BY <1>1, <1>2 DEF IInv, FramesOK
<1>5. StoreOK' /\ FullOK'
  BY <1>1, <1>2 DEF IInv, StoreOK, FullOK
<1>6. Exact' /\ Intact'
  BY <1>1, <1>2 DEF IInv, Exact, Roots, Intact
<1> QED
  BY <1>3, <1>4, <1>5, <1>6 DEF IInv

(* Every step of the emitted code keeps the invariant.                        *)
LEMMA Invariance == Spec => []Inv
<1>1. Init => Inv
  BY InitInv DEF Inv
<1>2. Inv /\ [Next]_vars => Inv'
  <2> SUFFICES ASSUME Inv, [Next]_vars, ~worn'
               PROVE  IInv'
    BY DEF Inv
  <2>1. CASE Next
    <3>1. IInv
      BY <2>1, WornStays DEF Inv
    <3>2. CASE AV
      BY <3>1, <3>2, AVStep
    <3>3. CASE AAppName
      BY <3>1, <3>3, AAppNameStep
    <3>4. CASE AUnderApp
      BY <3>1, <3>4, AUnderAppStep
    <3>5. CASE AApp
      BY <3>1, <3>5, AAppStep
    <3>6. CASE ALet
      BY <3>1, <3>6, ALetStep
    <3>7. CASE ACon
      BY <3>1, <3>7, AConStep
    <3>8. CASE AExtPrim
      BY <3>1, <3>8, AExtPrimStep
    <3>9. CASE ArrayStore
      BY <3>1, <3>9, ArrayStoreStep
    <3>10. CASE AConCase
      BY <3>1, <3>10, AConCaseStep
    <3>11. CASE DropReference
      BY <3>1, <3>11, DropReferenceStep
    <3>12. CASE LetBody
      BY <3>1, <3>12, LetBodyStep
    <3>13. CASE TrampolineLoop
      BY <3>1, <3>13, TrampolineLoopStep
    <3>14. CASE Done
      BY <3>1, <3>14, StutterStep DEF Done
    <3> QED
      BY <2>1, <3>2, <3>3, <3>4, <3>5, <3>6, <3>7, <3>8, <3>9, <3>10, <3>11, <3>12, <3>13, <3>14
         DEF Next
  <2>2. CASE UNCHANGED vars
    <3>1. IInv
      BY <2>2 DEF Inv, vars
    <3> QED
      BY <2>2, <3>1, StutterStep
  <2> QED
    BY <2>1, <2>2
<1> QED
  BY <1>1, <1>2, PTL DEF Spec

(* Whatever the program is, no count is lower or, but for the references that *)
(* are let go of, higher than the references there are: nothing that is still *)
(* referred to is freed or built over.                                        *)
THEOREM CountsAreExact == Spec => []ExactCount
<1>1. Inv => ExactCount
  <2> SUFFICES ASSUME IInv
               PROVE  /\ TypeOK
                      /\ \A c \in Cell : heap[c].rc # RcMax => heap[c].rc = Holders(c) + lost[c]
    BY DEF Inv, ExactCount
  <2>1. TypeOK
    <3>1. heap \in [Cell -> CellType] /\ \A c \in Cell : heap[c].rc = 0 <=> heap[c].kind = "free"
      BY DEF IInv, HeapOK, CellOK
    <3>2. now.kind = "run" => /\ now.owned \subseteq DOMAIN now.locals
                              /\ \A x \in DOMAIN now.locals : now.locals[x] \in Value
                              /\ DOMAIN now.reuse \subseteq UsedConstructors(now.term)
      BY NowEnv DEF EnvOK
    <3> QED
      BY <3>1, <3>2 DEF IInv, ShapeOK, TypeOK
  <2>2. ASSUME NEW c \in Cell, heap[c].rc # RcMax
        PROVE  heap[c].rc = Holders(c) + lost[c]
    <3>1. heap[c].rc = Roots(c) + InHeap(heap, c)
      BY <2>2 DEF IInv, Exact
    <3>2. /\ start.outside[c] \in Nat /\ Occurrences(drops, c) \in Nat /\ lost[c] \in Nat
          /\ IsFiniteSet(PlacesInFrames(Frames, c))
      BY RootsSum
    <3>3. Cardinality(PlacesInFrames(Frames, c)) \in Nat
      BY <3>2, FS_CardinalityType
    <3>4. InHeap(heap, c) \in Nat
      BY HeapPlaces DEF IInv, HeapOK
    <3>5. PICK a \in Nat, p \in Nat, o \in Nat, l \in Nat, i \in Nat :
             /\ a = start.outside[c] /\ p = Cardinality(PlacesInFrames(Frames, c))
             /\ o = Occurrences(drops, c) /\ l = lost[c] /\ i = InHeap(heap, c)
      BY <3>2, <3>3, <3>4
    <3>6. Roots(c) = a + p + o + l /\ Holders(c) = a + p + i + o
      BY <3>5 DEF Roots, Holders, InHeap
    <3>7. a + p + o + l + i = a + p + i + o + l
      OBVIOUS
    <3> QED
      BY <3>1, <3>5, <3>6, <3>7
  <2> QED
    BY <2>1, <2>2
<1> QED
  BY <1>1, Invariance, PTL

(* Whatever the program is, what it builds in place was its own: the data     *)
(* that others hold too is as main found it.                                  *)
THEOREM OthersSeeNothing == Spec => []SharedIntact
<1>1. Inv => SharedIntact
  BY DEF Inv, IInv, Intact, SharedIntact
<1> QED
  BY <1>1, Invariance, PTL
=============================================================================
