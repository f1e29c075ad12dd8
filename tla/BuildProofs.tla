------------------------------ MODULE BuildProofs ------------------------------
(***************************************************************************)
(* What ModTree guarantees for any import graph, any texts, and however    *)
(* many edits, builds and crashes there are; and that the order which      *)
(* ModTree assumes is the one BuildOrder makes, for any project.           *)
(***************************************************************************)
EXTENDS ModTree, BuildOrder, FiniteSetTheorems, TLAPS

-----------------------------------------------------------------------------
(***************************************************************************)
(* Import graphs                                                           *)
(***************************************************************************)

Graph == [Module -> SUBSET Module]

\* What is reached is the least closed set.
LEMMA Reached ==
    ASSUME NEW deps \in Graph, NEW S \in SUBSET Module
    PROVE  /\ S \subseteq ReachedFrom(deps, S)
           /\ ReachedFrom(deps, S) \subseteq Module
           /\ Closed(deps, ReachedFrom(deps, S))
           /\ \A T \in SUBSET Module :
                S \subseteq T /\ Closed(deps, T) => ReachedFrom(deps, S) \subseteq T
<1>1. Closed(deps, ReachedFrom(deps, S))
  <2> SUFFICES ASSUME NEW m \in ReachedFrom(deps, S), NEW i \in deps[m],
                      NEW T \in SUBSET Module, S \subseteq T, Closed(deps, T)
               PROVE  i \in Module /\ i \in T
    BY DEF Closed, ReachedFrom, Graph
  <2> QED
    BY DEF Closed, ReachedFrom, Graph
<1> QED
    BY <1>1 DEF ReachedFrom

\* From several modules it is what is reached from each.
LEMMA ReachedUnion ==
    ASSUME NEW deps \in Graph, NEW S \in SUBSET Module
    PROVE  ReachedFrom(deps, S) = UNION {ReachedFrom(deps, {m}) : m \in S}
<1> DEFINE R(m) == ReachedFrom(deps, {m})
           U == UNION {R(m) : m \in S}
<1>1. \A m \in S : m \in R(m) /\ R(m) \subseteq Module /\ Closed(deps, R(m))
    BY Reached
<1>2. ASSUME NEW m \in S PROVE R(m) \subseteq ReachedFrom(deps, S)
  <2>1. {m} \subseteq ReachedFrom(deps, S)
    BY Reached
  <2> QED
    BY <2>1, Reached
<1>3. U \subseteq Module /\ S \subseteq U /\ Closed(deps, U)
    BY <1>1 DEF Closed
<1>4. ReachedFrom(deps, S) \subseteq U
    BY <1>3, Reached
<1> QED
    BY <1>2, <1>4

\* From one it is the module and what is reached from its successors.
LEMMA ReachedStep ==
    ASSUME NEW deps \in Graph, NEW m \in Module
    PROVE  ReachedFrom(deps, {m}) = {m} \cup UNION {ReachedFrom(deps, {i}) : i \in deps[m]}
<1> DEFINE R(i) == ReachedFrom(deps, {i})
           U == {m} \cup UNION {R(i) : i \in deps[m]}
<1>0. deps[m] \subseteq Module
    BY DEF Graph
<1>1. \A i \in deps[m] : i \in R(i) /\ R(i) \subseteq Module /\ Closed(deps, R(i))
    BY <1>0, Reached
<1>2. m \in R(m) /\ R(m) \subseteq Module /\ Closed(deps, R(m))
    BY Reached
<1>3. ASSUME NEW i \in deps[m] PROVE R(i) \subseteq R(m)
  <2>1. {i} \subseteq R(m)
    BY <1>2 DEF Closed
  <2> QED
    BY <1>0, <1>2, <2>1, Reached
<1>4. U \subseteq Module /\ {m} \subseteq U /\ Closed(deps, U)
    BY <1>1 DEF Closed
<1>5. R(m) \subseteq U
  <2>1. {m} \in SUBSET Module /\ U \in SUBSET Module
    BY <1>4
  <2> HIDE DEF U
  <2> QED
    BY <1>4, <2>1, Reached
<1> QED
    BY <1>2, <1>3, <1>5

\* The imports are a graph, and so are the public ones.
LEMMA Graphs ==
    /\ Sources \in Graph /\ PublicOnly \in Graph
    /\ \A m \in Module : /\ Sources[m] = Deps(m) /\ Deps(m) \subseteq Module
                         /\ PublicOnly[m] = Public(m) /\ Public(m) \subseteq Deps(m)
<1>1. \A m \in Module : Deps(m) \subseteq Module
    BY TreeAssumption DEF Deps, ToSet
<1> QED
    BY <1>1 DEF Graph, Sources, PublicOnly, Public

\* What an import brings.
LEMMA BringsStep ==
    ASSUME NEW m \in Module
    PROVE  /\ Brings[m] = {m} \cup UNION {Brings[i] : i \in Public(m)}
           /\ m \in Brings[m] /\ Brings[m] \subseteq Module
<1>1. \A i \in Module : Brings[i] = ReachedFrom(PublicOnly, {i})
    BY DEF Brings
<1>2. Brings[m] = {m} \cup UNION {ReachedFrom(PublicOnly, {i}) : i \in Public(m)}
    BY <1>1, Graphs, ReachedStep
<1>3. Public(m) \subseteq Module
    BY Graphs
<1>4. Brings[m] \subseteq Module
    BY DEF Brings, ReachedFrom
<1> QED
    BY <1>1, <1>2, <1>3, <1>4

\* A set with the imports of its members has all that they bring.
LEMMA BringsClosed ==
    ASSUME NEW S \in SUBSET Module, Closed(Sources, S), NEW m \in S
    PROVE  Brings[m] \subseteq S
<1>1. Closed(PublicOnly, S)
    BY Graphs DEF Closed
<1> QED
    BY <1>1, Graphs, Reached DEF Brings

-----------------------------------------------------------------------------
(***************************************************************************)
(* The invariant                                                           *)
(***************************************************************************)

Busy     == {"read", "header", "compile", "write"}
HasRead  == {"header", "compile", "write"}
Sequence == Order(goal.files)

\* The modules that this build has dealt with.
Built == {Sequence[i] : i \in 1 .. (Len(Sequence) - Len(todo))}

\* A TTC file has the hash of its text's interface and of its public imports,
\* and all hashes are hashes.
IsTTC(m, f) ==
    /\ f = [time |-> f.time, torn |-> f.torn, iface |-> f.iface, imps |-> f.imps,
            req |-> f.req, from |-> f.from, raced |-> f.raced, saw |-> f.saw]
    /\ f.time \in Nat \ {0} /\ f.torn \in {"no", "head", "tail"}
    /\ f.req \in Nat /\ f.from \in Text /\ f.raced \in BOOLEAN
    /\ f.imps = [i \in Deps(m) |-> f.imps[i]]
    /\ f.iface = IfaceHash(m, f.from, f.imps)
    /\ \A i \in Deps(m) : f.imps[i] # NoHash

Typed ==
    /\ src \in [Module -> [text : Text, time : Nat]]
    /\ ttc = [m \in Module |-> ttc[m]]
    /\ \A m \in Module : ttc[m] = NoTTC \/ IsTTC(m, ttc[m])
    /\ pc \in Busy \cup {"idle", "check"}
    /\ goal \in [files : Seq(Module), main : Module \cup {"none"}, req : Nat]
    /\ todo \in Seq(Module)
    /\ result \in {"none", "ok", "errors"}
    /\ touched \subseteq Module
    /\ clock \in Nat \ {0}

\* No file is newer than the clock.
Clocked == \A m \in Module : src[m].time \in 1 .. clock /\ ttc[m].time <= clock

\* What is to be visited is the end of the order.
InOrder ==
    /\ pc # "idle" \/ result # "none" => goal \in Goal
    /\ pc # "idle" => /\ result = "none"
                      /\ Len(todo) <= Len(Sequence)
                      /\ \A i \in 1 .. Len(todo) :
                           todo[i] = Sequence[Len(Sequence) - Len(todo) + i]
    /\ pc \in Busy => todo # <<>>

\* A TTC that is newer than its source was compiled from it.
Fresh == \A m \in Module :
    src[m].time < ttc[m].time => ttc[m].from = src[m].text \/ ttc[m].raced

\* What was read is the source as it is or was edited since.
Reading ==
    /\ pc \in HasRead =>
         /\ read = [text |-> read.text, raced |-> read.raced]
         /\ read.text \in Text /\ read.raced \in BOOLEAN
         /\ read.text = src[Head(todo)].text \/ read.raced
         /\ read.raced => Head(todo) \in touched
    /\ pc \notin HasRead => read = <<>>

\* Where the module is not compiled in the end, its times still say that it
\* should be.
Asked == pc \in {"read", "header"} => NeedsBuildingTime(Head(todo))

\* The hashes that were read are the hashes of the imports as they are, and
\* there was a reason to go on.
Hashing ==
    /\ pc \in {"compile", "write"} => hashes = [i \in Deps(Head(todo)) |-> ReadHash(i)]
    /\ pc = "write" => Checked(Head(todo)) /\ ~Whole(Head(todo))
    /\ pc = "compile" => \/ IsTTCOutdated(Head(todo), {src[Head(todo)].time})
                         \/ hashes # ReadImportHashes(Head(todo))

\* A TTC that is newer than that of an import was compiled against it.
Timely == \A m \in Module : HasHeader(m) =>
    \A i \in Deps(m) :
        Exists(i) /\ ttc[i].time < ttc[m].time => ttc[m].imps[i] = ReadHash(i)

Agrees(m) == \A i \in Deps(m) : /\ HasHeader(i)
                                /\ ttc[m].imps[i] = ReadHash(i)
                                /\ ttc[m].saw[i] = Exports(i)

\* A module that was dealt with is as the properties want it.
Settled(m) ==
    /\ Exists(m)
    /\ m \notin touched => ttc[m].from = src[m].text \/ ttc[m].raced
    /\ HasHeader(m) => Agrees(m)
    /\ m = goal.main => \/ ~HasHeader(m) \/ ttc[m].req >= goal.req
                        \/ Requirement(ttc[m].from) < goal.req
                        \/ \E i \in Deps(m) : ttc[i].time >= ttc[m].time

Progress ==
    /\ pc # "idle" => \A m \in Built : Settled(m)
    /\ result = "ok" => \A m \in Loaded : Settled(m) /\ (goal.main # "none" => Whole(m))

(* A record of hashes <<i, h, e>>: i had the hash h when it offered e.  It  *)
(* has what each hash is made of, and so hashes and offers tell each other: *)
(* no induction over the import graph is needed.                            *)
Offers(i, e) == \E f : e = {<<n, f[n]>> : n \in Brings[i]}

MadeOf(R, i, h, e) ==
    /\ i \in Module /\ Offers(i, e)
    /\ \E x, hs, es : /\ h = <<x, [j \in Public(i) |-> hs[j]]>>
                      /\ e = {<<i, x>>} \cup UNION {es[j] : j \in Public(i)}
                      /\ \A j \in Public(i) : <<j, hs[j], es[j]>> \in R

IsRecord(R) ==
    /\ \A i, h, e : <<i, h, e>> \in R => MadeOf(R, i, h, e)
    /\ \A i, h, d, e : <<i, h, d>> \in R /\ <<i, h, e>> \in R => d = e
    /\ \A i, h, g, e : <<i, h, e>> \in R /\ <<i, g, e>> \in R => h = g

\* A record that has the hashes and offers in all TTC files.
Recorded(R) ==
    \A m \in Module : Exists(m) =>
        \A i \in Deps(m) : <<i, ttc[m].imps[i], ttc[m].saw[i]>> \in R

Remembered == \E R : IsRecord(R) /\ Recorded(R)

\* The inductive invariant
IInv == /\ Typed /\ Clocked /\ InOrder /\ Fresh /\ Reading /\ Asked /\ Hashing
        /\ Timely /\ Progress /\ Remembered

-----------------------------------------------------------------------------
(***************************************************************************)
(* The order                                                               *)
(***************************************************************************)

\* What is loaded is what is reached from the files of the goal.
LEMMA LoadedIsReached ==
    ASSUME goal.files \in Seq(Module)
    PROVE  Loaded = ReachedFrom(Sources, ToSet(goal.files)) /\ Loaded \subseteq Module
<1>1. ToSet(goal.files) \in SUBSET Module
    BY DEF ToSet
<1>2. ReachedFrom(Sources, ToSet(goal.files))
        = UNION {ReachedFrom(Sources, {m}) : m \in ToSet(goal.files)}
    BY <1>1, Graphs, ReachedUnion
<1>3. \A f \in ToSet(goal.files) : Needs[f] = ReachedFrom(Sources, {f})
    BY <1>1 DEF Needs
<1>4. Loaded = ReachedFrom(Sources, ToSet(goal.files))
    BY <1>2, <1>3 DEF Loaded
<1> QED
    BY <1>4 DEF ReachedFrom

\* What a goal needs.
LEMMA SequenceFacts ==
    ASSUME goal \in Goal
    PROVE  /\ Sequence \in Seq(Module)
           /\ Loaded = {Sequence[i] : i \in 1 .. Len(Sequence)}
           /\ \A i, j \in 1 .. Len(Sequence) : Sequence[i] = Sequence[j] => i = j
           /\ \A i \in 1 .. Len(Sequence) :
                Deps(Sequence[i]) \subseteq {Sequence[j] : j \in 1 .. (i - 1)}
           /\ Loaded \subseteq Module
           /\ goal.main # "none" => goal.main \in Loaded
<1>1. /\ Sequence \in Seq(Module)
      /\ IsBuildOrder(Sources, ToSet(goal.files), Sequence)
      /\ goal.files \in Seq(Module)
      /\ goal.main # "none" => goal.main \in ToSet(goal.files)
    BY OrderAssumption, GoalAssumption DEF Sequence
<1>2. DOMAIN Sequence = 1 .. Len(Sequence)
    BY <1>1
<1>3. ToSet(Sequence) = Loaded /\ Loaded \subseteq Module
    BY <1>1, LoadedIsReached DEF IsBuildOrder
<1>4. \A i \in 1 .. Len(Sequence) :
         Deps(Sequence[i]) \subseteq {Sequence[j] : j \in 1 .. (i - 1)}
    BY <1>1, <1>2, Graphs DEF IsBuildOrder, Sorted
<1>5. \A i, j \in 1 .. Len(Sequence) : Sequence[i] = Sequence[j] => i = j
    BY <1>1, <1>2 DEF IsBuildOrder, IsInjective
<1>6. ToSet(goal.files) \subseteq Loaded
  <2>1. ToSet(goal.files) \in SUBSET Module
    BY <1>1 DEF ToSet
  <2> QED
    BY <1>1, <2>1, LoadedIsReached, Graphs, Reached
<1> QED
    BY <1>1, <1>2, <1>3, <1>4, <1>5, <1>6 DEF ToSet

\* What has been built, and what is built now.
LEMMA BuiltFacts ==
    ASSUME Typed, InOrder, pc # "idle"
    PROVE  /\ Built \subseteq Loaded /\ Loaded \subseteq Module
           /\ Closed(Sources, Built)
           /\ todo = <<>> => Built = Loaded
           /\ todo # <<>> => /\ Head(todo) \in Loaded \ Built
                             /\ Deps(Head(todo)) \subseteq Built
<1> DEFINE n == Len(Sequence)
           k == Len(todo)
<1>1. /\ Sequence \in Seq(Module)
      /\ Loaded = {Sequence[i] : i \in 1 .. n}
      /\ \A i, j \in 1 .. n : Sequence[i] = Sequence[j] => i = j
      /\ \A i \in 1 .. n : Deps(Sequence[i]) \subseteq {Sequence[j] : j \in 1 .. (i - 1)}
      /\ Loaded \subseteq Module
    BY SequenceFacts DEF InOrder
<1>2. n \in Nat /\ k \in Nat /\ k <= n
    BY <1>1 DEF Typed, InOrder
<1>3. Built = {Sequence[i] : i \in 1 .. (n - k)}
    BY DEF Built
<1>4. todo # <<>> => k >= 1 /\ Head(todo) = Sequence[n - k + 1]
  <2>1. todo \in Seq(Module)
    BY DEF Typed
  <2>2. \A i \in 1 .. k : todo[i] = Sequence[n - k + i]
    BY DEF InOrder
  <2>3. todo # <<>> => k >= 1 /\ Head(todo) = todo[1]
    BY <2>1
  <2> QED
    BY <1>2, <2>2, <2>3
<1>5. k = 0 => n - k = n
    BY <1>2
<1>6. todo = <<>> => k = 0
    OBVIOUS
<1> HIDE DEF n, k
<1>7. Closed(Sources, Built)
  <2>0. \A i \in 1 .. (n - k) : i \in 1 .. n
    BY <1>2
  <2>1. \A m \in Built : Sources[m] = Deps(m)
    BY <1>1, <1>3, <2>0, Graphs
  <2> SUFFICES ASSUME NEW i \in 1 .. (n - k), NEW d \in Deps(Sequence[i])
               PROVE  d \in Built
    BY <1>3, <2>1 DEF Closed
  <2>2. PICK j \in 1 .. (i - 1) : d = Sequence[j]
    <3>1. i \in 1 .. n
      BY <2>0
    <3>2. Deps(Sequence[i]) \subseteq {Sequence[j] : j \in 1 .. (i - 1)}
      BY <1>1, <3>1
    <3> QED
      BY <3>2
  <2> QED
    BY <1>2, <1>3, <2>2
<1>8. ASSUME todo # <<>>
      PROVE  Head(todo) \in Loaded \ Built /\ Deps(Head(todo)) \subseteq Built
  <2>1. n - k + 1 \in 1 .. n /\ (n - k + 1) - 1 = n - k
    BY <1>2, <1>4, <1>8
  <2>2. Head(todo) = Sequence[n - k + 1]
    BY <1>4, <1>8
  <2>3. Head(todo) \in Loaded /\ Deps(Head(todo)) \subseteq Built
    BY <1>1, <1>3, <2>1, <2>2
  <2>4. \A i \in 1 .. (n - k) : i \in 1 .. n /\ i # n - k + 1
    BY <1>2, <2>1
  <2> QED
    BY <1>1, <1>3, <2>1, <2>2, <2>3, <2>4
<1>9. Built \subseteq Loaded
    BY <1>1, <1>2, <1>3
<1> QED
    BY <1>1, <1>3, <1>5, <1>6, <1>7, <1>8, <1>9

\* The next module.
LEMMA Advance ==
    ASSUME Typed, InOrder, pc # "idle", todo # <<>>,
           todo' = Tail(todo), goal' = goal
    PROVE  /\ Built' = Built \cup {Head(todo)}
           /\ todo' \in Seq(Module)
           /\ Len(todo') <= Len(Sequence)
           /\ \A i \in 1 .. Len(todo') :
                todo'[i] = Sequence[Len(Sequence) - Len(todo') + i]
<1> DEFINE n == Len(Sequence)
           k == Len(todo)
<1>1. Sequence \in Seq(Module) /\ Sequence' = Sequence
    BY SequenceFacts DEF InOrder, Sequence
<1>2. n \in Nat /\ k \in Nat /\ k <= n /\ k >= 1
    BY <1>1 DEF Typed, InOrder
<1>3. todo' \in Seq(Module) /\ Len(todo') = k - 1
    BY DEF Typed
<1>4. Head(todo) = Sequence[n - k + 1]
  <2>1. todo \in Seq(Module)
    BY DEF Typed
  <2>2. \A i \in 1 .. k : todo[i] = Sequence[n - k + i]
    BY DEF InOrder
  <2>3. Head(todo) = todo[1]
    BY <2>1
  <2> QED
    BY <1>2, <2>2, <2>3
<1>5. \A i \in 1 .. Len(todo') : todo'[i] = Sequence[n - Len(todo') + i]
  <2> TAKE i \in 1 .. Len(todo')
  <2>1. todo'[i] = todo[i + 1] /\ i + 1 \in 1 .. k
    BY <1>2, <1>3 DEF Typed
  <2>2. todo[i + 1] = Sequence[n - k + (i + 1)]
    BY <2>1 DEF InOrder
  <2>3. n - k + (i + 1) = n - Len(todo') + i
    BY <1>2, <1>3
  <2> QED
    BY <2>1, <2>2, <2>3
<1>6. Built' = {Sequence[i] : i \in 1 .. (n - k + 1)}
  <2>1. n - Len(todo') = n - k + 1
    BY <1>2, <1>3
  <2> QED
    BY <1>1, <2>1 DEF Built
<1>7. Built = {Sequence[i] : i \in 1 .. (n - k)}
    BY DEF Built
<1> HIDE DEF n, k
<1>8. 1 .. (n - k + 1) = (1 .. (n - k)) \cup {n - k + 1}
    BY <1>2
<1> QED
    BY <1>2, <1>3, <1>4, <1>5, <1>6, <1>7, <1>8 DEF n

-----------------------------------------------------------------------------
(***************************************************************************)
(* What the steps do to the files                                          *)
(***************************************************************************)

Torns == {"no", "head", "tail"}

\* What the form of a file tells of it.
LEMMA FileFacts ==
    ASSUME Typed, NEW m \in Module
    PROVE  /\ src[m].text \in Text /\ src[m].time \in Nat
           /\ ttc[m].time \in Nat /\ ttc[m].torn \in Torns \cup {"gone"}
           /\ ~Exists(m) => ttc[m] = NoTTC /\ ttc[m].time = 0
           /\ Exists(m) => IsTTC(m, ttc[m]) /\ ttc[m].time >= 1
           /\ HasHeader(m) <=> ttc[m].torn \in {"no", "tail"}
           /\ HasHeader(m) => Exists(m)
           /\ Whole(m) => HasHeader(m)
<1>1. src[m].text \in Text /\ src[m].time \in Nat
    BY DEF Typed
<1>2. ttc[m] = NoTTC \/ IsTTC(m, ttc[m])
    BY DEF Typed
<1>3. CASE ttc[m] = NoTTC
    BY <1>1, <1>3 DEF NoTTC, Exists, HasHeader, Whole, Torns
<1>4. CASE IsTTC(m, ttc[m])
  <2>1. ttc[m].time \in Nat \ {0} /\ ttc[m].torn \in Torns
    BY <1>4 DEF IsTTC, Torns
  <2> QED
    BY <1>1, <1>4, <2>1 DEF Exists, HasHeader, Whole, Torns
<1> QED
    BY <1>2, <1>3, <1>4

\* A hash is told from none.
LEMMA HashIsReal ==
    ASSUME Typed, NEW m \in Module, HasHeader(m)
    PROVE  ReadHash(m) = ttc[m].iface /\ ReadHash(m) # NoHash
<1>1. ttc[m].iface = <<ttc[m].from.iface, [i \in Public(m) |-> ttc[m].imps[i]]>>
    BY FileFacts DEF IsTTC, IfaceHash
<1>2. Len(ttc[m].iface) = 2 /\ Len(NoHash) = 0
    BY <1>1 DEF NoHash
<1> QED
    BY <1>2 DEF ReadHash

\* What is written is a TTC file.
LEMMA WrittenIsTTC ==
    ASSUME Typed, InOrder, Reading, Hashing, pc \in {"compile", "write"},
           Checked(Head(todo)), NEW torn \in Torns
    PROVE  IsTTC(Head(todo), TTCFile(Head(todo), torn))
<1> DEFINE m == Head(todo)
           f == TTCFile(m, torn)
<1>1. m \in Module /\ Deps(m) \subseteq Module
    BY Graphs DEF Typed, InOrder, Busy
<1>2. hashes = [i \in Deps(m) |-> ReadHash(i)]
    BY DEF Hashing
<1>3. ASSUME NEW i \in Deps(m) PROVE hashes[i] # NoHash
  <2>1. HasHeader(i)
    BY <1>1, BringsStep, FileFacts DEF Checked
  <2> QED
    BY <1>1, <1>2, <2>1, HashIsReal
<1>4. /\ f.time = clock /\ f.torn = torn /\ f.iface = IfaceHash(m, read.text, hashes)
      /\ f.imps = hashes /\ f.req = Requirement(read.text)
      /\ f.from = read.text /\ f.raced = read.raced
    BY DEF TTCFile
<1>5. f = [time |-> f.time, torn |-> f.torn, iface |-> f.iface, imps |-> f.imps,
           req |-> f.req, from |-> f.from, raced |-> f.raced, saw |-> f.saw]
    BY DEF TTCFile
<1>6. clock \in Nat \ {0} /\ goal.req \in Nat
    BY DEF Typed
<1>7. read.text \in Text /\ read.raced \in BOOLEAN
    BY DEF Reading, HasRead
<1>8. hashes = [i \in Deps(m) |-> hashes[i]]
    BY <1>2
<1>9. Requirement(read.text) \in Nat
    BY <1>6, <1>7 DEF Requirement, Text
<1> HIDE DEF f, m
<1>10. IsTTC(m, f)
    BY <1>3, <1>4, <1>5, <1>6, <1>7, <1>8, <1>9 DEF IsTTC, Torns
<1> QED
    BY <1>10 DEF f, m

-----------------------------------------------------------------------------
(* The steps, as far as the files go. *)

Quiet == UNCHANGED <<src, ttc, clock>>

Writes ==
    /\ pc \in {"compile", "write"} /\ Checked(Head(todo))
    /\ \E torn \in Torns : ttc' = [ttc EXCEPT ![Head(todo)] = TTCFile(Head(todo), torn)]
    /\ UNCHANGED <<src, clock, goal, touched>>

\* A step is one of five kinds for the files.
LEMMA Kinds ==
    ASSUME Hashing, [Next]_vars
    PROVE  Quiet \/ Writes \/ TooWeak \/ Edit \/ Tick
<1>1. ASSUME Compile \/ WriteTTC \/ WriteFails PROVE Writes
    BY <1>1 DEF Compile, WriteTTC, WriteFails, Torn, Torns, Writes, Hashing
<1>2. ASSUME Crash PROVE Quiet \/ Writes
    BY <1>2 DEF Crash, Torn, Torns, Writes, Hashing, Quiet
<1>3. ASSUME Start \/ UpToDate \/ OutOfDate \/ ReadSource \/ ReadHeader
             \/ CompileFails \/ Finish
      PROVE  Quiet
    BY <1>3 DEF Start, UpToDate, OutOfDate, ReadSource, ReadHeader, CompileFails, Finish, Quiet
<1>4. CASE UNCHANGED vars
    BY <1>4 DEF vars, Quiet
<1> QED
    BY <1>1, <1>2, <1>3, <1>4 DEF Next

\* What a file says but for its time.
Alike(m) == /\ ttc'[m].torn = ttc[m].torn /\ ttc'[m].iface = ttc[m].iface
            /\ ttc'[m].imps = ttc[m].imps /\ ttc'[m].req = ttc[m].req
            /\ ttc'[m].from = ttc[m].from /\ ttc'[m].raced = ttc[m].raced
            /\ ttc'[m].saw = ttc[m].saw

\* The order of the times of files is kept.
InStep ==
    \A m, n \in Module :
        /\ src'[m].time < ttc'[n].time <=> src[m].time < ttc[n].time
        /\ ttc'[m].time < ttc'[n].time <=> ttc[m].time < ttc[n].time

\* Numbers of a finite set are numbered in their order.
LEMMA Ranks ==
    ASSUME NEW T \in SUBSET Nat, IsFiniteSet(T),
           NEW t \in T, NEW u \in T
    PROVE  LET Rank(x) == Cardinality({y \in T : y < x}) + 1
           IN  /\ Rank(t) \in 1 .. Cardinality(T)
               /\ t < u => Rank(t) < Rank(u)
               /\ t = u => Rank(t) = Rank(u)
<1> DEFINE B(x) == {y \in T : y < x}
<1>1. \A x : IsFiniteSet(B(x)) /\ Cardinality(B(x)) \in Nat
    BY FS_Subset, FS_CardinalityType
<1>2. Cardinality(T) \in Nat
    BY FS_CardinalityType
<1>3. B(t) \subseteq T /\ t \notin B(t)
    OBVIOUS
<1>4. Cardinality(B(t)) < Cardinality(T)
  <2>1. Cardinality(B(t)) <= Cardinality(T)
        /\ (Cardinality(B(t)) = Cardinality(T) => B(t) = T)
    BY <1>3, FS_Subset
  <2> QED
    BY <1>1, <1>2, <1>3, <2>1
<1>5. ASSUME t < u PROVE Cardinality(B(t)) < Cardinality(B(u))
  <2>1. B(t) \subseteq B(u) /\ t \in B(u) \ B(t)
    <3>1. \A y \in T : y \in Nat /\ t \in Nat /\ u \in Nat
      OBVIOUS
    <3>2. \A y \in T : y < t => y < u
      BY <1>5, <3>1
    <3>3. ~(t < t) /\ B(t) = {y \in T : y < t} /\ B(u) = {y \in T : y < u}
      BY <3>1
    <3> HIDE DEF B
    <3> QED
      BY <1>5, <3>2, <3>3
  <2>2. Cardinality(B(t)) <= Cardinality(B(u))
        /\ (Cardinality(B(t)) = Cardinality(B(u)) => B(t) = B(u))
    BY <1>1, <2>1, FS_Subset
  <2> QED
    BY <1>1, <2>1, <2>2
<1> DEFINE C(x) == Cardinality(B(x))
<1>6. /\ C(t) \in Nat /\ C(u) \in Nat /\ C(t) < Cardinality(T)
      /\ t < u => C(t) < C(u)
    BY <1>1, <1>4, <1>5
<1>7. /\ C(t) + 1 \in 1 .. Cardinality(T)
      /\ t < u => C(t) + 1 < C(u) + 1
      /\ t = u => C(t) + 1 = C(u) + 1
  <2> HIDE DEF C
  <2> QED
    BY <1>2, <1>6
<1> QED
    BY <1>7

\* A finite set has a finite image.
LEMMA FiniteImage ==
    ASSUME NEW S, IsFiniteSet(S), NEW f, DOMAIN f = S, f = [x \in S |-> f[x]]
    PROVE  IsFiniteSet({f[x] : x \in S})
<1>1. f \in Surjection(S, {f[x] : x \in S})
    BY DEF Surjection
<1> QED
    BY <1>1, FS_Surjection

\* When the clock moves on the files are as before, and in the same order.
LEMMA TickFacts ==
    ASSUME Typed, Clocked, Tick
    PROVE  /\ src' \in [Module -> [text : Text, time : Nat]]
           /\ ttc' = [m \in Module |-> ttc'[m]]
           /\ \A m \in Module : /\ ttc'[m] = NoTTC \/ IsTTC(m, ttc'[m])
                                /\ src'[m].text = src[m].text
                                /\ Alike(m)
           /\ InStep
           /\ Clocked' /\ clock' \in Nat \ {0}
<1> DEFINE files   == {m \in Module : Exists(m)}
           times   == {src[m].time : m \in Module} \cup {ttc[m].time : m \in files}
           Rank(t) == Cardinality({u \in times : u < t}) + 1
           top     == Cardinality(times)
<1>1. /\ clock' = top + 1
      /\ src' = [m \in Module |-> [src[m] EXCEPT !.time = Rank(@)]]
      /\ ttc' = [m \in Module |->
                   IF m \in files THEN [ttc[m] EXCEPT !.time = Rank(@)] ELSE NoTTC]
    BY DEF Tick
<1>2. IsFiniteSet(times) /\ times \in SUBSET Nat
  <2>1. IsFiniteSet({src[m].time : m \in Module})
    <3> DEFINE f == [m \in Module |-> src[m].time]
    <3>1. IsFiniteSet({f[m] : m \in Module})
      BY ModuleAssumption, FiniteImage
    <3>2. {f[m] : m \in Module} = {src[m].time : m \in Module}
      OBVIOUS
    <3> QED
      BY <3>1, <3>2
  <2>2. IsFiniteSet(files)
    BY ModuleAssumption, FS_Subset
  <2>3. IsFiniteSet({ttc[m].time : m \in files})
    <3> DEFINE f == [m \in files |-> ttc[m].time]
    <3>1. IsFiniteSet({f[m] : m \in files})
      BY <2>2, FiniteImage
    <3>2. {f[m] : m \in files} = {ttc[m].time : m \in files}
      OBVIOUS
    <3> QED
      BY <3>1, <3>2
  <2>4. times \in SUBSET Nat
    BY FileFacts
  <2> QED
    BY <2>1, <2>3, <2>4, FS_Union
<1>3. \A m \in Module : src[m].time \in times
    OBVIOUS
<1>4. \A m \in files : ttc[m].time \in times
    OBVIOUS
<1>5. \A t \in times : Rank(t) \in 1 .. top
    BY <1>2, Ranks
<1>6. \A t, u \in times : /\ t < u => Rank(t) < Rank(u)
                          /\ t = u => Rank(t) = Rank(u)
    BY <1>2, Ranks
<1>7. top \in Nat
    BY <1>2, FS_CardinalityType
<1> HIDE DEF times, Rank, top
<1>8. \A t, u \in times : Rank(t) < Rank(u) <=> t < u
    BY <1>2, <1>5, <1>6, <1>7
<1>9. \A m \in Module : /\ src'[m] = [text |-> src[m].text, time |-> Rank(src[m].time)]
                        /\ src'[m].time = Rank(src[m].time)
                        /\ src[m].text \in Text
  <2> TAKE m \in Module
  <2>1. src[m] \in [text : Text, time : Nat]
    BY DEF Typed
  <2>2. src'[m] = [src[m] EXCEPT !.time = Rank(@)]
    BY <1>1
  <2> QED
    BY <2>1, <2>2
<1>10. ASSUME NEW m \in Module, ~Exists(m)
       PROVE  ttc'[m] = NoTTC /\ ttc[m] = NoTTC
    BY <1>1, <1>10, FileFacts
<1>11. ASSUME NEW m \in Module, Exists(m)
       PROVE  /\ ttc'[m] = [ttc[m] EXCEPT !.time = Rank(@)]
              /\ ttc'[m].time = Rank(ttc[m].time)
              /\ Alike(m)
              /\ IsTTC(m, ttc'[m])
  <2>1. ttc'[m] = [ttc[m] EXCEPT !.time = Rank(@)]
    BY <1>1, <1>11
  <2>2. IsTTC(m, ttc[m])
    BY <1>11, FileFacts
  <2>3. ttc[m] = [time |-> ttc[m].time, torn |-> ttc[m].torn, iface |-> ttc[m].iface,
                  imps |-> ttc[m].imps, req |-> ttc[m].req, from |-> ttc[m].from,
                  raced |-> ttc[m].raced, saw |-> ttc[m].saw]
    BY <2>2 DEF IsTTC
  <2>4. ttc'[m] = [time |-> Rank(ttc[m].time), torn |-> ttc[m].torn, iface |-> ttc[m].iface,
                   imps |-> ttc[m].imps, req |-> ttc[m].req, from |-> ttc[m].from,
                   raced |-> ttc[m].raced, saw |-> ttc[m].saw]
    BY <2>1, <2>3
  <2>5. ttc'[m].time = Rank(ttc[m].time) /\ Alike(m)
    BY <2>4 DEF Alike
  <2>6. Rank(ttc[m].time) \in Nat \ {0}
    BY <1>4, <1>5, <1>7, <1>11
  <2>7. IsTTC(m, ttc'[m])
    BY <2>2, <2>4, <2>5, <2>6 DEF IsTTC, Alike
  <2> QED
    BY <2>1, <2>5, <2>7
<1>12. \A m \in Module : src'[m].time \in 1 .. top /\ src[m].time \in Nat
  <2> TAKE m \in Module
  <2>1. Rank(src[m].time) \in 1 .. top
    BY <1>3, <1>5
  <2> QED
    BY <1>9, <2>1, FileFacts
<1>13. \A m \in Module : ttc'[m].time <= top /\ ttc'[m].time \in Nat /\ ttc[m].time \in Nat
  <2> TAKE m \in Module
  <2>1. CASE Exists(m)
    <3>1. Rank(ttc[m].time) \in 1 .. top
      BY <1>4, <1>5, <2>1
    <3>2. ttc'[m].time = Rank(ttc[m].time)
      BY <1>11, <2>1
    <3> QED
      BY <1>7, <3>1, <3>2, FileFacts
  <2>2. CASE ~Exists(m)
    <3>1. ttc'[m].time = 0 /\ ttc[m].time = 0
      BY <1>10, <2>2 DEF NoTTC
    <3> QED
      BY <1>7, <3>1
  <2> QED
    BY <2>1, <2>2
<1>14. Clocked' /\ clock' \in Nat \ {0}
    BY <1>1, <1>7, <1>12, <1>13 DEF Clocked
<1>15. ASSUME NEW m \in Module, NEW n \in Module
       PROVE  /\ src'[m].time < ttc'[n].time <=> src[m].time < ttc[n].time
              /\ ttc'[m].time < ttc'[n].time <=> ttc[m].time < ttc[n].time
  <2>1. CASE ~Exists(n)
    <3>1. ttc'[n].time = 0 /\ ttc[n].time = 0
      BY <1>10, <2>1 DEF NoTTC
    <3>2. src'[m].time \in Nat /\ ttc'[m].time \in Nat /\ src[m].time \in Nat /\ ttc[m].time \in Nat
      BY <1>12, <1>13
    <3> QED
      BY <3>1, <3>2
  <2>0. /\ src'[m].time = Rank(src[m].time) /\ src[m].time \in times
        /\ Exists(n) => ttc'[n].time = Rank(ttc[n].time) /\ ttc[n].time \in times
        /\ Exists(m) => ttc'[m].time = Rank(ttc[m].time) /\ ttc[m].time \in times
    BY <1>3, <1>4, <1>9, <1>11
  <2>2. CASE Exists(n) /\ Exists(m)
    BY <1>8, <2>0, <2>2
  <2>3. CASE Exists(n) /\ ~Exists(m)
    <3>1. src'[m].time < ttc'[n].time <=> src[m].time < ttc[n].time
      BY <1>8, <2>0, <2>3
    <3>2. ttc'[m].time = 0 /\ ttc[m].time = 0
      BY <1>10, <2>3 DEF NoTTC
    <3>3. ttc'[n].time \in Nat \ {0} /\ ttc[n].time \in Nat \ {0}
      BY <1>11, <2>3, FileFacts DEF IsTTC
    <3> QED
      BY <3>1, <3>2, <3>3
  <2> QED
    BY <2>1, <2>2, <2>3
<1>16. src' \in [Module -> [text : Text, time : Nat]]
  <2>1. ASSUME NEW m \in Module PROVE src'[m] \in [text : Text, time : Nat]
    <3>1. src'[m].time \in 1 .. top
      BY <1>12
    <3>2. src'[m].time \in Nat
      BY <1>7, <3>1
    <3>3. src'[m] = [text |-> src[m].text, time |-> src'[m].time] /\ src[m].text \in Text
      BY <1>9
    <3> QED
      BY <3>2, <3>3
  <2>2. src' = [m \in Module |-> src'[m]]
    BY <1>1
  <2> QED
    BY <2>1, <2>2
<1>17. ttc' = [m \in Module |-> ttc'[m]]
    BY <1>1
<1>18. \A m \in Module : Alike(m) /\ (ttc'[m] = NoTTC \/ IsTTC(m, ttc'[m]))
  <2> TAKE m \in Module
  <2>1. CASE Exists(m)
    BY <1>11, <2>1
  <2>2. CASE ~Exists(m)
    BY <1>10, <2>2 DEF Alike
  <2> QED
    BY <2>1, <2>2
<1>19. InStep
    BY <1>15 DEF InStep
<1> QED
    BY <1>9, <1>14, <1>16, <1>17, <1>18, <1>19

-----------------------------------------------------------------------------
(***************************************************************************)
(* What does not change                                                    *)
(***************************************************************************)

\* Where the files of a module and its imports say the same they mean the same.
LEMMA Frame ==
    ASSUME NEW S \in SUBSET Module, Closed(Sources, S), \A m \in S : Alike(m)
    PROVE  \A m \in S : /\ Exists(m)' <=> Exists(m)
                        /\ HasHeader(m)' <=> HasHeader(m)
                        /\ Whole(m)' <=> Whole(m)
                        /\ ReadHash(m)' = ReadHash(m)
                        /\ ReadImportHashes(m)' = ReadImportHashes(m)
                        /\ Exports(m)' = Exports(m)
                        /\ Agrees(m)' <=> Agrees(m)
                        /\ Deps(m) \subseteq S
                        /\ Brings[m] \subseteq S
<1>1. \A m \in S : /\ Exists(m)' <=> Exists(m)
                   /\ HasHeader(m)' <=> HasHeader(m)
                   /\ Whole(m)' <=> Whole(m)
    BY DEF Alike, Exists, HasHeader, Whole
<1>2. \A m \in S : /\ ReadHash(m)' = ReadHash(m)
                   /\ ReadImportHashes(m)' = ReadImportHashes(m)
    BY <1>1 DEF Alike, ReadHash, ReadImportHashes
<1>3. \A m \in S : Deps(m) \subseteq S /\ Brings[m] \subseteq S
    BY BringsClosed, Graphs DEF Closed
<1>4. ASSUME NEW m \in S PROVE Exports(m)' = Exports(m)
  <2>1. \A n \in Brings[m] : ttc'[n].from.iface = ttc[n].from.iface
    BY <1>3 DEF Alike
  <2>2. {<<n, ttc'[n].from.iface>> : n \in Brings[m]}
          = {<<n, ttc[n].from.iface>> : n \in Brings[m]}
    BY <2>1
  <2> QED
    BY <2>2 DEF Exports
<1>5. ASSUME NEW m \in S PROVE Agrees(m)' <=> Agrees(m)
  <2>1. ttc'[m].imps = ttc[m].imps /\ ttc'[m].saw = ttc[m].saw
    BY DEF Alike
  <2>2. \A i \in Deps(m) : i \in S
    BY <1>3
  <2> QED
    BY <1>1, <1>2, <1>4, <2>1, <2>2 DEF Agrees
<1> QED
    BY <1>1, <1>2, <1>3, <1>4, <1>5

\* What is kept of a part of the files.
Kept(S) ==
    \A m \in S :
        /\ Alike(m)
        /\ src'[m].text = src[m].text \/ m \in touched'
        /\ \A n \in S : ttc'[m].time < ttc'[n].time <=> ttc[m].time < ttc[n].time

\* What is settled stays so while the files it depends on are kept.
LEMMA SettledKept ==
    ASSUME Typed, Typed', NEW S \in SUBSET Module, Closed(Sources, S), Kept(S),
           touched \subseteq touched', goal' = goal, NEW m \in S, Settled(m)
    PROVE  Settled(m)'
<1>1. /\ Exists(m)' <=> Exists(m)
      /\ HasHeader(m)' <=> HasHeader(m)
      /\ Agrees(m)' <=> Agrees(m)
      /\ Deps(m) \subseteq S
    BY Frame DEF Kept
<1>2. /\ ttc'[m].from = ttc[m].from /\ ttc'[m].raced = ttc[m].raced
      /\ ttc'[m].req = ttc[m].req
    BY DEF Kept, Alike
<1>3. m \notin touched' => ttc'[m].from = src'[m].text \/ ttc'[m].raced
    BY <1>2 DEF Kept, Settled
<1>4. \A n \in Module : ttc[n].time \in Nat /\ ttc'[n].time \in Nat
  <2>1. \A n \in Module : ttc[n].time \in Nat
    BY FileFacts
  <2>2. \A n \in Module : ttc'[n].time \in Nat
    <3> TAKE n \in Module
    <3>1. ttc'[n] = NoTTC \/ IsTTC(n, ttc'[n])
      BY DEF Typed
    <3> QED
      BY <3>1 DEF NoTTC, IsTTC
  <2> QED
    BY <2>1, <2>2
<1>5. ASSUME NEW i \in Deps(m), ttc[i].time >= ttc[m].time
      PROVE  ttc'[i].time >= ttc'[m].time
  <2>1. ttc'[i].time < ttc'[m].time <=> ttc[i].time < ttc[m].time
    BY <1>1 DEF Kept
  <2>2. i \in Module
    BY <1>1
  <2> QED
    BY <1>4, <1>5, <2>1, <2>2
<1>6. Requirement(ttc[m].from)' = Requirement(ttc[m].from)
    BY <1>2 DEF Requirement
<1>7. (m = goal.main => \/ ~HasHeader(m) \/ ttc[m].req >= goal.req
                        \/ Requirement(ttc[m].from) < goal.req
                        \/ \E i \in Deps(m) : ttc[i].time >= ttc[m].time)'
    BY <1>1, <1>2, <1>5, <1>6 DEF Settled
<1> QED
    BY <1>1, <1>2, <1>3, <1>7 DEF Settled

-----------------------------------------------------------------------------
(***************************************************************************)
(* Hashes and offers                                                       *)
(***************************************************************************)

\* What a module exports is an offer.
LEMMA OffersFact ==
    ASSUME NEW i \in Module
    PROVE  Offers(i, Exports(i))
<1> DEFINE f == [n \in Module |-> ttc[n].from.iface]
<1>1. {<<n, f[n]>> : n \in Brings[i]} = Exports(i)
    BY BringsStep DEF Exports
<1> QED
    BY <1>1 DEF Offers

\* What a record tells of makes what can be added to it.
LEMMA RecordGrows ==
    ASSUME NEW R, IsRecord(R), NEW N,
           \A t \in N : \E i, h, e : t = <<i, h, e>> /\ MadeOf(R, i, h, e)
    PROVE  IsRecord(R \cup N)
<1>1. \A i, h, e : <<i, h, e>> \in R \cup N => MadeOf(R, i, h, e)
  <2> SUFFICES ASSUME NEW i, NEW h, NEW e, <<i, h, e>> \in N
               PROVE  MadeOf(R, i, h, e)
    BY DEF IsRecord
  <2>1. PICK j, g, d : <<i, h, e>> = <<j, g, d>> /\ MadeOf(R, j, g, d)
    OBVIOUS
  <2>2. i = j /\ h = g /\ e = d
    BY <2>1
  <2> QED
    BY <2>1, <2>2
<1>2. ASSUME NEW i, NEW h, NEW e, MadeOf(R, i, h, e)
      PROVE  MadeOf(R \cup N, i, h, e)
  <2>1. PICK x, hs, es : /\ h = <<x, [j \in Public(i) |-> hs[j]]>>
                         /\ e = {<<i, x>>} \cup UNION {es[j] : j \in Public(i)}
                         /\ \A j \in Public(i) : <<j, hs[j], es[j]>> \in R
    BY <1>2 DEF MadeOf
  <2>2. \A j \in Public(i) : <<j, hs[j], es[j]>> \in R \cup N
    BY <2>1
  <2> QED
    BY <1>2, <2>1, <2>2 DEF MadeOf
<1>3. ASSUME NEW i, NEW h, NEW d, NEW e, MadeOf(R, i, h, d), MadeOf(R, i, h, e)
      PROVE  d = e
  <2>1. PICK x, hs, ds : /\ h = <<x, [j \in Public(i) |-> hs[j]]>>
                         /\ d = {<<i, x>>} \cup UNION {ds[j] : j \in Public(i)}
                         /\ \A j \in Public(i) : <<j, hs[j], ds[j]>> \in R
    BY <1>3 DEF MadeOf
  <2>2. PICK y, gs, es : /\ h = <<y, [j \in Public(i) |-> gs[j]]>>
                         /\ e = {<<i, y>>} \cup UNION {es[j] : j \in Public(i)}
                         /\ \A j \in Public(i) : <<j, gs[j], es[j]>> \in R
    BY <1>3 DEF MadeOf
  <2>3. x = y /\ [j \in Public(i) |-> hs[j]] = [j \in Public(i) |-> gs[j]]
    BY <2>1, <2>2
  <2>4. \A j \in Public(i) : hs[j] = gs[j]
    BY <2>3
  <2>5. \A j \in Public(i) : ds[j] = es[j]
    BY <2>1, <2>2, <2>4 DEF IsRecord
  <2>6. {ds[j] : j \in Public(i)} = {es[j] : j \in Public(i)}
    BY <2>5
  <2> QED
    BY <2>1, <2>2, <2>3, <2>6
<1>4. ASSUME NEW i, NEW h, NEW g, NEW e, MadeOf(R, i, h, e), MadeOf(R, i, g, e)
      PROVE  h = g
  <2>1. PICK x, hs, ds : /\ h = <<x, [j \in Public(i) |-> hs[j]]>>
                         /\ e = {<<i, x>>} \cup UNION {ds[j] : j \in Public(i)}
                         /\ \A j \in Public(i) : <<j, hs[j], ds[j]>> \in R
    BY <1>4 DEF MadeOf
  <2>2. PICK y, gs, es : /\ g = <<y, [j \in Public(i) |-> gs[j]]>>
                         /\ e = {<<i, y>>} \cup UNION {es[j] : j \in Public(i)}
                         /\ \A j \in Public(i) : <<j, gs[j], es[j]>> \in R
    BY <1>4 DEF MadeOf
  <2>3. PICK f : e = {<<n, f[n]>> : n \in Brings[i]}
    BY <1>4 DEF MadeOf, Offers
  <2>4. \A n, z : <<n, z>> \in e => z = f[n]
    BY <2>3
  <2>5. x = y
    <3>1. <<i, x>> \in e
      BY <2>1
    <3>2. <<i, y>> \in e
      BY <2>2
    <3> QED
      BY <2>4, <3>1, <3>2
  <2>6. ASSUME NEW j, NEW o, Offers(j, o), o \subseteq e
        PROVE  o = {<<n, f[n]>> : n \in Brings[j]}
    <3>1. PICK k : o = {<<n, k[n]>> : n \in Brings[j]}
      BY <2>6 DEF Offers
    <3>2. \A n \in Brings[j] : <<n, k[n]>> \in e
      BY <2>6, <3>1
    <3>3. \A n \in Brings[j] : k[n] = f[n]
      BY <2>4, <3>2
    <3> QED
      BY <3>1, <3>3
  <2>7. ASSUME NEW j \in Public(i) PROVE hs[j] = gs[j]
    <3>1. <<j, hs[j], ds[j]>> \in R /\ <<j, gs[j], es[j]>> \in R
      BY <2>1, <2>2
    <3>2. Offers(j, ds[j]) /\ Offers(j, es[j])
      BY <3>1 DEF IsRecord, MadeOf
    <3>3. ds[j] \subseteq e /\ es[j] \subseteq e
      BY <2>1, <2>2
    <3>4. ds[j] = {<<n, f[n]>> : n \in Brings[j]}
      BY <2>6, <3>2, <3>3
    <3>5. es[j] = {<<n, f[n]>> : n \in Brings[j]}
      BY <2>6, <3>2, <3>3
    <3> QED
      BY <3>1, <3>4, <3>5 DEF IsRecord
  <2> QED
    BY <2>1, <2>2, <2>5, <2>7
<1>5. \A i, h, e : <<i, h, e>> \in R \cup N => MadeOf(R \cup N, i, h, e)
    BY <1>1, <1>2
<1>6. \A i, h, d, e : <<i, h, d>> \in R \cup N /\ <<i, h, e>> \in R \cup N => d = e
    BY <1>1, <1>3
<1>7. \A i, h, g, e : <<i, h, e>> \in R \cup N /\ <<i, g, e>> \in R \cup N => h = g
    BY <1>1, <1>4
<1> QED
    BY <1>5, <1>6, <1>7 DEF IsRecord

\* The files of a module tell what its hash is made of.
LEMMA Known ==
    ASSUME Typed, NEW R, IsRecord(R), Recorded(R),
           NEW i \in Module, HasHeader(i), Agrees(i)
    PROVE  MadeOf(R, i, ReadHash(i), Exports(i))
<1> DEFINE x  == ttc[i].from.iface
           hs == ttc[i].imps
           es == ttc[i].saw
<1>1. Exists(i) /\ Public(i) \subseteq Deps(i) /\ Deps(i) \subseteq Module
    BY FileFacts, Graphs
<1>2. ReadHash(i) = <<x, [j \in Public(i) |-> hs[j]]>>
    BY FileFacts, HashIsReal DEF IsTTC, IfaceHash
<1>3. \A j \in Public(i) : es[j] = Exports(j)
    BY <1>1 DEF Agrees
<1>4. Exports(i) = {<<i, x>>} \cup UNION {es[j] : j \in Public(i)}
  <2>1. Brings[i] = {i} \cup UNION {Brings[j] : j \in Public(i)}
    BY BringsStep
  <2>2. Exports(i) = {<<i, x>>} \cup UNION {Exports(j) : j \in Public(i)}
    BY <2>1 DEF Exports
  <2>3. {es[j] : j \in Public(i)} = {Exports(j) : j \in Public(i)}
    BY <1>3
  <2> QED
    BY <2>2, <2>3
<1>5. \A j \in Public(i) : <<j, hs[j], es[j]>> \in R
    BY <1>1 DEF Recorded
<1>6. Offers(i, Exports(i))
    BY OffersFact
<1> HIDE DEF x, hs, es
<1> QED
    BY <1>2, <1>4, <1>5, <1>6 DEF MadeOf

\* A TTC has the hash of an import just if it has what the import offers.
LEMMA HashTells ==
    ASSUME Typed, Remembered, NEW m \in Module, Exists(m), NEW i \in Deps(m),
           HasHeader(i), Agrees(i)
    PROVE  ttc[m].imps[i] = ReadHash(i) <=> ttc[m].saw[i] = Exports(i)
<1>1. PICK R : IsRecord(R) /\ Recorded(R)
    BY DEF Remembered
<1> DEFINE N == {<<i, ReadHash(i), Exports(i)>>}
<1>2. i \in Module
    BY Graphs
<1>3. MadeOf(R, i, ReadHash(i), Exports(i))
    BY <1>1, <1>2, Known
<1>4. \A t \in N : \E j, h, e : t = <<j, h, e>> /\ MadeOf(R, j, h, e)
    BY <1>3
<1>5. IsRecord(R \cup N)
  <2> HIDE DEF N
  <2> QED
    BY <1>1, <1>4, RecordGrows
<1>6. <<i, ttc[m].imps[i], ttc[m].saw[i]>> \in R \cup N
    BY <1>1 DEF Recorded
<1>7. <<i, ReadHash(i), Exports(i)>> \in R \cup N
    OBVIOUS
<1> HIDE DEF N
<1> QED
    BY <1>5, <1>6, <1>7 DEF IsRecord

-----------------------------------------------------------------------------
(***************************************************************************)
(* The files                                                               *)
(***************************************************************************)

\* What is written, and where.
LEMMA WritesFacts ==
    ASSUME IInv, Writes
    PROVE  LET m == Head(todo)
           IN  /\ pc # "idle" /\ todo # <<>> /\ m \in Module
               /\ m \notin Built /\ Deps(m) \subseteq Built /\ m \notin Deps(m)
               /\ Built \subseteq Module /\ Closed(Sources, Built)
               /\ ttc' = [ttc EXCEPT ![m] = ttc'[m]]
               /\ \E torn \in Torns : ttc'[m] = TTCFile(m, torn)
               /\ IsTTC(m, ttc'[m]) /\ ttc'[m].torn # "gone"
               /\ \A n \in Module \ {m} : ttc'[n] = ttc[n] /\ Alike(n)
               /\ hashes = [i \in Deps(m) |-> ReadHash(i)]
               /\ \A i \in Deps(m) : /\ HasHeader(i) /\ Agrees(i)
                                     /\ ReadHash(i)' = ReadHash(i)
                                     /\ Exports(i)' = Exports(i)
               /\ Kept(Built)
<1> DEFINE m == Head(todo)
<1>1. pc # "idle" /\ todo # <<>> /\ pc \in {"compile", "write"}
    BY DEF IInv, InOrder, Writes, Busy
<1>2. /\ m \in Module /\ m \notin Built /\ Deps(m) \subseteq Built
      /\ Built \subseteq Module /\ Closed(Sources, Built)
    BY <1>1, BuiltFacts DEF IInv
<1>3. PICK torn \in Torns : ttc' = [ttc EXCEPT ![m] = TTCFile(m, torn)]
    BY DEF Writes
<1>4. ttc = [n \in Module |-> ttc[n]]
    BY DEF IInv, Typed
<1>5. /\ ttc'[m] = TTCFile(m, torn)
      /\ \A n \in Module \ {m} : ttc'[n] = ttc[n]
      /\ ttc' = [ttc EXCEPT ![m] = ttc'[m]]
    BY <1>2, <1>3, <1>4
<1>6. IsTTC(m, TTCFile(m, torn))
    BY <1>1, WrittenIsTTC DEF IInv, Writes
<1>7. ttc'[m].torn # "gone"
    BY <1>5, <1>6 DEF IsTTC
<1>8. hashes = [i \in Deps(m) |-> ReadHash(i)]
    BY <1>1 DEF IInv, Hashing
<1>9. \A n \in Module \ {m} : Alike(n)
    BY <1>5 DEF Alike
<1>10. Kept(Built)
  <2>1. \A n \in Built : n \in Module \ {m}
    BY <1>2
  <2>2. src' = src
    BY DEF Writes
  <2> QED
    BY <1>5, <1>9, <2>1, <2>2 DEF Kept
<1>11. \A n \in Built : /\ ReadHash(n)' = ReadHash(n)
                        /\ Exports(n)' = Exports(n)
    BY <1>2, <1>10, Frame DEF Kept
<1>12. ASSUME NEW i \in Deps(m) PROVE HasHeader(i) /\ Agrees(i)
  <2>1. Whole(i)
    BY <1>2, BringsStep DEF Writes, Checked
  <2>2. HasHeader(i)
    BY <1>2, <2>1, FileFacts DEF IInv
  <2> QED
    BY <1>1, <1>2, <2>2 DEF IInv, Progress, Settled
<1> QED
    BY <1>1, <1>2, <1>5, <1>6, <1>7, <1>8, <1>9, <1>10, <1>11, <1>12

\* There is always a record; a write adds to it what it has read.
LEMMA RememberedNext ==
    ASSUME IInv, [Next]_vars
    PROVE  Remembered'
<1>1. PICK R : IsRecord(R) /\ Recorded(R)
    BY DEF IInv, Remembered
<1>2. ASSUME \A m \in Module : Exists(m)' => Exists(m) /\ Alike(m)
      PROVE  Remembered'
  <2>1. ASSUME NEW m \in Module, Exists(m)', NEW i \in Deps(m)
        PROVE  <<i, ttc'[m].imps[i], ttc'[m].saw[i]>> \in R
    BY <1>1, <1>2, <2>1 DEF Recorded, Alike
  <2> QED
    BY <1>1, <2>1 DEF Remembered, Recorded
<1>3. CASE Quiet
    BY <1>2, <1>3 DEF Quiet, Exists, Alike
<1>4. CASE Writes
  <2>0. PICK m : m = Head(todo)
    OBVIOUS
  <2>1. /\ m \in Module /\ Deps(m) \subseteq Module
        /\ \A n \in Module \ {m} : ttc'[n] = ttc[n]
        /\ \A i \in Deps(m) : HasHeader(i) /\ Agrees(i)
        /\ hashes = [i \in Deps(m) |-> ReadHash(i)]
        /\ \E torn \in Torns : ttc'[m] = TTCFile(m, torn)
    BY <1>4, <2>0, WritesFacts, Graphs
  <2>2. PICK N : N = {<<i, ReadHash(i), Exports(i)>> : i \in Deps(m)}
    OBVIOUS
  <2>3. \A i \in Deps(m) : MadeOf(R, i, ReadHash(i), Exports(i))
    BY <1>1, <2>1, Known DEF IInv
  <2>4. \A t \in N : \E i, h, e : t = <<i, h, e>> /\ MadeOf(R, i, h, e)
    BY <2>2, <2>3
  <2>5. IsRecord(R \cup N)
    BY <1>1, <2>4, RecordGrows
  <2>6. ASSUME NEW i \in Deps(m)
        PROVE  <<i, ttc'[m].imps[i], ttc'[m].saw[i]>> \in R \cup N
    <3>1. ttc'[m].imps = hashes /\ ttc'[m].saw = [j \in Deps(m) |-> Exports(j)]
      BY <2>1 DEF TTCFile
    <3> QED
      BY <2>1, <2>2, <3>1
  <2>7. ASSUME NEW n \in Module, n # m, Exists(n)', NEW i \in Deps(n)
        PROVE  <<i, ttc'[n].imps[i], ttc'[n].saw[i]>> \in R \cup N
    BY <1>1, <2>1, <2>7 DEF Recorded, Exists
  <2>8. Recorded(R \cup N)'
    BY <2>6, <2>7 DEF Recorded
  <2> QED
    BY <2>5, <2>8 DEF Remembered
<1>5. CASE TooWeak
  <2>1. ASSUME NEW m \in Module, Exists(m)' PROVE Exists(m) /\ Alike(m)
    <3>1. ttc' = [ttc EXCEPT ![Head(todo)] = NoTTC] /\ ttc = [n \in Module |-> ttc[n]]
      BY <1>5 DEF TooWeak, IInv, Typed
    <3>2. ttc'[m] = ttc[m]
      BY <2>1, <3>1 DEF Exists, NoTTC
    <3> QED
      BY <2>1, <3>2 DEF Exists, Alike
  <2> QED
    BY <1>2, <2>1
<1>6. CASE Edit
    BY <1>2, <1>6 DEF Edit, Exists, Alike
<1>7. CASE Tick
    BY <1>2, <1>7, TickFacts DEF IInv, Exists, Alike
<1> QED
    BY <1>3, <1>4, <1>5, <1>6, <1>7, Kinds DEF IInv

\* What is removed.
LEMMA TooWeakFacts ==
    ASSUME IInv, TooWeak
    PROVE  LET m == Head(todo)
           IN  /\ pc # "idle" /\ todo # <<>> /\ m \in Module
               /\ m \notin Built /\ Built \subseteq Module /\ Closed(Sources, Built)
               /\ ttc'[m] = NoTTC /\ ttc' = [n \in Module |-> ttc'[n]]
               /\ \A n \in Module \ {m} : ttc'[n] = ttc[n] /\ Alike(n)
               /\ Kept(Built)
<1> DEFINE m == Head(todo)
<1>1. pc # "idle" /\ todo # <<>>
    BY DEF TooWeak
<1>2. /\ m \in Module /\ m \notin Built
      /\ Built \subseteq Module /\ Closed(Sources, Built)
    BY <1>1, BuiltFacts DEF IInv
<1>3. ttc' = [ttc EXCEPT ![m] = NoTTC] /\ src' = src /\ ttc = [n \in Module |-> ttc[n]]
    BY DEF TooWeak, IInv, Typed
<1>4. /\ ttc'[m] = NoTTC /\ ttc' = [n \in Module |-> ttc'[n]]
      /\ \A n \in Module \ {m} : ttc'[n] = ttc[n]
    BY <1>2, <1>3
<1>5. \A n \in Module \ {m} : Alike(n)
    BY <1>4 DEF Alike
<1>6. Kept(Built)
    BY <1>2, <1>3, <1>4, <1>5 DEF Kept
<1> QED
    BY <1>1, <1>2, <1>4, <1>5, <1>6

\* The files stay well formed, and no newer than the clock.
LEMMA FilesTyped ==
    ASSUME IInv, [Next]_vars
    PROVE  /\ src' \in [Module -> [text : Text, time : Nat]]
           /\ ttc' = [m \in Module |-> ttc'[m]]
           /\ \A m \in Module : ttc'[m] = NoTTC \/ IsTTC(m, ttc'[m])
           /\ clock' \in Nat \ {0}
           /\ Clocked'
<1>0. Typed /\ Clocked
    BY DEF IInv
<1>1. CASE Quiet
    BY <1>0, <1>1 DEF Quiet, Typed, Clocked
<1>2. CASE Writes
  <2> DEFINE m == Head(todo)
  <2>1. /\ m \in Module /\ ttc' = [ttc EXCEPT ![m] = ttc'[m]]
        /\ IsTTC(m, ttc'[m])
        /\ \A n \in Module \ {m} : ttc'[n] = ttc[n]
        /\ \E torn \in Torns : ttc'[m] = TTCFile(m, torn)
    BY <1>2, WritesFacts
  <2>2. src' = src /\ clock' = clock
    BY <1>2 DEF Writes
  <2>3. ttc'[m].time = clock
    BY <2>1 DEF TTCFile
  <2>4. ttc' = [n \in Module |-> ttc'[n]]
    BY <1>0, <2>1 DEF Typed
  <2>5. \A n \in Module : ttc'[n] = NoTTC \/ IsTTC(n, ttc'[n])
    BY <1>0, <2>1 DEF Typed
  <2>6. \A n \in Module : ttc'[n].time <= clock
    <3> TAKE n \in Module
    <3>1. clock \in Nat /\ ttc[n].time <= clock
      BY <1>0 DEF Typed, Clocked
    <3>2. ttc'[n].time = clock \/ ttc'[n].time = ttc[n].time
      BY <2>1, <2>3
    <3> QED
      BY <3>1, <3>2
  <2> HIDE DEF m
  <2> QED
    BY <1>0, <2>2, <2>4, <2>5, <2>6 DEF Typed, Clocked
<1>3. CASE TooWeak
  <2> DEFINE m == Head(todo)
  <2>1. /\ m \in Module /\ ttc' = [n \in Module |-> ttc'[n]]
        /\ ttc'[m] = NoTTC
        /\ \A n \in Module \ {m} : ttc'[n] = ttc[n]
    BY <1>3, TooWeakFacts
  <2>2. src' = src /\ clock' = clock
    BY <1>3 DEF TooWeak
  <2>3. \A n \in Module : ttc'[n].time <= clock
    <3> TAKE n \in Module
    <3>1. clock \in Nat /\ ttc[n].time <= clock
      BY <1>0 DEF Typed, Clocked
    <3>2. ttc'[n].time = 0 \/ ttc'[n].time = ttc[n].time
      BY <2>1 DEF NoTTC
    <3> QED
      BY <3>1, <3>2
  <2> QED
    BY <1>0, <2>1, <2>2, <2>3 DEF Typed, Clocked
<1>4. CASE Edit
  <2>1. PICK edit \in Edits :
          src' = [src EXCEPT ![edit[1]] = [text |-> edit[2], time |-> clock]]
    BY <1>4 DEF Edit
  <2>2. edit[1] \in Module /\ edit[2] \in Text
    BY TreeAssumption
  <2>3. ttc' = ttc /\ clock' = clock
    BY <1>4 DEF Edit
  <2>4. [text |-> edit[2], time |-> clock] \in [text : Text, time : Nat]
    BY <1>0, <2>2 DEF Typed
  <2>5. src' \in [Module -> [text : Text, time : Nat]]
    BY <1>0, <2>1, <2>2, <2>4 DEF Typed
  <2>6. \A m \in Module : src'[m].time \in 1 .. clock
    <3> TAKE m \in Module
    <3>1. src'[m] = IF m = edit[1] THEN [text |-> edit[2], time |-> clock] ELSE src[m]
      BY <1>0, <2>1, <2>2 DEF Typed
    <3>2. src'[m].time = clock \/ src'[m].time = src[m].time
      BY <3>1
    <3>3. clock \in 1 .. clock /\ src[m].time \in 1 .. clock
      BY <1>0 DEF Typed, Clocked
    <3> QED
      BY <3>2, <3>3
  <2> QED
    BY <1>0, <2>3, <2>5, <2>6 DEF Typed, Clocked
<1>5. CASE Tick
    BY <1>0, <1>5, TickFacts
<1> QED
    BY <1>1, <1>2, <1>3, <1>4, <1>5, Kinds DEF IInv

\* A TTC that is newer than its source stays compiled from it: an edit takes
\* the time of the clock, which no TTC has passed.
LEMMA FreshNext ==
    ASSUME IInv, [Next]_vars
    PROVE  Fresh'
<1>0. Fresh /\ Typed /\ Clocked
    BY DEF IInv
<1> SUFFICES ASSUME NEW n \in Module, src'[n].time < ttc'[n].time
             PROVE  ttc'[n].from = src'[n].text \/ ttc'[n].raced
    BY DEF Fresh
<1>1. CASE Quiet
    BY <1>0, <1>1 DEF Quiet, Fresh
<1>2. CASE Writes
  <2>1. CASE n = Head(todo)
    <3>1. \E torn \in Torns : ttc'[n] = TTCFile(n, torn)
      BY <1>2, <2>1, WritesFacts
    <3>2. ttc'[n].from = read.text /\ ttc'[n].raced = read.raced
      BY <3>1 DEF TTCFile
    <3>3. read.text = src[n].text \/ read.raced
      BY <1>2, <2>1 DEF IInv, Reading, Writes, HasRead
    <3> QED
      BY <1>2, <3>2, <3>3 DEF Writes
  <2>2. CASE n # Head(todo)
    <3>1. ttc'[n] = ttc[n]
      BY <1>2, <2>2, WritesFacts
    <3> QED
      BY <1>0, <1>2, <3>1 DEF Writes, Fresh
  <2> QED
    BY <2>1, <2>2
<1>3. CASE TooWeak
  <2>1. src' = src
    BY <1>3 DEF TooWeak
  <2>2. ttc'[n] = NoTTC \/ ttc'[n] = ttc[n]
    BY <1>3, TooWeakFacts
  <2>3. ttc'[n] # NoTTC
    BY <1>0, <2>1 DEF NoTTC, Typed
  <2> QED
    BY <1>0, <2>1, <2>2, <2>3 DEF Fresh
<1>4. CASE Edit
  <2>1. PICK edit \in Edits :
          src' = [src EXCEPT ![edit[1]] = [text |-> edit[2], time |-> clock]]
    BY <1>4 DEF Edit
  <2>2. src'[n] = IF n = edit[1] THEN [text |-> edit[2], time |-> clock] ELSE src[n]
    BY <1>0, <2>1 DEF Typed
  <2>3. ttc' = ttc
    BY <1>4 DEF Edit
  <2>4. n # edit[1]
    <3> SUFFICES ASSUME n = edit[1] PROVE FALSE
      OBVIOUS
    <3>1. clock < ttc[n].time
      BY <2>2, <2>3
    <3> QED
      BY <1>0, <3>1, FileFacts DEF Clocked, Typed
  <2> QED
    BY <1>0, <2>2, <2>3, <2>4 DEF Fresh
<1>5. CASE Tick
  <2>1. Alike(n) /\ src'[n].text = src[n].text /\ InStep
    BY <1>0, <1>5, TickFacts
  <2>2. src[n].time < ttc[n].time
    BY <2>1 DEF InStep
  <2> QED
    BY <1>0, <2>1, <2>2 DEF Fresh, Alike
<1> QED
    BY <1>1, <1>2, <1>3, <1>4, <1>5, Kinds DEF IInv

\* A TTC that is newer than an import's stays compiled against it.
LEMMA TimelyNext ==
    ASSUME IInv, [Next]_vars
    PROVE  Timely'
<1>0. Timely /\ Typed /\ Clocked
    BY DEF IInv
<1> SUFFICES ASSUME NEW n \in Module, HasHeader(n)', NEW i \in Deps(n),
                    Exists(i)', ttc'[i].time < ttc'[n].time
             PROVE  ttc'[n].imps[i] = ReadHash(i)'
    BY DEF Timely
<1>1. i \in Module
    BY Graphs
<1>2. CASE Quiet
    BY <1>0, <1>2 DEF Quiet, Timely, HasHeader, Exists, ReadHash
<1>3. CASE Writes
  <2>1. CASE n = Head(todo)
    <3>1. \E torn \in Torns : ttc'[n] = TTCFile(n, torn)
      BY <1>3, <2>1, WritesFacts
    <3>2. ttc'[n].imps = hashes
      BY <3>1 DEF TTCFile
    <3>3. hashes = [j \in Deps(n) |-> ReadHash(j)] /\ ReadHash(i)' = ReadHash(i)
      BY <1>3, <2>1, WritesFacts
    <3> QED
      BY <3>2, <3>3
  <2>2. CASE i = Head(todo)
    <3>1. \E torn \in Torns : ttc'[i] = TTCFile(i, torn)
      BY <1>3, <2>2, WritesFacts
    <3>2. ttc'[i].time = clock
      BY <3>1 DEF TTCFile
    <3>3. n # i
      BY <1>3, <2>2, WritesFacts
    <3>4. ttc'[n] = ttc[n]
      BY <1>3, <2>2, <3>3, WritesFacts
    <3>5. ~(clock < ttc[n].time)
      BY <1>0, FileFacts DEF Clocked, Typed
    <3> QED
      BY <3>2, <3>4, <3>5
  <2>3. CASE n # Head(todo) /\ i # Head(todo)
    <3>1. ttc'[n] = ttc[n] /\ ttc'[i] = ttc[i]
      BY <1>1, <1>3, <2>3, WritesFacts
    <3> QED
      BY <1>0, <3>1 DEF Timely, HasHeader, Exists, ReadHash
  <2> QED
    BY <2>1, <2>2, <2>3
<1>4. CASE TooWeak
  <2>1. \A j \in Module : ttc'[j] = NoTTC \/ ttc'[j] = ttc[j]
    BY <1>4, TooWeakFacts
  <2>2. ttc'[n] = ttc[n] /\ ttc'[i] = ttc[i]
    BY <1>1, <2>1 DEF HasHeader, Exists, NoTTC
  <2> QED
    BY <1>0, <2>2 DEF Timely, HasHeader, Exists, ReadHash
<1>5. CASE Edit
    BY <1>0, <1>5 DEF Edit, Timely, HasHeader, Exists, ReadHash
<1>6. CASE Tick
  <2>1. Alike(n) /\ Alike(i) /\ InStep
    BY <1>0, <1>1, <1>6, TickFacts
  <2>2. ttc[i].time < ttc[n].time
    BY <1>1, <2>1 DEF InStep
  <2> QED
    BY <1>0, <2>1, <2>2 DEF Timely, Alike, HasHeader, Exists, ReadHash
<1> QED
    BY <1>2, <1>3, <1>4, <1>5, <1>6, Kinds DEF IInv

\* A step keeps all files when no build runs, and what was built otherwise.
LEMMA KeptNext ==
    ASSUME IInv, [Next]_vars
    PROVE  /\ pc = "idle" => Kept(Module)
           /\ pc # "idle" => Kept(Built)
           /\ pc # "idle" => Built \subseteq Module /\ Closed(Sources, Built)
           /\ Closed(Sources, Module)
<1>0. Typed /\ Clocked
    BY DEF IInv
<1>1. pc # "idle" => Built \subseteq Module /\ Closed(Sources, Built)
    BY BuiltFacts DEF IInv
<1>2. Closed(Sources, Module)
    BY Graphs DEF Closed
<1>3. CASE Quiet
    BY <1>1, <1>2, <1>3 DEF Quiet, Kept, Alike
<1>4. CASE Writes
    BY <1>1, <1>2, <1>4, WritesFacts
<1>5. CASE TooWeak
    BY <1>1, <1>2, <1>5, TooWeakFacts
<1>6. CASE Edit
  <2>1. PICK edit \in Edits :
          /\ src' = [src EXCEPT ![edit[1]] = [text |-> edit[2], time |-> clock]]
          /\ touched' = touched \cup {edit[1]}
    BY <1>6 DEF Edit
  <2>2. \A m \in Module : src'[m].text = src[m].text \/ m \in touched'
    BY <1>0, <2>1 DEF Typed
  <2>3. Kept(Module)
    BY <1>6, <2>2 DEF Edit, Kept, Alike
  <2> QED
    BY <1>1, <1>2, <2>3 DEF Kept
<1>7. CASE Tick
  <2>1. Kept(Module)
    BY <1>0, <1>7, TickFacts DEF InStep, Kept
  <2> QED
    BY <1>1, <1>2, <2>1 DEF Kept
<1> QED
    BY <1>3, <1>4, <1>5, <1>6, <1>7, Kinds DEF IInv

-----------------------------------------------------------------------------
(***************************************************************************)
(* The build                                                               *)
(***************************************************************************)

\* The state stays well formed.
LEMMA TypedNext ==
    ASSUME IInv, [Next]_vars
    PROVE  Typed'
<1>0. Typed
    BY DEF IInv
<1> SUFFICES /\ pc' \in Busy \cup {"idle", "check"}
             /\ goal' \in [files : Seq(Module), main : Module \cup {"none"}, req : Nat]
             /\ todo' \in Seq(Module)
             /\ result' \in {"none", "ok", "errors"}
             /\ touched' \subseteq Module
  BY FilesTyped DEF Typed
<1>1. ASSUME todo # <<>> PROVE Tail(todo) \in Seq(Module)
    BY <1>0, <1>1 DEF Typed
<1>2. CASE Start
  <2>1. Order(goal'.files) \in Seq(Module)
    BY <1>2, OrderAssumption DEF Start
  <2> QED
    BY <1>2, <2>1, GoalAssumption DEF Start
<1>3. CASE UpToDate \/ OutOfDate \/ TooWeak \/ ReadSource
    BY <1>0, <1>1, <1>3
    DEF UpToDate, OutOfDate, TooWeak, ReadSource, NextModule, Continue, Typed, Busy
<1>11. /\ goal \in [files : Seq(Module), main : Module \cup {"none"}, req : Nat]
      /\ touched \subseteq Module /\ todo \in Seq(Module)
      /\ result \in {"none", "ok", "errors"}
    BY <1>0 DEF Typed
<1>12. <<>> \in Seq(Module)
    OBVIOUS
<1>13. Errors => /\ pc' = "idle" /\ result' \in {"none", "ok", "errors"}
                /\ todo' \in Seq(Module)
    BY <1>12 DEF Errors
<1>14. NextModule /\ todo # <<>> => /\ pc' = "check" /\ todo' \in Seq(Module)
                                  /\ result' = result
    BY <1>1 DEF NextModule
<1>4. CASE ReadHeader
  <2>1. todo # <<>> /\ goal' = goal /\ touched' = touched
    BY <1>4 DEF ReadHeader, Busy, IInv, InOrder
  <2>2. Errors \/ NextModule \/ Continue("compile")
    BY <1>4 DEF ReadHeader
  <2>3. Continue("compile") => pc' = "compile" /\ todo' = todo /\ result' = result
    BY DEF Continue
  <2> QED
    BY <1>11, <1>13, <1>14, <2>1, <2>2, <2>3 DEF Busy
<1>5. CASE CompileFails \/ Compile
    BY <1>11, <1>13, <1>5 DEF CompileFails, Compile, Continue, Busy
<1>6. CASE WriteTTC \/ WriteFails
  <2>1. todo # <<>> /\ goal' = goal /\ touched' = touched
    BY <1>6 DEF WriteTTC, WriteFails, Busy, IInv, InOrder
  <2>2. Errors \/ NextModule
    BY <1>6 DEF WriteTTC, WriteFails
  <2> QED
    BY <1>11, <1>13, <1>14, <2>1, <2>2
<1>7. CASE Finish \/ Crash
    BY <1>11, <1>12, <1>7 DEF Finish, Crash
<1>8. CASE Edit
    BY <1>0, <1>8, TreeAssumption DEF Edit, Typed
<1>9. CASE Tick
    BY <1>0, <1>9 DEF Tick, Typed
<1>10. CASE UNCHANGED vars
    BY <1>0, <1>10 DEF vars, Typed
<1> QED
    BY <1>2, <1>3, <1>4, <1>5, <1>6, <1>7, <1>8, <1>9, <1>10 DEF Next

\* The build stays where it is.
LEMMA SameOrder ==
    ASSUME InOrder, pc # "idle", pc' # "idle", todo' = todo, goal' = goal, result' = result,
           pc' \in Busy => todo # <<>>
    PROVE  InOrder' /\ Built' = Built
<1>1. Sequence' = Sequence
    BY DEF Sequence
<1> QED
    BY <1>1 DEF InOrder, Built

\* It goes on with the next module.
LEMMA NextInOrder ==
    ASSUME Typed, InOrder, pc # "idle", todo # <<>>, NextModule, goal' = goal
    PROVE  InOrder' /\ Built' = Built \cup {Head(todo)}
<1>1. Sequence' = Sequence
    BY DEF Sequence
<1>2. todo' = Tail(todo) /\ pc' = "check" /\ result' = result
    BY DEF NextModule
<1>3. /\ Built' = Built \cup {Head(todo)}
      /\ Len(todo') <= Len(Sequence)
      /\ \A i \in 1 .. Len(todo') :
           todo'[i] = Sequence[Len(Sequence) - Len(todo') + i]
    BY <1>2, Advance
<1> QED
    BY <1>1, <1>2, <1>3 DEF InOrder, Busy

\* What is to be visited stays the end of the order.
LEMMA InOrderNext ==
    ASSUME IInv, [Next]_vars
    PROVE  InOrder'
<1>0. Typed /\ InOrder
    BY DEF IInv
<1>1. CASE Start
  <2>1. goal' \in Goal /\ todo' = Sequence' /\ pc' = "check" /\ result' = "none"
    BY <1>1 DEF Start, Sequence
  <2>2. Sequence' \in Seq(Module)
    BY <2>1, OrderAssumption DEF Sequence
  <2>3. Len(todo') = Len(Sequence') /\ Len(todo') \in Nat
    BY <2>1, <2>2
  <2>4. \A i \in 1 .. Len(todo') : todo'[i] = Sequence'[Len(Sequence') - Len(todo') + i]
    BY <2>1, <2>3
  <2> QED
    BY <2>1, <2>3, <2>4 DEF InOrder, Busy
<1>2. CASE UpToDate
    BY <1>0, <1>2, NextInOrder DEF UpToDate
<1>3. CASE OutOfDate \/ TooWeak \/ ReadSource \/ Compile
    BY <1>0, <1>3, SameOrder
    DEF OutOfDate, TooWeak, ReadSource, Compile, Continue, InOrder, Busy
<1>4. CASE ReadHeader
  <2>0. pc \in Busy /\ todo # <<>> /\ pc # "idle" /\ goal' = goal
    BY <1>0, <1>4 DEF ReadHeader, Busy, InOrder
  <2>1. CASE Errors
    BY <1>0, <2>0, <2>1 DEF Errors, InOrder, Busy
  <2>2. CASE NextModule
    BY <1>0, <2>0, <2>2, NextInOrder
  <2>3. CASE Continue("compile")
    BY <1>0, <2>0, <2>3, SameOrder DEF Continue
  <2> QED
    BY <1>4, <2>1, <2>2, <2>3 DEF ReadHeader
<1>5. CASE CompileFails \/ WriteFails
    BY <1>0, <1>5 DEF CompileFails, WriteFails, Errors, InOrder, Busy
<1>6. CASE WriteTTC
  <2>1. pc \in Busy /\ todo # <<>> /\ pc # "idle" /\ goal' = goal /\ NextModule
    BY <1>0, <1>6 DEF WriteTTC, Busy, InOrder
  <2> QED
    BY <1>0, <2>1, NextInOrder
<1>7. CASE Finish \/ Crash
    BY <1>0, <1>7 DEF Finish, Crash, InOrder, Busy
<1>8. CASE Edit \/ Tick \/ UNCHANGED vars
  <2>1. UNCHANGED <<pc, goal, todo, result>>
    BY <1>8 DEF Edit, Tick, vars
  <2> QED
    BY <1>0, <2>1 DEF InOrder, Sequence
<1> QED
    BY <1>1, <1>2, <1>3, <1>4, <1>5, <1>6, <1>7, <1>8 DEF Next

\* What was read stays what the source has, unless it is edited.
LEMMA ReadingNext ==
    ASSUME IInv, [Next]_vars
    PROVE  Reading'
<1>0. Reading /\ InOrder
    BY DEF IInv
<1>1. CASE Start \/ UpToDate \/ OutOfDate \/ TooWeak \/ Finish
  <2>1. pc \notin HasRead /\ pc' \notin HasRead
    BY <1>1 DEF Start, UpToDate, OutOfDate, TooWeak, Finish, NextModule, Continue, HasRead
  <2>2. read' = <<>>
    BY <1>0, <1>1, <2>1
    DEF Start, UpToDate, OutOfDate, TooWeak, Finish, NextModule, Forget, Reading
  <2> QED
    BY <2>1, <2>2 DEF Reading
<1>2. CASE ReadSource
  <2>1. read' = [text |-> src[Head(todo)].text, raced |-> FALSE] /\ todo' = todo /\ src' = src
    BY <1>2 DEF ReadSource, Continue
  <2>2. Head(todo) \in Module
    BY <1>2 DEF IInv, Typed, InOrder, ReadSource, Busy
  <2>3. src[Head(todo)].text \in Text
    BY <2>2, FileFacts DEF IInv
  <2>4. pc' \in HasRead
    BY <1>2 DEF ReadSource, Continue, HasRead
  <2> QED
    BY <2>1, <2>3, <2>4 DEF Reading
<1>3. CASE ReadHeader \/ CompileFails \/ Compile
  <2>1. pc \in HasRead /\ src' = src /\ touched' = touched
    BY <1>3 DEF ReadHeader, CompileFails, Compile, HasRead
  <2>2. \/ pc' \notin HasRead /\ read' = <<>>
        \/ pc' \in HasRead /\ read' = read /\ todo' = todo
    BY <1>3 DEF ReadHeader, CompileFails, Compile, NextModule, Errors, Forget, Continue, HasRead
  <2> QED
    BY <1>0, <2>1, <2>2 DEF Reading
<1>4. CASE WriteTTC \/ WriteFails \/ Crash
    BY <1>4 DEF WriteTTC, WriteFails, Crash, NextModule, Errors, Forget, HasRead, Reading
<1>5. CASE Edit
  <2>1. PICK edit \in Edits :
          /\ src' = [src EXCEPT ![edit[1]] = [text |-> edit[2], time |-> clock]]
          /\ touched' = touched \cup {edit[1]}
          /\ read' = IF read # <<>> /\ Head(todo) = edit[1]
                     THEN [read EXCEPT !.raced = TRUE] ELSE read
    BY <1>5 DEF Edit
  <2>2. pc' = pc /\ todo' = todo
    BY <1>5 DEF Edit
  <2>3. CASE pc \notin HasRead
    BY <1>0, <2>1, <2>2, <2>3 DEF Reading
  <2>4. CASE pc \in HasRead
    <3>1. /\ read = [text |-> read.text, raced |-> read.raced]
          /\ read.text \in Text /\ read.raced \in BOOLEAN
          /\ read.text = src[Head(todo)].text \/ read.raced
          /\ read.raced => Head(todo) \in touched
      BY <1>0, <2>4 DEF Reading
    <3>2. read # <<>>
      <4>1. DOMAIN read = {"text", "raced"} /\ DOMAIN <<>> = {}
        BY <3>1
      <4> QED
        BY <4>1
    <3>3. Head(todo) \in Module
      BY <2>4 DEF IInv, Typed, InOrder, HasRead, Busy
    <3>4. CASE Head(todo) = edit[1]
      <4>1. read' = [text |-> read.text, raced |-> TRUE]
        BY <2>1, <3>1, <3>2, <3>4
      <4>2. /\ read' = [text |-> read'.text, raced |-> read'.raced]
            /\ read'.text \in Text /\ read'.raced = TRUE
        BY <3>1, <4>1
      <4>3. Head(todo') \in touched'
        BY <2>1, <2>2, <3>4
      <4>4. pc' \in HasRead
        BY <2>2, <2>4
      <4> HIDE DEF HasRead
      <4> QED
        BY <4>2, <4>3, <4>4 DEF Reading
    <3>5. CASE Head(todo) # edit[1]
      <4>1. read' = read /\ src'[Head(todo)] = src[Head(todo)]
        BY <2>1, <3>3, <3>5 DEF IInv, Typed
      <4> QED
        BY <2>1, <2>2, <2>4, <3>1, <4>1 DEF Reading
    <3> QED
      BY <3>4, <3>5
  <2> QED
    BY <2>3, <2>4
<1>6. CASE Tick
  <2>1. pc' = pc /\ todo' = todo /\ read' = read /\ touched' = touched
    BY <1>6 DEF Tick
  <2>2. pc \in HasRead => src'[Head(todo)].text = src[Head(todo)].text
    BY <1>6, TickFacts DEF IInv, Typed, InOrder, HasRead, Busy
  <2> QED
    BY <1>0, <2>1, <2>2 DEF Reading
<1>7. CASE UNCHANGED vars
    BY <1>0, <1>7 DEF vars, Reading
<1> QED
    BY <1>1, <1>2, <1>3, <1>4, <1>5, <1>6, <1>7 DEF Next

\* The reason to visit a module is not lost until it is compiled.
LEMMA AskedNext ==
    ASSUME IInv, [Next]_vars
    PROVE  Asked'
<1>0. Asked /\ InOrder /\ Typed /\ Clocked
    BY DEF IInv
<1> SUFFICES ASSUME pc' \in {"read", "header"}
             PROVE  NeedsBuildingTime(Head(todo))'
    BY DEF Asked
<1>1. ASSUME NEW m \in Module, m = Head(todo)',
             \/ src'[m].time >= ttc'[m].time
             \/ \E i \in Deps(m) : ttc'[i].time >= ttc'[m].time
      PROVE  NeedsBuildingTime(Head(todo))'
    BY <1>1 DEF NeedsBuildingTime, IsTTCOutdated
<1>2. ASSUME NEW m \in Module, NeedsBuildingTime(m)
      PROVE  \/ src[m].time >= ttc[m].time
             \/ \E i \in Deps(m) : ttc[i].time >= ttc[m].time
    BY <1>2 DEF NeedsBuildingTime, IsTTCOutdated
<1>3. CASE todo = <<>> \/ pc' # pc \/ todo' # todo
  <2>1. OutOfDate \/ TooWeak \/ ReadSource
    BY <1>0, <1>3
    DEF Next, Start, UpToDate, ReadHeader, Compile, CompileFails, WriteTTC, WriteFails,
        Finish, Crash, Edit, Tick, NextModule, Errors, Continue, vars, InOrder, Busy
  <2>2. todo # <<>> /\ todo' = todo /\ Head(todo) \in Module
    BY <1>0, <2>1 DEF OutOfDate, TooWeak, ReadSource, Continue, InOrder, Busy, Typed
  <2>3. CASE OutOfDate
    <3>1. ~Exists(Head(todo)) => ttc[Head(todo)].time = 0
      BY <1>0, <2>2, FileFacts
    <3>2. src[Head(todo)].time \in Nat
      BY <1>0, <2>2, FileFacts
    <3>3. ttc' = ttc /\ src' = src
      BY <2>3 DEF OutOfDate
    <3> QED
      BY <1>1, <1>2, <2>2, <2>3, <3>1, <3>2, <3>3 DEF OutOfDate
  <2>4. CASE TooWeak
    <3>1. ttc'[Head(todo)].time = 0 /\ src'[Head(todo)].time \in Nat
      BY <1>0, <2>2, <2>4, TooWeakFacts, FileFacts DEF IInv, NoTTC, TooWeak
    <3> QED
      BY <1>1, <2>2, <3>1
  <2>5. CASE ReadSource
    BY <1>0, <2>2, <2>5 DEF ReadSource, Asked, NeedsBuildingTime, IsTTCOutdated
  <2> QED
    BY <2>1, <2>3, <2>4, <2>5
<1>4. CASE todo # <<>> /\ pc' = pc /\ todo' = todo
  <2>0. PICK m : m = Head(todo)
    OBVIOUS
  <2>1. m \in Module /\ Head(todo)' = m /\ Deps(m) \subseteq Module
    BY <1>0, <1>4, <2>0, Graphs DEF Typed
  <2>2. \/ src[m].time >= ttc[m].time
        \/ \E i \in Deps(m) : ttc[i].time >= ttc[m].time
    BY <1>0, <1>2, <1>4, <2>0, <2>1 DEF Asked
  <2>3. Quiet \/ Edit \/ Tick
    BY <1>4, Kinds DEF IInv, Writes, TooWeak
  <2>4. CASE Quiet
    BY <1>1, <2>1, <2>2, <2>4 DEF Quiet
  <2>5. CASE Edit
    <3>1. ttc' = ttc /\ (src'[m].time = clock \/ src'[m].time = src[m].time)
      BY <1>0, <2>1, <2>5, TreeAssumption DEF Edit, Typed
    <3>2. clock >= ttc[m].time
      BY <1>0, <2>1, FileFacts DEF Clocked, Typed
    <3> QED
      BY <1>1, <2>1, <2>2, <3>1, <3>2
  <2>6. CASE Tick
    <3>1. InStep
      BY <1>0, <2>6, TickFacts
    <3>2. \A n \in Module : /\ src[n].time \in Nat /\ ttc[n].time \in Nat
                            /\ src'[n].time \in Nat /\ ttc'[n].time \in Nat
      <4>1. \A n \in Module : src[n].time \in Nat /\ ttc[n].time \in Nat
        BY <1>0, FileFacts
      <4>2. \A n \in Module : src'[n].time \in Nat
        BY FilesTyped
      <4>3. \A n \in Module : ttc'[n].time \in Nat
        <5> TAKE n \in Module
        <5>1. ttc'[n] = NoTTC \/ IsTTC(n, ttc'[n])
          BY FilesTyped
        <5> QED
          BY <5>1 DEF NoTTC, IsTTC
      <4> QED
        BY <4>1, <4>2, <4>3
    <3>3. \A n \in Module : src'[n].time >= ttc'[n].time <=> src[n].time >= ttc[n].time
      BY <3>1, <3>2 DEF InStep
    <3>4. \A n, k \in Module : ttc'[n].time >= ttc'[k].time <=> ttc[n].time >= ttc[k].time
      BY <3>1, <3>2 DEF InStep
    <3> QED
      BY <1>1, <2>1, <2>2, <3>3, <3>4
  <2> QED
    BY <2>3, <2>4, <2>5, <2>6
<1> QED
    BY <1>3, <1>4

\* The hashes that were read stay true until the file is written.
LEMMA HashingNext ==
    ASSUME IInv, [Next]_vars
    PROVE  Hashing'
<1>0. Hashing /\ InOrder /\ Typed /\ Clocked /\ Reading
    BY DEF IInv
<1>1. CASE ReadHeader
  <2>1. CASE pc' # "compile"
    <3>1. pc' # "write"
      BY <1>1 DEF ReadHeader, Errors, NextModule, Continue
    <3> QED
      BY <2>1, <3>1 DEF Hashing
  <2>2. CASE pc' = "compile"
    <3>1. /\ hashes' = [i \in Deps(Head(todo)) |-> ReadHash(i)]
          /\ \/ IsTTCOutdated(Head(todo), {src[Head(todo)].time})
             \/ hashes' # ReadImportHashes(Head(todo))
          /\ todo' = todo /\ src' = src /\ ttc' = ttc
      BY <1>1, <2>2 DEF ReadHeader, Errors, NextModule, Continue
    <3>2. ASSUME NEW m, m = Head(todo)
          PROVE  /\ [i \in Deps(m) |-> ReadHash(i)]' = [i \in Deps(m) |-> ReadHash(i)]
                 /\ ReadImportHashes(m)' = ReadImportHashes(m)
                 /\ IsTTCOutdated(m, {src[m].time})' <=> IsTTCOutdated(m, {src[m].time})
                 /\ Head(todo)' = m
      BY <3>1, <3>2 DEF ReadHash, ReadImportHashes, HasHeader, IsTTCOutdated
    <3> QED
      BY <2>2, <3>1, <3>2 DEF Hashing
  <2> QED
    BY <2>1, <2>2
<1>2. CASE Compile
  <2>0. Writes
    BY <1>2 DEF Compile, Writes, Torns
  <2>1. PICK m : m = Head(todo)
    OBVIOUS
  <2>2. /\ m \in Module /\ m \notin Built /\ Deps(m) \subseteq Built
        /\ Built \subseteq Module /\ Closed(Sources, Built) /\ Kept(Built)
        /\ hashes = [i \in Deps(m) |-> ReadHash(i)]
        /\ \A i \in Deps(m) : ReadHash(i)' = ReadHash(i)
    BY <2>0, <2>1, WritesFacts
  <2>3. /\ pc' = "write" /\ Head(todo') = m /\ hashes' = hashes /\ read' = read
        /\ goal' = goal /\ Checked(m)
        /\ ttc' = [ttc EXCEPT ![m] = TTCFile(m, "head")]
    BY <1>2, <2>1 DEF Compile, Continue
  <2>4. hashes' = [i \in Deps(m) |-> ReadHash(i)']
    BY <2>2, <2>3
  <2>5. Checked(m)'
    <3>1. ASSUME NEW i \in Deps(m), NEW n \in Brings[i] PROVE Whole(n)'
      <4>1. n \in Built
        BY <2>2, BringsClosed
      <4>2. Whole(n)
        BY <2>3 DEF Checked
      <4> QED
        BY <2>2, <4>1, <4>2, Frame DEF Kept
    <3> QED
      BY <2>3, <3>1 DEF Checked
  <2>6. ~Whole(m)'
    <3>1. ttc'[m] = TTCFile(m, "head")
      BY <1>0, <2>2, <2>3 DEF Typed
    <3>2. ttc'[m].torn = "head"
      BY <3>1 DEF TTCFile
    <3> QED
      BY <3>2 DEF Whole
  <2> QED
    BY <2>3, <2>4, <2>5, <2>6 DEF Hashing
<1>3. CASE Start \/ UpToDate \/ OutOfDate \/ TooWeak \/ ReadSource \/ CompileFails
           \/ WriteTTC \/ WriteFails \/ Finish \/ Crash
  <2>1. pc' \notin {"compile", "write"}
    BY <1>3 DEF Start, UpToDate, OutOfDate, TooWeak, ReadSource, CompileFails,
                WriteTTC, WriteFails, Finish, Crash, Errors, NextModule, Continue
  <2> QED
    BY <2>1 DEF Hashing
<1>4. CASE Edit \/ Tick \/ UNCHANGED vars
  <2>0. PICK m : m = Head(todo)
    OBVIOUS
  <2>1. /\ pc' = pc /\ Head(todo') = m /\ hashes' = hashes /\ goal' = goal
        /\ read' # read => read' = [read EXCEPT !.raced = TRUE]
    BY <1>4, <2>0 DEF Edit, Tick, vars
  <2> SUFFICES ASSUME pc \in {"compile", "write"} PROVE Hashing'
    BY <2>1 DEF Hashing
  <2>2. m \in Module
    BY <1>0, <2>0 DEF InOrder, Typed, Busy
  <2>3. \A n \in Module : Alike(n)
    BY <1>0, <1>4, TickFacts DEF Edit, vars, Alike
  <2>4. Closed(Sources, Module)
    BY Graphs DEF Closed
  <2>5. \A n \in Module : /\ ReadHash(n)' = ReadHash(n)
                          /\ Deps(n) \subseteq Module /\ Brings[n] \subseteq Module
                          /\ Whole(n)' <=> Whole(n)
                          /\ ReadImportHashes(n)' = ReadImportHashes(n)
    BY <2>3, <2>4, Frame
  <2>6. [i \in Deps(m) |-> ReadHash(i)'] = [i \in Deps(m) |-> ReadHash(i)]
    BY <2>2, <2>5
  <2>7. Checked(m) => Checked(m)'
    <3>1. read'.text = read.text
      BY <1>0, <2>1 DEF Reading, HasRead
    <3>2. \A i \in Deps(m) : i \in Module /\ \A n \in Brings[i] : Whole(n)' <=> Whole(n)
      BY <2>2, <2>5
    <3> QED
      BY <2>1, <3>1, <3>2 DEF Checked
  <2>8. src[m].time >= ttc[m].time => src'[m].time >= ttc'[m].time
    <3>1. CASE UNCHANGED vars
      BY <3>1 DEF vars
    <3>2. CASE Edit
      <4>1. ttc' = ttc /\ (src'[m].time = clock \/ src'[m].time = src[m].time)
        BY <1>0, <2>2, <3>2, TreeAssumption DEF Edit, Typed
      <4>2. clock >= ttc[m].time
        BY <1>0, <2>2, FileFacts DEF Clocked, Typed
      <4> QED
        BY <4>1, <4>2
    <3>3. CASE Tick
      <4>1. src'[m].time < ttc'[m].time <=> src[m].time < ttc[m].time
        BY <1>0, <2>2, <3>3, TickFacts DEF InStep
      <4>2. src'[m].time \in Nat
        BY <2>2, FilesTyped
      <4>3. ttc'[m] = NoTTC \/ IsTTC(m, ttc'[m])
        BY <2>2, FilesTyped
      <4>4. ttc'[m].time \in Nat
        BY <4>3 DEF NoTTC, IsTTC
      <4>5. src[m].time \in Nat /\ ttc[m].time \in Nat
        BY <1>0, <2>2, FileFacts
      <4> QED
        BY <4>1, <4>2, <4>4, <4>5
    <3> QED
      BY <1>4, <3>1, <3>2, <3>3
  <2>9. IsTTCOutdated(m, {src[m].time}) => IsTTCOutdated(m, {src[m].time})'
    BY <2>8 DEF IsTTCOutdated
  <2> QED
    BY <1>0, <2>0, <2>1, <2>2, <2>5, <2>6, <2>7, <2>9 DEF Hashing
<1> QED
    BY <1>1, <1>2, <1>3, <1>4 DEF Next

\* A module that is skipped has what its imports offer.
LEMMA SkippedAgrees ==
    ASSUME IInv, pc # "idle", todo # <<>>, HasHeader(Head(todo)),
           \A i \in Deps(Head(todo)) :
              ttc[Head(todo)].imps[i] = ReadHash(i)
    PROVE  Agrees(Head(todo))
<1> DEFINE m == Head(todo)
<1>1. m \in Module /\ Deps(m) \subseteq Built /\ Deps(m) \subseteq Module
    BY BuiltFacts, Graphs DEF IInv
<1> SUFFICES ASSUME NEW i \in Deps(m)
             PROVE  HasHeader(i) /\ ttc[m].saw[i] = Exports(i)
    BY DEF Agrees
<1>2. Exists(m) /\ IsTTC(m, ttc[m])
    BY <1>1, FileFacts DEF IInv
<1>3. HasHeader(i)
  <2>1. ttc[m].imps[i] # NoHash
    BY <1>2 DEF IsTTC
  <2> QED
    BY <2>1 DEF ReadHash
<1>4. Agrees(i)
    BY <1>1, <1>3 DEF IInv, Progress, Settled
<1>5. Typed /\ Remembered /\ ttc[m].imps[i] = ReadHash(i)
    BY DEF IInv
<1> QED
    BY <1>1, <1>2, <1>3, <1>4, <1>5, HashTells

\* A module that the build passes is settled.
LEMMA SkippedIsSettled ==
    ASSUME IInv, UpToDate \/ ReadHeader, NextModule
    PROVE  Settled(Head(todo))
<1> DEFINE m == Head(todo)
<1>0. Typed /\ Fresh /\ Timely /\ Asked
    BY DEF IInv
<1>1. pc # "idle" /\ todo # <<>>
    BY DEF UpToDate, ReadHeader, IInv, InOrder, Busy
<1>2. m \in Module /\ Deps(m) \subseteq Built /\ Deps(m) \subseteq Module
    BY <1>1, BuiltFacts, Graphs DEF IInv
<1>3. /\ src[m].time \in Nat /\ ttc[m].time \in Nat
      /\ \A i \in Deps(m) : ttc[i].time \in Nat /\ Exists(i)
      /\ ~Exists(m) => ttc[m].time = 0
      /\ HasHeader(m) => Exists(m) /\ ttc[m].req \in Nat
  <2>1. \A i \in Deps(m) : Exists(i)
    BY <1>1, <1>2 DEF IInv, Progress, Settled
  <2> QED
    BY <1>0, <1>2, <2>1, FileFacts DEF IsTTC
<1>4. CASE UpToDate
  <2>1. /\ Exists(m)
        /\ ~(src[m].time >= ttc[m].time)
        /\ \A i \in Deps(m) : ~(ttc[i].time >= ttc[m].time)
        /\ goal.main = m => ~(HasHeader(m) /\ ttc[m].req < goal.req)
    BY <1>4 DEF UpToDate, NeedsBuildingTime, IsTTCOutdated, CheckTotalReq
  <2>2. src[m].time < ttc[m].time /\ \A i \in Deps(m) : ttc[i].time < ttc[m].time
    BY <1>3, <2>1
  <2>3. ttc[m].from = src[m].text \/ ttc[m].raced
    BY <1>0, <1>2, <2>2 DEF Fresh
  <2>4. HasHeader(m) => Agrees(m)
    <3>1. HasHeader(m) => \A i \in Deps(m) : ttc[m].imps[i] = ReadHash(i)
      BY <1>0, <1>2, <1>3, <2>2 DEF Timely
    <3> QED
      BY <1>1, <3>1, SkippedAgrees
  <2>5. goal.main = m => ~HasHeader(m) \/ ttc[m].req >= goal.req
    BY <1>0, <1>3, <2>1 DEF Typed
  <2> QED
    BY <2>1, <2>3, <2>4, <2>5 DEF Settled
<1>5. CASE ReadHeader
  <2>1. /\ ~IsTTCOutdated(m, {src[m].time})
        /\ [i \in Deps(m) |-> ReadHash(i)] = ReadImportHashes(m)
        /\ pc = "header"
    BY <1>5 DEF ReadHeader, Errors, NextModule, Continue
  <2>2. src[m].time < ttc[m].time
    BY <1>3, <2>1 DEF IsTTCOutdated
  <2>3. Exists(m)
    BY <1>3, <2>2
  <2>4. ttc[m].from = src[m].text \/ ttc[m].raced
    BY <1>0, <1>2, <2>2 DEF Fresh
  <2>5. HasHeader(m) => Agrees(m)
    <3>1. HasHeader(m) => [i \in Deps(m) |-> ReadHash(i)] = ttc[m].imps
      BY <2>1 DEF ReadImportHashes
    <3>2. HasHeader(m) => \A i \in Deps(m) : ttc[m].imps[i] = ReadHash(i)
      BY <3>1
    <3> QED
      BY <1>1, <3>2, SkippedAgrees
  <2>6. \E i \in Deps(m) : ttc[i].time >= ttc[m].time
    <3>1. NeedsBuildingTime(m)
      BY <1>0, <2>1 DEF Asked
    <3>2. ~(src[m].time >= ttc[m].time)
      BY <1>3, <2>2
    <3> QED
      BY <3>1, <3>2 DEF NeedsBuildingTime, IsTTCOutdated
  <2> QED
    BY <2>3, <2>4, <2>5, <2>6 DEF Settled
<1> QED
    BY <1>4, <1>5

\* A module that was written is settled.
LEMMA WrittenIsSettled ==
    ASSUME IInv, WriteTTC, NEW m, m = Head(todo)
    PROVE  Settled(m)'
<1>1. Writes
    BY DEF WriteTTC, Writes, Torns, IInv, Hashing
<1>2. /\ m \in Module /\ ttc'[m].torn # "gone"
      /\ hashes = [i \in Deps(m) |-> ReadHash(i)]
      /\ \A i \in Deps(m) : /\ HasHeader(i)
                            /\ ReadHash(i)' = ReadHash(i)
                            /\ Exports(i)' = Exports(i)
      /\ Built \subseteq Module /\ Closed(Sources, Built) /\ Kept(Built)
      /\ Deps(m) \subseteq Built
    BY <1>1, WritesFacts
<1>3. ttc'[m] = TTCFile(m, "no")
    BY <1>2 DEF WriteTTC, IInv, Typed
<1>4. /\ ttc'[m].from = read.text /\ ttc'[m].raced = read.raced
      /\ ttc'[m].imps = hashes /\ ttc'[m].saw = [i \in Deps(m) |-> Exports(i)]
      /\ ttc'[m].req = Requirement(read.text)
    BY <1>3 DEF TTCFile
<1>5. \A i \in Deps(m) : HasHeader(i)'
    BY <1>2, Frame DEF Kept
<1>6. Agrees(m)'
    BY <1>2, <1>4, <1>5 DEF Agrees
<1>7. ttc'[m].from = src'[m].text \/ ttc'[m].raced
    BY <1>4 DEF IInv, Reading, HasRead, WriteTTC
<1>8. goal' = goal /\ Requirement(ttc[m].from)' = Requirement(read.text)
    BY <1>4 DEF WriteTTC, Requirement
<1>9. (ttc[m].req >= goal.req \/ Requirement(ttc[m].from) < goal.req)'
  <2>1. read.text \in Text /\ goal.req \in Nat
    BY DEF IInv, Typed, Reading, HasRead, WriteTTC
  <2>2. Requirement(read.text) \in Nat
    BY <2>1 DEF Requirement, Text
  <2> QED
    BY <1>4, <1>8, <2>1, <2>2
<1> QED
    BY <1>2, <1>6, <1>7, <1>9 DEF Settled, Exists

\* What was dealt with stays settled, and the next module becomes so.
LEMMA ProgressNext ==
    ASSUME IInv, [Next]_vars
    PROVE  Progress'
<1>0. Typed /\ InOrder /\ Progress
    BY DEF IInv
<1>1. Typed'
    BY TypedNext
<1>2. ASSUME Kept(Module), touched' = touched \/ Edit, goal' = goal,
             NEW m \in Module, Settled(m)
      PROVE  Settled(m)'
  <2>1. touched \subseteq touched'
    BY <1>2 DEF Edit
  <2> QED
    BY <1>0, <1>1, <1>2, <2>1, KeptNext, SettledKept
<1>3. ASSUME Quiet PROVE Kept(Module)
    BY <1>3 DEF Quiet, Kept, Alike
<1>4. ASSUME pc # "idle" PROVE \A m \in Built : Settled(m)'
  <2>1. goal' = goal /\ touched \subseteq touched'
    BY <1>4 DEF Next, Start, UpToDate, OutOfDate, TooWeak, ReadSource, ReadHeader, Compile,
                CompileFails, WriteTTC, WriteFails, Finish, Crash, Edit, Tick, vars
  <2>2. \A m \in Built : Settled(m)
    BY <1>0, <1>4 DEF Progress
  <2> QED
    BY <1>0, <1>1, <1>4, <2>1, <2>2, KeptNext, SettledKept
<1>5. ASSUME pc' # "idle" PROVE \A m \in Built' : Settled(m)'
  <2>1. CASE Start
    <3>1. todo' = Sequence'
      BY <2>1 DEF Start, Sequence
    <3>2. Len(todo') \in Nat
      BY <1>1 DEF Typed
    <3>3. Built' = {}
      BY <3>1, <3>2 DEF Built
    <3> QED
      BY <3>3
  <2>2. CASE UpToDate \/ (ReadHeader /\ NextModule)
    <3>0. PICK m : m = Head(todo)
      OBVIOUS
    <3>1. pc # "idle" /\ todo # <<>> /\ NextModule /\ goal' = goal /\ Quiet /\ touched' = touched
      BY <1>0, <2>2 DEF UpToDate, ReadHeader, Quiet, InOrder, Busy
    <3>2. Built' = Built \cup {m} /\ m \in Module
      BY <1>0, <3>0, <3>1, NextInOrder DEF Typed
    <3>3. Settled(m)
      BY <2>2, <3>0, <3>1, SkippedIsSettled
    <3>4. Settled(m)'
      BY <1>2, <1>3, <3>1, <3>2, <3>3
    <3> QED
      BY <1>4, <3>1, <3>2, <3>4
  <2>3. CASE WriteTTC
    <3>0. PICK m : m = Head(todo)
      OBVIOUS
    <3>1. pc # "idle" /\ todo # <<>> /\ NextModule /\ goal' = goal
      BY <1>0, <2>3 DEF WriteTTC, InOrder, Busy
    <3>2. Built' = Built \cup {m}
      BY <1>0, <3>0, <3>1, NextInOrder
    <3>3. Settled(m)'
      BY <2>3, <3>0, WrittenIsSettled
    <3> QED
      BY <1>4, <3>1, <3>2, <3>3
  <2>4. CASE OutOfDate \/ TooWeak \/ ReadSource \/ (ReadHeader /\ ~NextModule) \/ Compile
             \/ Edit \/ Tick \/ UNCHANGED vars
    <3>1. pc # "idle" /\ todo' = todo /\ goal' = goal
      BY <1>5, <2>4
      DEF OutOfDate, TooWeak, ReadSource, ReadHeader, Compile, Edit, Tick, vars, Errors, Continue
    <3>2. Built' = Built
      BY <3>1 DEF Built, Sequence
    <3> QED
      BY <1>4, <3>1, <3>2
  <2>5. CASE CompileFails \/ WriteFails \/ Finish \/ Crash
    BY <1>5, <2>5 DEF CompileFails, WriteFails, Finish, Crash, Errors
  <2> QED
    BY <2>1, <2>2, <2>3, <2>4, <2>5 DEF Next
<1>6. ASSUME result' = "ok"
      PROVE  \A m \in Loaded' : Settled(m)' /\ (goal'.main # "none" => Whole(m)')
  <2>1. CASE Finish
    <3>1. pc # "idle" /\ todo = <<>> /\ goal' = goal /\ ttc' = ttc
      BY <2>1 DEF Finish
    <3>2. Loaded' = Built
      BY <1>0, <3>1, BuiltFacts DEF Loaded
    <3>3. goal'.main # "none" => \A m \in Loaded' : Whole(m)'
      <4>1. Loaded' = Loaded
        BY <3>1 DEF Loaded
      <4>2. goal.main # "none" => \A m \in Loaded : Whole(m)
        BY <1>6, <2>1 DEF Finish
      <4> QED
        BY <3>1, <4>1, <4>2 DEF Whole
    <3> QED
      BY <1>4, <3>1, <3>2, <3>3
  <2>2. CASE ~Finish
    <3>1. result = "ok"
      BY <1>6, <2>2 DEF Next, Start, UpToDate, OutOfDate, TooWeak, ReadSource, ReadHeader, Compile,
                CompileFails, WriteTTC, WriteFails, Crash, Edit, Tick, vars, Errors, NextModule,
                Continue
    <3>2. pc = "idle" /\ goal \in Goal
      BY <1>0, <3>1 DEF InOrder
    <3>3. Edit \/ Tick \/ UNCHANGED vars
      BY <1>6, <2>2, <3>2 DEF Next, Start, UpToDate, OutOfDate, TooWeak, ReadSource, ReadHeader,
                Compile, CompileFails, WriteTTC, WriteFails, Crash
    <3>4. goal' = goal /\ (touched' = touched \/ Edit) /\ Loaded' = Loaded
      BY <3>3 DEF Edit, Tick, vars, Loaded
    <3>5. Kept(Module) /\ Loaded \subseteq Module
      BY <3>2, KeptNext, SequenceFacts
    <3>6. \A m \in Loaded : Settled(m) /\ (goal.main # "none" => Whole(m))
      BY <1>0, <3>1 DEF Progress
    <3>7. \A m \in Module : Whole(m)' <=> Whole(m)
      BY <3>5, KeptNext, Frame DEF Kept
    <3> QED
      BY <1>2, <3>4, <3>5, <3>6, <3>7
  <2> QED
    BY <2>1, <2>2
<1> QED
    BY <1>5, <1>6 DEF Progress

-----------------------------------------------------------------------------
(***************************************************************************)
(* The invariant holds                                                     *)
(***************************************************************************)

\* The invariant holds at first,
LEMMA InitIInv == Init => IInv
<1> SUFFICES ASSUME Init PROVE IInv
    OBVIOUS
<1>1. \A m \in Module : /\ ttc[m] = NoTTC /\ ~Exists(m) /\ ~HasHeader(m)
                        /\ src[m] = [text |-> FirstText, time |-> 1]
                        /\ ttc[m].time = 0
    BY DEF Init, Exists, HasHeader, NoTTC
<1>2. Typed
  <2>1. src \in [Module -> [text : Text, time : Nat]]
    BY TreeAssumption DEF Init
  <2>2. ttc = [m \in Module |-> ttc[m]]
    BY DEF Init
  <2> QED
    BY <1>1, <2>1, <2>2 DEF Init, Typed
<1>3. Clocked /\ Fresh
    BY <1>1 DEF Init, Clocked, Fresh
<1>4. InOrder /\ Reading /\ Asked /\ Hashing /\ Progress
    BY DEF Init, InOrder, Reading, Asked, Hashing, Progress, Busy, HasRead
<1>5. Timely
    BY <1>1 DEF Timely
<1>6. Remembered
  <2>1. IsRecord({}) /\ Recorded({})
    BY <1>1 DEF IsRecord, Recorded
  <2> QED
    BY <2>1 DEF Remembered
<1> QED
    BY <1>2, <1>3, <1>4, <1>5, <1>6 DEF IInv

\* is kept by every step,
LEMMA NextIInv == IInv /\ [Next]_vars => IInv'
    BY TypedNext, FilesTyped, InOrderNext, FreshNext, ReadingNext, AskedNext, HashingNext,
       TimelyNext, ProgressNext, RememberedNext DEF IInv

\* and so always holds.
LEMMA AlwaysIInv == Spec => []IInv
    BY InitIInv, NextIInv, PTL DEF Spec

-----------------------------------------------------------------------------
(***************************************************************************)
(* What a build that ends well promises                                    *)
(***************************************************************************)

\* The state of the sources, the files and the build is always well formed.
THEOREM TypedAlways == Spec => []Typed
    BY AlwaysIInv, PTL DEF IInv

\* When a build ends well what it loads was compiled from the sources as they
\* are, but for edits since the build began and edits that raced with it.
THEOREM Currency == Spec => []LoadedIsCurrent
<1>1. IInv => LoadedIsCurrent
    BY DEF IInv, Progress, Settled, LoadedIsCurrent
<1> QED
    BY <1>1, AlwaysIInv, PTL

\* and every module was compiled against what its imports offer.
THEOREM Agreement == Spec => []ImportsAgree
<1>1. IInv => ImportsAgree
  <2> SUFFICES ASSUME IInv, result = "ok", NEW m \in Loaded, Whole(m), NEW i \in Deps(m)
               PROVE  ttc[m].saw[i] = Exports(i)
    BY DEF ImportsAgree
  <2>1. goal \in Goal
    BY DEF IInv, InOrder
  <2>2. m \in Module
    BY <2>1, SequenceFacts
  <2>3. HasHeader(m)
    BY <2>2, FileFacts DEF IInv
  <2> QED
    BY <2>3 DEF IInv, Progress, Settled, Agrees
<1> QED
    BY <1>1, AlwaysIInv, PTL

\* A main file that loads was checked with the totality that was asked for,
\* except where its own %default asks for less and where an import is no older.
THEOREM Totality == Spec => []TotalityHonoured
<1>1. IInv => TotalityHonoured
  <2> SUFFICES ASSUME IInv, result = "ok", goal.main # "none"
               PROVE  \/ ttc[goal.main].req >= goal.req
                      \/ Requirement(ttc[goal.main].from) < goal.req
                      \/ \E i \in Deps(goal.main) : ttc[i].time >= ttc[goal.main].time
    BY DEF TotalityHonoured
  <2>1. goal \in Goal
    BY DEF IInv, InOrder
  <2>2. goal.main \in Loaded /\ goal.main \in Module
    BY <2>1, SequenceFacts
  <2>3. Whole(goal.main) /\ Settled(goal.main)
    BY <2>2 DEF IInv, Progress
  <2>4. HasHeader(goal.main)
    BY <2>2, <2>3, FileFacts DEF IInv
  <2> QED
    BY <2>3, <2>4 DEF Settled
<1> QED
    BY <1>1, AlwaysIInv, PTL

-----------------------------------------------------------------------------
(***************************************************************************)
(* What a build that fails promises                                        *)
(***************************************************************************)

\* A module that was dealt with but cannot be loaded was torn.
LEMMA TornIsCause ==
    ASSUME IInv, pc # "idle", NEW m \in Built, ~Whole(m)
    PROVE  m \in Loaded /\ ttc[m].torn \in {"head", "tail"}
<1>1. m \in Loaded /\ m \in Module
    BY BuiltFacts DEF IInv
<1>2. Exists(m)
    BY DEF IInv, Progress, Settled
<1> QED
    BY <1>1, <1>2, FileFacts DEF IInv, Exists, Whole, Torns

\* A build that fails has a cause, and the cause stays.
LEMMA CauseNext ==
    ASSUME IInv, FailsForCause, [Next]_vars
    PROVE  FailsForCause'
<1>0. Typed /\ InOrder /\ Reading
    BY DEF IInv
<1> SUFFICES ASSUME result' = "errors"
             PROVE  \E m \in Loaded' : \/ m \in touched'
                                       \/ src'[m].text.passes < goal'.req
                                       \/ ttc'[m].torn \in {"head", "tail"}
    BY DEF FailsForCause
<1>1. CASE ReadHeader
  <2>1. pc # "idle" /\ todo # <<>> /\ result = "none"
    BY <1>0, <1>1 DEF ReadHeader, InOrder, Busy
  <2>2. \A i \in Deps(Head(todo)) : Exists(i)
    BY <1>0, <2>1, BuiltFacts DEF IInv, Progress, Settled
  <2> QED
    BY <1>1, <2>1, <2>2 DEF ReadHeader, NextModule, Continue
<1>2. CASE CompileFails
  <2>0. PICK m : m = Head(todo)
    OBVIOUS
  <2>1. /\ pc # "idle" /\ todo # <<>> /\ ~Checked(m) /\ UNCHANGED <<src, ttc, goal, touched>>
        /\ pc \in HasRead
    BY <1>0, <1>2, <2>0 DEF CompileFails, InOrder, Busy, HasRead
  <2>2. /\ m \in Loaded /\ m \in Module
        /\ Deps(m) \subseteq Built /\ Built \subseteq Module /\ Closed(Sources, Built)
    BY <1>0, <2>0, <2>1, BuiltFacts
  <2>3. Loaded' = Loaded
    BY <2>1 DEF Loaded
  <2>4. CASE \E i \in Deps(m) : \E n \in Brings[i] : ~Whole(n)
    <3>1. PICK i \in Deps(m) : \E n \in Brings[i] : ~Whole(n)
      BY <2>4
    <3>2. PICK n \in Brings[i] : ~Whole(n)
      BY <3>1
    <3>3. n \in Built
      BY <2>2, BringsClosed
    <3>4. n \in Loaded /\ ttc[n].torn \in {"head", "tail"}
      BY <2>1, <3>2, <3>3, TornIsCause
    <3> QED
      BY <2>1, <2>3, <3>4
  <2>5. CASE ~(read.text.passes >= goal.req)
    <3>1. read.text = src[m].text \/ m \in touched
      BY <1>0, <2>0, <2>1 DEF Reading
    <3>2. read.text \in Text /\ goal.req \in Nat
      BY <1>0, <2>1 DEF Reading, Typed
    <3>3. read.text.passes < goal.req
      BY <2>5, <3>2 DEF Text
    <3> QED
      BY <2>1, <2>2, <2>3, <3>1, <3>3
  <2> QED
    BY <2>1, <2>4, <2>5 DEF Checked
<1>3. CASE WriteFails
  <2>0. PICK m : m = Head(todo)
    OBVIOUS
  <2>1. pc # "idle" /\ todo # <<>> /\ goal' = goal
    BY <1>0, <1>3 DEF WriteFails, InOrder, Busy
  <2>2. m \in Loaded /\ m \in Module /\ Loaded' = Loaded
    BY <1>0, <2>0, <2>1, BuiltFacts DEF Loaded
  <2>3. PICK torn \in {"head", "tail"} : ttc' = [ttc EXCEPT ![m] = TTCFile(m, torn)]
    BY <1>3, <2>0 DEF WriteFails, Torn
  <2>4. ttc'[m] = TTCFile(m, torn)
    BY <1>0, <2>2, <2>3 DEF Typed
  <2>5. ttc'[m].torn \in {"head", "tail"}
    BY <2>4 DEF TTCFile
  <2> QED
    BY <2>2, <2>5
<1>4. CASE Finish
  <2>1. pc # "idle" /\ todo = <<>> /\ goal' = goal /\ ttc' = ttc
    BY <1>4 DEF Finish
  <2>2. PICK m \in Loaded : ~Whole(m)
    BY <1>4 DEF Finish
  <2>3. Loaded = Built /\ Loaded' = Loaded
    BY <1>0, <2>1, BuiltFacts DEF Loaded
  <2>4. ttc[m].torn \in {"head", "tail"}
    BY <2>1, <2>2, <2>3, TornIsCause
  <2> QED
    BY <2>1, <2>3, <2>4
<1>5. CASE ~(ReadHeader \/ CompileFails \/ WriteFails \/ Finish)
  <2>1. result = "errors"
    BY <1>5 DEF Next, Start, UpToDate, OutOfDate, TooWeak, ReadSource, Compile,
                WriteTTC, Crash, Edit, Tick, vars, NextModule, Continue
  <2>2. pc = "idle" /\ goal \in Goal
    BY <1>0, <2>1 DEF InOrder
  <2>3. Edit \/ Tick \/ UNCHANGED vars
    BY <1>5, <2>2 DEF Next, Start, UpToDate, OutOfDate, TooWeak, ReadSource, Compile, WriteTTC, Crash
  <2>4. goal' = goal /\ touched \subseteq touched' /\ Loaded' = Loaded /\ Loaded \subseteq Module
    BY <2>2, <2>3, SequenceFacts DEF Edit, Tick, vars, Loaded
  <2>5. PICK m \in Loaded : \/ m \in touched
                            \/ src[m].text.passes < goal.req
                            \/ ttc[m].torn \in {"head", "tail"}
    BY <2>1 DEF FailsForCause
  <2>6. Kept(Module)
    BY <2>2, KeptNext
  <2>7. ttc'[m].torn = ttc[m].torn /\ (src'[m].text = src[m].text \/ m \in touched')
    BY <2>4, <2>6 DEF Kept, Alike
  <2> QED
    BY <2>4, <2>5, <2>7
<1> QED
    BY <1>1, <1>2, <1>3, <1>4, <1>5

\* A build fails for a text that does not pass, a file that was torn, or an edit
\* that came between.
THEOREM Cause == Spec => []FailsForCause
<1>1. Init => FailsForCause
    BY DEF Init, FailsForCause
<1> QED
    BY <1>1, AlwaysIInv, CauseNext, PTL DEF Spec

-----------------------------------------------------------------------------
(***************************************************************************)
(* What a build need not do                                                *)
(***************************************************************************)

\* Where everything is current no file is truncated or removed, in any step of
\* a build.
THEOREM Stability == Spec => Stable
<1>1. ASSUME IInv, [Next]_vars, pc # "idle", Current
      PROVE  \A m \in Loaded : Whole(m)'
  <2>0. Typed /\ InOrder
    BY <1>1 DEF IInv
  <2>1. goal \in Goal /\ Loaded \subseteq Module
    BY <1>1, <2>0, SequenceFacts DEF InOrder
  <2>2. ASSUME \A m \in Module : Alike(m) PROVE \A m \in Loaded : Whole(m)'
    BY <1>1, <2>1, <2>2 DEF Current, Whole, Alike
  <2>3. CASE Quiet \/ Edit
    BY <2>2, <2>3 DEF Quiet, Edit, Alike
  <2>4. CASE Tick
    BY <1>1, <2>2, <2>4, TickFacts DEF IInv
  <2>5. CASE TooWeak
    <3>1. /\ todo # <<>> /\ Head(todo) \in Module
          /\ goal.main = Head(todo) /\ ttc[goal.main].req < goal.req
      BY <2>0, <2>5 DEF TooWeak, CheckTotalReq, Typed
    <3>2. goal.main # "none" /\ goal.main \in Loaded
      BY <2>1, <3>1, GoalAssumption, SequenceFacts
    <3>3. ttc[goal.main].req >= goal.req /\ Whole(goal.main)
      BY <1>1, <3>2 DEF Current
    <3>4. IsTTC(goal.main, ttc[goal.main])
      BY <2>0, <3>1, <3>3, FileFacts
    <3>5. ttc[goal.main].req \in Nat /\ goal.req \in Nat
      BY <2>0, <3>4 DEF IsTTC, Typed
    <3> QED
      BY <3>1, <3>3, <3>5
  <2>6. CASE Writes
    <3>0. PICK m : m = Head(todo)
      OBVIOUS
    <3>1. /\ todo # <<>> /\ m \in Module /\ Deps(m) \subseteq Built
          /\ hashes = [i \in Deps(m) |-> ReadHash(i)]
          /\ \A i \in Deps(m) : HasHeader(i) /\ Agrees(i)
      BY <1>1, <2>6, <3>0, WritesFacts
    <3>2. m \in Loaded
      BY <1>1, <2>0, <3>0, <3>1, BuiltFacts
    <3>3. /\ Whole(m) /\ src[m].time < ttc[m].time
          /\ \A i \in Deps(m) : ttc[m].saw[i] = Exports(i)
      BY <1>1, <3>2 DEF Current
    <3>4. HasHeader(m) /\ Exists(m) /\ IsTTC(m, ttc[m])
      BY <2>0, <3>1, <3>3, FileFacts
    <3>5. \A i \in Deps(m) : ttc[m].imps[i] = ReadHash(i)
      BY <1>1, <3>1, <3>3, <3>4, HashTells DEF IInv
    <3>6. ReadImportHashes(m) = hashes
      <4>1. ttc[m].imps = [i \in Deps(m) |-> ttc[m].imps[i]]
        BY <3>4 DEF IsTTC
      <4> QED
        BY <3>1, <3>4, <3>5, <4>1 DEF ReadImportHashes
    <3>7. ~IsTTCOutdated(m, {src[m].time})
      <4>1. src[m].time \in Nat /\ ttc[m].time \in Nat
        BY <2>0, <3>1, FileFacts
      <4> QED
        BY <3>3, <4>1 DEF IsTTCOutdated
    <3> QED
      BY <1>1, <2>6, <3>0, <3>3, <3>6, <3>7 DEF IInv, Hashing, Writes
  <2> QED
    BY <1>1, <2>3, <2>4, <2>5, <2>6, Kinds DEF IInv
<1>2. IInv /\ [Next]_vars => [pc # "idle" /\ Current => \A m \in Loaded : Whole(m)']_vars
    BY <1>1
<1> QED
    BY <1>2, AlwaysIInv, PTL DEF Spec, Stable

-----------------------------------------------------------------------------
(***************************************************************************)
(* The order of BuildOrder: sequences and cycles                           *)
(***************************************************************************)

\* A sequence of modules with one more at its end.
LEMMA Appended ==
    ASSUME NEW s \in Seq(Module), NEW m \in Module
    PROVE  /\ Append(s, m) \in Seq(Module)
           /\ Len(Append(s, m)) = Len(s) + 1
           /\ \A i \in 1 .. Len(s) : Append(s, m)[i] = s[i]
           /\ Append(s, m)[Len(s) + 1] = m
           /\ ToSet(Append(s, m)) = ToSet(s) \cup {m}
<1>1. /\ Append(s, m) \in Seq(Module)
      /\ Len(Append(s, m)) = Len(s) + 1
      /\ \A i \in 1 .. Len(s) : Append(s, m)[i] = s[i]
      /\ Append(s, m)[Len(s) + 1] = m
    OBVIOUS
<1>2. DOMAIN s = 1 .. Len(s) /\ DOMAIN Append(s, m) = 1 .. (Len(s) + 1) /\ Len(s) \in Nat
    OBVIOUS
<1>3. 1 .. (Len(s) + 1) = (1 .. Len(s)) \cup {Len(s) + 1}
    BY <1>2
<1>4. ToSet(Append(s, m)) = ToSet(s) \cup {m}
    BY <1>1, <1>2, <1>3 DEF ToSet
<1> QED
    BY <1>1, <1>4

\* A sequence without its last element.
LEMMA Fronted ==
    ASSUME NEW S, NEW s \in Seq(S), s # <<>>
    PROVE  /\ Front(s) \in Seq(S)
           /\ Len(Front(s)) = Len(s) - 1 /\ Len(s) \in Nat \ {0}
           /\ \A i \in 1 .. (Len(s) - 1) : Front(s)[i] = s[i]
           /\ Last(s) = s[Len(s)] /\ Last(s) \in S
           /\ ToSet(s) = ToSet(Front(s)) \cup {Last(s)}
<1>1. Len(s) \in Nat \ {0}
    OBVIOUS
<1>2. /\ Front(s) \in Seq(S)
      /\ Len(Front(s)) = Len(s) - 1
      /\ \A i \in 1 .. (Len(s) - 1) : Front(s)[i] = s[i]
  <2>1. Front(s) = SubSeq(s, 1, Len(s) - 1)
    BY DEF Front
  <2>2. Len(s) - 1 \in Nat /\ 1 \in 1 .. Len(s) /\ Len(s) - 1 \in 0 .. Len(s)
    BY <1>1
  <2>3. SubSeq(s, 1, Len(s) - 1) = [i \in 1 .. (Len(s) - 1) |-> s[i]]
    BY <2>2
  <2>4. \A i \in 1 .. (Len(s) - 1) : s[i] \in S
    BY <1>1
  <2>5. [i \in 1 .. (Len(s) - 1) |-> s[i]] \in Seq(S)
    BY <2>2, <2>4
  <2> DEFINE n == Len(s) - 1
  <2>6. Len([i \in 1 .. n |-> s[i]]) = n
    <3>1. n \in Nat
      BY <2>2
    <3> HIDE DEF n
    <3> QED
      BY <3>1
  <2> QED
    BY <2>1, <2>2, <2>3, <2>5, <2>6
<1>3. Last(s) = s[Len(s)] /\ Last(s) \in S
    BY <1>1 DEF Last
<1>4. DOMAIN s = 1 .. Len(s) /\ DOMAIN Front(s) = 1 .. (Len(s) - 1)
    BY <1>1, <1>2
<1>5. 1 .. Len(s) = (1 .. (Len(s) - 1)) \cup {Len(s)}
    BY <1>1
<1>6. ToSet(s) = ToSet(Front(s)) \cup {Last(s)}
    BY <1>2, <1>3, <1>4, <1>5 DEF ToSet
<1> QED
    BY <1>1, <1>2, <1>3, <1>6

\* A sequence of modules without its first.
LEMMA Tailed ==
    ASSUME NEW s \in Seq(Module), s # <<>>
    PROVE  /\ Tail(s) \in Seq(Module) /\ Head(s) \in Module
           /\ Len(Tail(s)) = Len(s) - 1 /\ Len(s) \in Nat \ {0}
           /\ Head(s) = s[1]
           /\ \A i \in 1 .. (Len(s) - 1) : Tail(s)[i] = s[i + 1]
           /\ ToSet(s) = {Head(s)} \cup ToSet(Tail(s))
<1>1. /\ Tail(s) \in Seq(Module) /\ Head(s) \in Module
      /\ Len(Tail(s)) = Len(s) - 1 /\ Len(s) \in Nat \ {0}
      /\ Head(s) = s[1]
      /\ \A i \in 1 .. (Len(s) - 1) : Tail(s)[i] = s[i + 1]
    OBVIOUS
<1>2. DOMAIN s = 1 .. Len(s) /\ DOMAIN Tail(s) = 1 .. (Len(s) - 1)
    BY <1>1
<1>3. ASSUME NEW i \in 1 .. Len(s) PROVE s[i] \in {Head(s)} \cup ToSet(Tail(s))
  <2>1. CASE i = 1
    BY <1>1, <2>1
  <2>2. CASE i # 1
    <3>1. i - 1 \in 1 .. (Len(s) - 1) /\ (i - 1) + 1 = i
      BY <1>1, <2>2
    <3>2. Tail(s)[i - 1] = s[i]
      BY <1>1, <3>1
    <3> QED
      BY <1>2, <3>1, <3>2 DEF ToSet
  <2> QED
    BY <2>1, <2>2
<1>4. ASSUME NEW i \in 1 .. (Len(s) - 1) PROVE Tail(s)[i] \in ToSet(s)
  <2>1. i + 1 \in 1 .. Len(s)
    BY <1>1
  <2> QED
    BY <1>1, <1>2, <2>1 DEF ToSet
<1>5. Head(s) \in ToSet(s)
  <2>1. 1 \in 1 .. Len(s)
    BY <1>1
  <2> QED
    BY <1>1, <1>2, <2>1 DEF ToSet
<1>6. ToSet(s) = {Head(s)} \cup ToSet(Tail(s))
  <2>1. ToSet(s) = {s[i] : i \in 1 .. Len(s)}
    BY <1>2 DEF ToSet
  <2>2. ToSet(Tail(s)) = {Tail(s)[i] : i \in 1 .. (Len(s) - 1)}
    BY <1>2 DEF ToSet
  <2>3. ToSet(s) \subseteq {Head(s)} \cup ToSet(Tail(s))
    BY <1>3, <2>1
  <2>4. ToSet(Tail(s)) \subseteq ToSet(s)
    BY <1>4, <2>2
  <2> QED
    BY <1>5, <2>3, <2>4
<1> QED
    BY <1>1, <1>6

\* A path that comes back to itself is a cycle.
LEMMA CycleFound ==
    ASSUME NEW deps \in Graph, NEW p \in Seq(Module), NEW S \in SUBSET Module,
           ToSet(p) \subseteq S,
           \A i \in 1 .. (Len(p) - 1) : p[i + 1] \in deps[p[i]],
           NEW m \in ToSet(p), m \in deps[Last(p)]
    PROVE  ~Acyclic(deps, S)
<1>1. DOMAIN p = 1 .. Len(p) /\ Len(p) \in Nat
    OBVIOUS
<1>2. PICK k \in 1 .. Len(p) : m = p[k]
    BY <1>1 DEF ToSet
<1> DEFINE T == {p[j] : j \in k .. Len(p)}
<1>3. T \subseteq S
  <2>1. \A j \in k .. Len(p) : j \in 1 .. Len(p)
    BY <1>1
  <2> QED
    BY <1>1, <2>1 DEF ToSet
<1>4. m \in T
  <2>1. k \in k .. Len(p)
    BY <1>1
  <2> QED
    BY <1>2, <2>1
<1>5. ASSUME NEW j \in k .. Len(p) PROVE deps[p[j]] \cap T # {}
  <2>1. CASE j = Len(p)
    BY <1>4, <2>1 DEF Last
  <2>2. CASE j # Len(p)
    <3>1. j \in 1 .. (Len(p) - 1) /\ j + 1 \in k .. Len(p)
      <4>1. PICK n : n = Len(p)
        OBVIOUS
      <4>2. k \in 1 .. n /\ j \in k .. n /\ n \in Nat /\ j # n
        BY <1>1, <1>2, <2>2, <4>1
      <4>3. j \in 1 .. (n - 1) /\ j + 1 \in k .. n
        BY <4>2
      <4> QED
        BY <4>1, <4>3
    <3> QED
      BY <3>1
  <2> QED
    BY <2>1, <2>2
<1>6. \A n \in T : deps[n] \cap T # {}
    BY <1>5
<1>7. T \in SUBSET S /\ T # {}
    BY <1>3, <1>4
<1> HIDE DEF T
<1> QED
    BY <1>6, <1>7 DEF Acyclic

\* A closed set without cycles has none with another module that imports only
\* from it.
LEMMA AcyclicGrows ==
    ASSUME NEW deps \in Graph, NEW S \in SUBSET Module, Closed(deps, S), Acyclic(deps, S),
           NEW m \in Module, m \notin S, deps[m] \subseteq S
    PROVE  Closed(deps, S \cup {m}) /\ Acyclic(deps, S \cup {m})
<1>1. Closed(deps, S \cup {m})
    BY DEF Closed
<1>2. ASSUME NEW T \in SUBSET (S \cup {m}), T # {}
      PROVE  \E n \in T : deps[n] \cap T = {}
  <2>1. CASE T \cap S = {}
    BY <1>2, <2>1
  <2>2. CASE T \cap S # {}
    <3>1. PICK n \in T \cap S : deps[n] \cap (T \cap S) = {}
      BY <2>2 DEF Acyclic
    <3>2. deps[n] \subseteq S
      BY <3>1 DEF Closed
    <3> QED
      BY <3>1, <3>2
  <2> QED
    BY <2>1, <2>2
<1> QED
    BY <1>1, <1>2 DEF Acyclic

\* A sequence with a new module whose imports are in it.
LEMMA SortedGrows ==
    ASSUME NEW deps \in Graph, NEW s \in Seq(Module), Sorted(deps, s),
           NEW m \in Module, deps[m] \subseteq ToSet(s)
    PROVE  Sorted(deps, Append(s, m))
<1> DEFINE t == Append(s, m)
<1>1. /\ t \in Seq(Module) /\ Len(t) = Len(s) + 1 /\ Len(s) \in Nat
      /\ \A i \in 1 .. Len(s) : t[i] = s[i]
      /\ t[Len(s) + 1] = m
      /\ DOMAIN s = 1 .. Len(s) /\ DOMAIN t = 1 .. (Len(s) + 1)
    OBVIOUS
<1>2. \A i \in 1 .. (Len(s) + 1) : {t[j] : j \in 1 .. (i - 1)} = {s[j] : j \in 1 .. (i - 1)}
  <2> TAKE i \in 1 .. (Len(s) + 1)
  <2>1. \A j \in 1 .. (i - 1) : j \in 1 .. Len(s)
    BY <1>1
  <2> QED
    BY <1>1, <2>1
<1>3. ToSet(s) = {s[j] : j \in 1 .. ((Len(s) + 1) - 1)}
    BY <1>1 DEF ToSet
<1> HIDE DEF t
<1>4. ASSUME NEW i \in 1 .. (Len(s) + 1) PROVE deps[t[i]] \subseteq {s[j] : j \in 1 .. (i - 1)}
  <2>1. CASE i = Len(s) + 1
    BY <1>1, <1>3, <2>1
  <2>2. CASE i # Len(s) + 1
    <3>1. i \in 1 .. Len(s)
      BY <1>1, <2>2
    <3> QED
      BY <1>1, <3>1 DEF Sorted
  <2> QED
    BY <2>1, <2>2
<1> QED
    BY <1>1, <1>2, <1>4 DEF Sorted, t

\* A sequence with no module twice, and one more that is not in it.
LEMMA InjectiveGrows ==
    ASSUME NEW s \in Seq(Module), IsInjective(s), NEW m \in Module, m \notin ToSet(s)
    PROVE  IsInjective(Append(s, m))
<1> DEFINE t == Append(s, m)
<1>1. /\ t \in Seq(Module) /\ Len(t) = Len(s) + 1 /\ Len(s) \in Nat
      /\ \A i \in 1 .. Len(s) : t[i] = s[i]
      /\ t[Len(s) + 1] = m
      /\ DOMAIN s = 1 .. Len(s) /\ DOMAIN t = 1 .. (Len(s) + 1)
    OBVIOUS
<1>2. \A i \in 1 .. (Len(s) + 1) : i \in 1 .. Len(s) \/ i = Len(s) + 1
    BY <1>1
<1>3. \A i \in 1 .. Len(s) : s[i] # m
    BY <1>1 DEF ToSet
<1>4. \A i, j \in 1 .. Len(s) : s[i] = s[j] => i = j
    BY <1>1 DEF IsInjective
<1> HIDE DEF t
<1>5. \A i, j \in 1 .. (Len(s) + 1) : t[i] = t[j] => i = j
    BY <1>1, <1>2, <1>3, <1>4
<1> QED
    BY <1>1, <1>5 DEF IsInjective, t

-----------------------------------------------------------------------------
(***************************************************************************)
(* The order of BuildOrder: the invariant                                  *)
(***************************************************************************)

Walking == phase \in {"tree", "order"}
Reach   == ReachedFrom(Links, {Head(left)} \ Missing)

\* The modules that this traversal is done with.
Dealt == IF phase = "tree" THEN seen ELSE ToSet(order)

Formed ==
    /\ project \in ProjectType
    /\ left \in Seq(Module) /\ ToSet(left) \subseteq Files
    /\ list \in Seq(Module) /\ order \in Seq(Module) /\ kept \in Seq(Module)
    /\ path \in Seq(Module) /\ seen \subseteq Module
    /\ phase \in {"files", "tree", "order", "drop", "ordered", "cyclic", "unparsed"}
    /\ phase = "files" => path = <<>>
    /\ phase \in {"files", "tree", "order"} => kept = <<>>
    /\ Walking => /\ left # <<>>
                  /\ work \in Seq(Seq(Module)) /\ Len(work) = Len(path) + 1

\* The modules entered import one another and are not done.
Trail ==
    /\ ToSet(path) \subseteq Reach \ (Missing \cup Dealt)
    /\ IsInjective(path)
    /\ \A i \in 1 .. (Len(path) - 1) : path[i + 1] \in Links[path[i]]

\* What a module on the path imports is done, or still to be visited, or
\* further along the path.
Pending ==
    /\ ToSet(work[1]) \subseteq {Head(left)}
    /\ Head(left) \in Missing \cup Dealt \cup ToSet(path) \cup ToSet(work[1])
    /\ \A i \in 1 .. Len(path) :
         /\ ToSet(work[i + 1]) \subseteq ToSet(project.imports[path[i]])
         /\ Links[path[i]] \subseteq Dealt \cup ToSet(work[i + 1])
                                       \cup {path[j] : j \in (i + 1) .. Len(path)}

\* What is done is closed, and in the tree there are no cycles.
Done ==
    /\ Dealt \subseteq Reach /\ Closed(Links, Dealt)
    /\ Acyclic(Links, seen) /\ seen \cap Broken = {}
    /\ phase = "order" => seen = Reach /\ Sorted(Links, order) /\ IsInjective(order)

\* The files that were visited have what they need in the list.
Listed ==
    /\ Sorted(Links, list) /\ ToSet(list) \subseteq Needed
    /\ Files \subseteq Missing \cup ToSet(left) \cup ToSet(list)

\* Of a module the first in the list is kept.
Dropping ==
    /\ Sorted(Links, kept) /\ IsInjective(kept)
    /\ ToSet(kept) \cup ToSet(list) = Needed
    /\ \A i \in 1 .. Len(list) :
         Links[list[i]] \subseteq ToSet(kept) \cup {list[j] : j \in 1 .. (i - 1)}
    /\ phase = "ordered" => list = <<>>

Refused ==
    /\ phase = "cyclic" => ~Acyclic(Links, Needed)
    /\ phase = "unparsed" => Needed \cap Broken # {}

OrderInv ==
    /\ Formed /\ Refused
    /\ Walking => Trail /\ Pending /\ Done
    /\ phase = "tree" => ToSet(path) \cap Broken = {}
    /\ phase \in {"files", "tree", "order"} => Listed
    /\ phase \in {"drop", "ordered"} => Dropping

-----------------------------------------------------------------------------
(***************************************************************************)
(* The order of BuildOrder: traversals                                     *)
(***************************************************************************)

\* What is not missing imports what is not.
LEMMA LinksFacts ==
    ASSUME Formed
    PROVE  /\ Links \in Graph /\ Files \subseteq Module
           /\ \A m \in Module :
                /\ project.imports[m] \in Seq(Module)
                /\ ToSet(project.imports[m]) \subseteq Module
                /\ m \notin Missing => Links[m] = ToSet(project.imports[m]) \ Missing
                /\ Links[m] \cap Missing = {}
<1>1. project.imports \in [Module -> Seq(Module)] /\ project.files \in Seq(Module)
    BY DEF Formed, ProjectType
<1>2. \A m \in Module : /\ project.imports[m] \in Seq(Module)
                        /\ ToSet(project.imports[m]) \subseteq Module
    BY <1>1 DEF ToSet
<1>3. \A m \in Module : Links[m] = IF m \in Missing THEN {} ELSE ToSet(project.imports[m]) \ Missing
    BY DEF Links
<1>4. Links = [m \in Module |-> Links[m]]
    BY DEF Links
<1>5. \A m \in Module : Links[m] \in SUBSET Module
    BY <1>2, <1>3
<1>6. Links \in Graph
    BY <1>4, <1>5 DEF Graph
<1>7. Files \subseteq Module
    BY <1>1 DEF Files, ToSet
<1> QED
    BY <1>2, <1>3, <1>6, <1>7

\* What is reached from the file.
LEMMA ReachFacts ==
    ASSUME Formed, left # <<>>
    PROVE  /\ Reach \subseteq Module /\ Closed(Links, Reach)
           /\ Head(left) \in Module /\ Head(left) \in Files
           /\ Head(left) \notin Missing => Head(left) \in Reach
           /\ Reach \subseteq Needed
           /\ \A T \in SUBSET Module :
                ({Head(left)} \subseteq Missing \cup T) /\ Closed(Links, T) => Reach \subseteq T
           /\ Needed \subseteq Module /\ Closed(Links, Needed)
           /\ \A T \in SUBSET Module :
                Files \subseteq Missing \cup T /\ Closed(Links, T) => Needed \subseteq T
<1>1. Head(left) \in Module /\ Head(left) \in Files
    BY Tailed DEF Formed
<1>2. {Head(left)} \ Missing \in SUBSET Module /\ Files \ Missing \in SUBSET Module
    BY <1>1, LinksFacts
<1>3. /\ {Head(left)} \ Missing \subseteq Reach
      /\ Reach \subseteq Module /\ Closed(Links, Reach)
      /\ \A T \in SUBSET Module :
           {Head(left)} \ Missing \subseteq T /\ Closed(Links, T) => Reach \subseteq T
    BY <1>2, LinksFacts, Reached DEF Reach
<1>4. /\ Files \ Missing \subseteq Needed
      /\ Needed \subseteq Module /\ Closed(Links, Needed)
      /\ \A T \in SUBSET Module :
           Files \ Missing \subseteq T /\ Closed(Links, T) => Needed \subseteq T
    BY <1>2, LinksFacts, Reached DEF Needed
<1>5. Reach \subseteq Needed
    BY <1>1, <1>3, <1>4
<1> QED
    BY <1>1, <1>3, <1>4, <1>5

\* The module visited.
LEMMA VisitFacts ==
    ASSUME Formed, Walking, Trail, Pending, Last(work) # <<>>
    PROVE  /\ Len(work) \in Nat \ {0} /\ Last(work) = work[Len(work)]
           /\ Last(work) \in Seq(Module) /\ Tail(Last(work)) \in Seq(Module)
           /\ Visited \in Module
           /\ ToSet(Last(work)) = {Visited} \cup ToSet(Tail(Last(work)))
           /\ path = <<>> => Visited = Head(left)
           /\ Visited \notin Missing => /\ Visited \in Reach
                                        /\ path # <<>> => Visited \in Links[Last(path)]
<1>1. /\ work \in Seq(Seq(Module)) /\ Len(work) = Len(path) + 1 /\ left # <<>>
      /\ path \in Seq(Module)
    BY DEF Formed
<1>2. Len(path) \in Nat /\ Len(work) \in Nat \ {0} /\ work # <<>>
    BY <1>1
<1>3. Last(work) = work[Len(work)] /\ Last(work) \in Seq(Module)
    BY <1>1, <1>2, Fronted
<1>4. /\ Tail(Last(work)) \in Seq(Module) /\ Visited \in Module
      /\ ToSet(Last(work)) = {Visited} \cup ToSet(Tail(Last(work)))
    BY <1>3, Tailed DEF Visited
<1>5. CASE path = <<>>
  <2>1. Last(work) = work[1]
    BY <1>1, <1>3, <1>5
  <2>2. Visited = Head(left)
    BY <1>4, <2>1 DEF Pending
  <2> QED
    BY <1>1, <1>2, <1>3, <1>4, <1>5, <2>2, ReachFacts
<1>6. CASE path # <<>>
  <2>1. Len(path) \in 1 .. Len(path) /\ Last(path) = path[Len(path)] /\ Last(path) \in ToSet(path)
        /\ Last(path) \in Module
    <3>1. /\ Len(path) \in Nat \ {0} /\ Last(path) = path[Len(path)] /\ Last(path) \in Module
          /\ ToSet(path) = ToSet(Front(path)) \cup {Last(path)}
      BY <1>1, <1>6, Fronted
    <3>2. Len(path) \in 1 .. Len(path)
      BY <3>1
    <3> QED
      BY <3>1, <3>2
  <2>2. ToSet(work[Len(path) + 1]) \subseteq ToSet(project.imports[path[Len(path)]])
    BY <2>1 DEF Pending
  <2>3. Visited \in ToSet(project.imports[Last(path)])
    BY <1>1, <1>3, <1>4, <2>1, <2>2
  <2>4. Last(path) \in Reach /\ Last(path) \notin Missing
    BY <2>1 DEF Trail
  <2>5. Visited \notin Missing => Visited \in Links[Last(path)]
    BY <2>1, <2>3, <2>4, LinksFacts
  <2>6. Visited \notin Missing => Visited \in Reach
    BY <1>1, <2>4, <2>5, ReachFacts DEF Closed
  <2> QED
    BY <1>2, <1>3, <1>4, <1>6, <2>5, <2>6
<1> QED
    BY <1>5, <1>6

\* A module that is left has its imports done.
LEMMA LeaveFacts ==
    ASSUME Formed, Walking, Trail, Pending, Last(work) = <<>>, path # <<>>
    PROVE  /\ Last(path) \in Module /\ Last(path) \in Reach
           /\ Last(path) \notin Dealt /\ Last(path) \notin Missing
           /\ Links[Last(path)] \subseteq Dealt
           /\ ToSet(path) = ToSet(Front(path)) \cup {Last(path)}
<1>1. /\ work \in Seq(Seq(Module)) /\ Len(work) = Len(path) + 1
      /\ path \in Seq(Module)
    BY DEF Formed
<1>2. Len(path) \in Nat /\ work # <<>>
    BY <1>1
<1>3. /\ Len(path) \in Nat \ {0} /\ Last(path) = path[Len(path)] /\ Last(path) \in Module
      /\ ToSet(path) = ToSet(Front(path)) \cup {Last(path)}
    BY <1>1, Fronted
<1>4. work[Len(path) + 1] = <<>>
    BY <1>1, <1>2, Fronted
<1>5. ToSet(<<>>) = {}
    BY DEF ToSet
<1>6. Len(path) \in 1 .. Len(path) /\ (Len(path) + 1) .. Len(path) = {}
    BY <1>3
<1>7. Links[path[Len(path)]] \subseteq
        Dealt \cup ToSet(work[Len(path) + 1]) \cup {path[j] : j \in (Len(path) + 1) .. Len(path)}
    BY <1>6 DEF Pending
<1> QED
    BY <1>3, <1>4, <1>5, <1>6, <1>7 DEF Trail

\* At the end of a traversal everything reached is done.
LEMMA TraversedFacts ==
    ASSUME Formed, Walking, Pending, Done, Last(work) = <<>>, path = <<>>
    PROVE  Dealt = Reach
<1>1. work \in Seq(Seq(Module)) /\ Len(work) = 1 /\ left # <<>>
    BY DEF Formed
<1>2. work[1] = <<>>
    BY <1>1 DEF Last
<1>3. ToSet(<<>>) = {}
    BY DEF ToSet
<1>4. Head(left) \in Missing \cup Dealt
    BY <1>2, <1>3 DEF Pending
<1>5. Dealt \in SUBSET Module
    BY <1>1, ReachFacts DEF Done
<1>6. Reach \subseteq Dealt
    BY <1>1, <1>4, <1>5, ReachFacts DEF Done
<1> QED
    BY <1>6 DEF Done

\* What the parts of the state that stay mean.
LEMMA SameProject ==
    ASSUME project' = project
    PROVE  Links' = Links /\ Files' = Files /\ Missing' = Missing /\ Broken' = Broken
           /\ Needed' = Needed
    BY DEF Links, Files, Missing, Broken, Needed

\* Passing over a module that is done, or has no source here, keeps what is
\* pending.
LEMMA SkipKeeps ==
    ASSUME Formed, Walking, Trail, Pending, Done, Last(work) # <<>>,
           Visited \in Missing \cup Dealt, Skip
    PROVE  /\ Trail' /\ Pending' /\ Done' /\ Walking'
           /\ work' \in Seq(Seq(Module)) /\ Len(work') = Len(path') + 1
<1> DEFINE n == Len(work)
<1>0. /\ work' = [work EXCEPT ![n] = Tail(@)]
      /\ UNCHANGED <<project, left, list, phase, seen, order, path, kept>>
    BY DEF Skip, Rest
<1>1. /\ Links' = Links /\ Files' = Files /\ Missing' = Missing /\ Broken' = Broken
      /\ Reach' = Reach /\ Dealt' = Dealt
    BY <1>0, SameProject DEF Reach, Dealt
<1>2. /\ n \in Nat \ {0} /\ Last(work) = work[n] /\ Tail(work[n]) \in Seq(Module)
      /\ ToSet(work[n]) = {Visited} \cup ToSet(Tail(work[n]))
      /\ path = <<>> => Visited = Head(left)
    BY VisitFacts
<1>3. work \in Seq(Seq(Module)) /\ n = Len(path) + 1 /\ path \in Seq(Module)
    BY DEF Formed
<1>4. Len(path) \in Nat /\ (path = <<>> <=> Len(path) = 0)
    BY <1>3
<1>5. /\ work' \in Seq(Seq(Module)) /\ Len(work') = n
      /\ \A i \in 1 .. n : work'[i] = IF i = n THEN Tail(work[n]) ELSE work[i]
    BY <1>0, <1>2, <1>3
<1> HIDE DEF n
<1>6. Trail' /\ Done' /\ Walking'
    BY <1>0, <1>1 DEF Trail, Done, Walking
<1>7. \A i \in 1 .. n : ToSet(work'[i]) \subseteq ToSet(work[i])
    BY <1>2, <1>5
<1>8. ToSet(work'[1]) \subseteq {Head(left)}
  <2>1. 1 \in 1 .. n
    BY <1>2
  <2>2. ToSet(work[1]) \subseteq {Head(left)}
    BY DEF Pending
  <2> QED
    BY <1>7, <2>1, <2>2
<1>9. Head(left) \in Missing \cup Dealt \cup ToSet(path) \cup ToSet(work'[1])
  <2>1. CASE n = 1
    BY <1>2, <1>3, <1>4, <2>1
  <2>2. CASE n # 1
    BY <1>2, <1>5, <2>2 DEF Pending
  <2> QED
    BY <2>1, <2>2
<1>10. ASSUME NEW i \in 1 .. Len(path)
       PROVE  /\ ToSet(work'[i + 1]) \subseteq ToSet(project.imports[path[i]])
              /\ Links[path[i]] \subseteq Dealt \cup ToSet(work'[i + 1])
                                          \cup {path[j] : j \in (i + 1) .. Len(path)}
  <2>1. i + 1 \in 1 .. n /\ i \in Nat
    BY <1>3, <1>4
  <2>2. /\ ToSet(work[i + 1]) \subseteq ToSet(project.imports[path[i]])
        /\ Links[path[i]] \subseteq Dealt \cup ToSet(work[i + 1])
                                    \cup {path[j] : j \in (i + 1) .. Len(path)}
    BY DEF Pending
  <2>3. path[i] \in Module
    BY <1>3
  <2>4. Links[path[i]] \cap Missing = {}
    BY <2>3, LinksFacts
  <2>5. ToSet(work[i + 1]) \subseteq {Visited} \cup ToSet(work'[i + 1])
    BY <1>2, <1>5, <2>1
  <2> QED
    BY <1>7, <2>1, <2>2, <2>4, <2>5
<1>11. Pending'
    BY <1>0, <1>1, <1>8, <1>9, <1>10 DEF Pending
<1> QED
    BY <1>0, <1>3, <1>5, <1>6, <1>11

\* A module that is entered has all of its imports pending, and is imported by
\* the module that was entered before it.
LEMMA EnterKeeps ==
    ASSUME Formed, Walking, Trail, Pending, Done, Last(work) # <<>>,
           Visited \notin Missing \cup Dealt \cup ToSet(path), Enter
    PROVE  /\ Trail' /\ Pending' /\ Done' /\ Walking'
           /\ work' \in Seq(Seq(Module)) /\ Len(work') = Len(path') + 1
           /\ path' \in Seq(Module)
<1> DEFINE n == Len(work)
           v == Visited
<1>0. /\ work' = Append([work EXCEPT ![n] = Tail(@)], project.imports[v])
      /\ path' = Append(path, v)
      /\ UNCHANGED <<project, left, list, phase, seen, order, kept>>
    BY DEF Enter, Rest
<1>1. /\ Links' = Links /\ Files' = Files /\ Missing' = Missing /\ Broken' = Broken
      /\ Reach' = Reach
    BY <1>0, SameProject DEF Reach
<1>2. Dealt' = Dealt
    BY <1>0 DEF Dealt
<1>3. /\ n \in Nat \ {0} /\ Last(work) = work[n] /\ Tail(work[n]) \in Seq(Module)
      /\ ToSet(work[n]) = {v} \cup ToSet(Tail(work[n]))
      /\ path = <<>> => v = Head(left)
      /\ v \in Module /\ v \in Reach /\ v \notin Missing
      /\ path # <<>> => v \in Links[Last(path)]
    BY VisitFacts
<1>4. work \in Seq(Seq(Module)) /\ n = Len(path) + 1 /\ path \in Seq(Module)
    BY DEF Formed
<1>5. Len(path) \in Nat /\ (path = <<>> <=> Len(path) = 0)
    BY <1>4
<1>6. /\ project.imports[v] \in Seq(Module)
      /\ Links[v] \subseteq ToSet(project.imports[v])
    BY <1>3, LinksFacts
<1>7. /\ work' \in Seq(Seq(Module)) /\ Len(work') = n + 1
      /\ \A i \in 1 .. n : work'[i] = IF i = n THEN Tail(work[n]) ELSE work[i]
      /\ work'[n + 1] = project.imports[v]
  <2> DEFINE rest == [work EXCEPT ![n] = Tail(@)]
  <2>1. /\ rest \in Seq(Seq(Module)) /\ Len(rest) = n
        /\ \A i \in 1 .. n : rest[i] = IF i = n THEN Tail(work[n]) ELSE work[i]
    BY <1>3, <1>4
  <2> HIDE DEF rest
  <2>2. /\ Append(rest, project.imports[v]) \in Seq(Seq(Module))
        /\ Len(Append(rest, project.imports[v])) = n + 1
        /\ \A i \in 1 .. n : Append(rest, project.imports[v])[i] = rest[i]
        /\ Append(rest, project.imports[v])[n + 1] = project.imports[v]
    BY <1>6, <2>1
  <2> QED
    BY <1>0, <2>1, <2>2 DEF rest
<1>8. /\ path' \in Seq(Module) /\ Len(path') = n
      /\ \A i \in 1 .. Len(path) : path'[i] = path[i]
      /\ path'[n] = v
      /\ ToSet(path') = ToSet(path) \cup {v}
    BY <1>0, <1>3, <1>4, Appended
<1>9. IsInjective(path')
    BY <1>0, <1>3, <1>4, InjectiveGrows DEF Trail
<1> HIDE DEF n, v
<1>10. v \notin Missing \cup Dealt \cup ToSet(path)
    BY DEF v
<1>11. \A i \in 1 .. (n - 1) : path'[i + 1] \in Links[path'[i]]
  <2> TAKE i \in 1 .. (n - 1)
  <2>1. i \in 1 .. Len(path) /\ path'[i] = path[i]
    BY <1>4, <1>5, <1>8
  <2>2. CASE i = Len(path)
    <3>1. path # <<>> /\ Last(path) = path[i]
      BY <1>5, <2>1, <2>2 DEF Last
    <3> QED
      BY <1>3, <1>4, <1>8, <2>1, <2>2, <3>1
  <2>3. CASE i # Len(path)
    <3>1. i \in 1 .. (Len(path) - 1) /\ i + 1 \in 1 .. Len(path)
      BY <1>5, <2>1, <2>3
    <3>2. path[i + 1] \in Links[path[i]]
      BY <3>1 DEF Trail
    <3> QED
      BY <1>8, <2>1, <3>1, <3>2
  <2> QED
    BY <2>2, <2>3
<1>12. Trail'
  <2>1. ToSet(path') \subseteq Reach \ (Missing \cup Dealt)
    BY <1>3, <1>8, <1>10 DEF Trail
  <2> QED
    BY <1>1, <1>2, <1>8, <1>9, <1>11, <2>1 DEF Trail
<1>13. Done' /\ Walking'
    BY <1>0, <1>1, <1>2 DEF Done, Walking
<1>14. \A i \in 1 .. n : ToSet(work'[i]) \subseteq ToSet(work[i])
    BY <1>3, <1>7
<1>15. ToSet(work'[1]) \subseteq {Head(left)}
  <2>1. 1 \in 1 .. n
    BY <1>3
  <2>2. ToSet(work[1]) \subseteq {Head(left)}
    BY DEF Pending
  <2> QED
    BY <1>14, <2>1, <2>2
<1>16. Head(left) \in Missing \cup Dealt \cup ToSet(path') \cup ToSet(work'[1])
  <2>1. CASE n = 1
    BY <1>3, <1>4, <1>5, <1>8, <2>1
  <2>2. CASE n # 1
    BY <1>3, <1>7, <1>8, <2>2 DEF Pending
  <2> QED
    BY <2>1, <2>2
<1>17. ASSUME NEW i \in 1 .. n
       PROVE  /\ ToSet(work'[i + 1]) \subseteq ToSet(project.imports[path'[i]])
              /\ Links[path'[i]] \subseteq Dealt \cup ToSet(work'[i + 1])
                                           \cup {path'[j] : j \in (i + 1) .. n}
  <2>1. CASE i = n
    BY <1>6, <1>7, <1>8, <2>1
  <2>2. CASE i # n
    <3>1. i \in 1 .. Len(path) /\ i + 1 \in 1 .. n /\ n \in (i + 1) .. n
      BY <1>3, <1>4, <1>5, <2>2
    <3>2. /\ ToSet(work[i + 1]) \subseteq ToSet(project.imports[path[i]])
          /\ Links[path[i]] \subseteq Dealt \cup ToSet(work[i + 1])
                                      \cup {path[j] : j \in (i + 1) .. Len(path)}
      BY <3>1 DEF Pending
    <3>3. ToSet(work[i + 1]) \subseteq {v} \cup ToSet(work'[i + 1])
      BY <1>3, <1>7, <3>1
    <3>4. {path[j] : j \in (i + 1) .. Len(path)} \subseteq {path'[j] : j \in (i + 1) .. n}
      <4>1. \A j \in (i + 1) .. Len(path) : j \in 1 .. Len(path) /\ j \in (i + 1) .. n
        BY <1>4, <1>5, <3>1
      <4> QED
        BY <1>8, <4>1
    <3>5. v \in {path'[j] : j \in (i + 1) .. n}
      BY <1>8, <3>1
    <3> QED
      BY <1>8, <1>14, <3>1, <3>2, <3>3, <3>4, <3>5
  <2> QED
    BY <2>1, <2>2
<1>18. Pending'
    BY <1>0, <1>1, <1>2, <1>8, <1>15, <1>16, <1>17 DEF Pending
<1> QED
    BY <1>4, <1>7, <1>8, <1>12, <1>13, <1>18

\* A module that is left is done, with all of its imports: none is pending, and
\* none is further along the path.
LEMMA LeaveKeeps ==
    ASSUME Formed, Walking, Trail, Pending, Done, Last(work) = <<>>, path # <<>>, Leave,
           Dealt' = Dealt \cup {Last(path)}
    PROVE  /\ Trail' /\ Pending' /\ Walking'
           /\ Dealt' \subseteq Reach' /\ Closed(Links', Dealt')
           /\ work' \in Seq(Seq(Module)) /\ Len(work') = Len(path') + 1
           /\ path' \in Seq(Module)
<1> DEFINE n == Len(path)
           m == Last(path)
<1>0. /\ work' = Front(work) /\ path' = Front(path)
      /\ UNCHANGED <<project, left, list, phase, kept>>
    BY DEF Leave
<1>1. /\ Links' = Links /\ Files' = Files /\ Missing' = Missing /\ Broken' = Broken
      /\ Reach' = Reach
    BY <1>0, SameProject DEF Reach
<1>2. /\ m \in Module /\ m \in Reach /\ m \notin Dealt /\ m \notin Missing
      /\ Links[m] \subseteq Dealt
      /\ ToSet(path) = ToSet(path') \cup {m}
    BY <1>0, LeaveFacts
<1>3. work \in Seq(Seq(Module)) /\ Len(work) = n + 1 /\ path \in Seq(Module)
    BY DEF Formed
<1>4. /\ n \in Nat \ {0} /\ path' \in Seq(Module) /\ Len(path') = n - 1 /\ m = path[n]
      /\ \A i \in 1 .. (n - 1) : path'[i] = path[i]
    BY <1>0, <1>3, Fronted
<1>5. /\ work' \in Seq(Seq(Module)) /\ Len(work') = n
      /\ \A i \in 1 .. n : work'[i] = work[i]
  <2>1. work # <<>> /\ (n + 1) - 1 = n
    BY <1>3, <1>4
  <2>2. /\ Front(work) \in Seq(Seq(Module)) /\ Len(Front(work)) = Len(work) - 1
        /\ \A i \in 1 .. (Len(work) - 1) : Front(work)[i] = work[i]
    BY <1>3, <2>1, Fronted
  <2> QED
    BY <1>0, <1>3, <2>1, <2>2
<1> HIDE DEF n, m
<1>6. Dealt' = Dealt \cup {m}
    BY DEF m
<1>7. IsInjective(path) /\ DOMAIN path = 1 .. n /\ DOMAIN path' = 1 .. (n - 1)
    BY <1>3, <1>4 DEF Trail, n
<1>8. \A i \in 1 .. (n - 1) : i \in 1 .. n /\ i # n /\ i + 1 \in 1 .. n
    BY <1>4
<1>9. \A i \in 1 .. (n - 1) : path[i] # m
    BY <1>4, <1>7, <1>8 DEF IsInjective
<1>10. ToSet(path') = {path'[i] : i \in 1 .. (n - 1)}
    BY <1>7 DEF ToSet
<1>11. m \notin ToSet(path')
    BY <1>4, <1>9, <1>10
<1>12. Trail'
  <2>1. ToSet(path') \subseteq Reach \ (Missing \cup (Dealt \cup {m}))
    BY <1>2, <1>11 DEF Trail
  <2>2. IsInjective(path')
    BY <1>4, <1>7, <1>8 DEF IsInjective
  <2>3. ASSUME NEW i \in 1 .. ((n - 1) - 1) PROVE path'[i + 1] \in Links[path'[i]]
    <3>1. i \in 1 .. (n - 1) /\ i + 1 \in 1 .. (n - 1)
      BY <1>4
    <3>2. path[i + 1] \in Links[path[i]]
      BY <3>1 DEF Trail, n
    <3> QED
      BY <1>4, <3>1, <3>2
  <2> QED
    BY <1>1, <1>4, <1>6, <2>1, <2>2, <2>3 DEF Trail
<1>13. Walking'
    BY <1>0 DEF Walking
<1>14. Dealt' \subseteq Reach' /\ Closed(Links', Dealt')
  <2>1. Dealt \subseteq Reach /\ Closed(Links, Dealt)
    BY DEF Done
  <2>2. Closed(Links, Dealt \cup {m})
    BY <1>2, <2>1 DEF Closed
  <2> QED
    BY <1>1, <1>2, <1>6, <2>1, <2>2
<1>15. Pending'
  <2>1. /\ ToSet(work'[1]) \subseteq {Head(left)}
        /\ Head(left) \in Missing \cup (Dealt \cup {m}) \cup ToSet(path') \cup ToSet(work'[1])
    <3>1. work'[1] = work[1]
      BY <1>4, <1>5
    <3> QED
      BY <1>2, <3>1 DEF Pending
  <2>2. ASSUME NEW i \in 1 .. (n - 1)
        PROVE  /\ ToSet(work'[i + 1]) \subseteq ToSet(project.imports[path'[i]])
               /\ Links[path'[i]] \subseteq (Dealt \cup {m}) \cup ToSet(work'[i + 1])
                                            \cup {path'[j] : j \in (i + 1) .. (n - 1)}
    <3>1. i \in 1 .. n /\ path'[i] = path[i] /\ work'[i + 1] = work[i + 1]
      BY <1>4, <1>5, <1>8
    <3>2. /\ ToSet(work[i + 1]) \subseteq ToSet(project.imports[path[i]])
          /\ Links[path[i]] \subseteq Dealt \cup ToSet(work[i + 1])
                                      \cup {path[j] : j \in (i + 1) .. n}
      BY <3>1 DEF Pending, n
    <3>3. {path[j] : j \in (i + 1) .. n} \subseteq {path'[j] : j \in (i + 1) .. (n - 1)} \cup {m}
      <4>1. \A j \in (i + 1) .. n : j = n \/ (j \in (i + 1) .. (n - 1) /\ j \in 1 .. (n - 1))
        BY <1>4
      <4> QED
        BY <1>4, <4>1
    <3> QED
      BY <3>1, <3>2, <3>3
  <2> QED
    BY <1>0, <1>1, <1>4, <1>6, <2>1, <2>2 DEF Pending
<1> QED
    BY <1>4, <1>5, <1>12, <1>13, <1>14, <1>15

-----------------------------------------------------------------------------
(***************************************************************************)
(* The order of BuildOrder: the steps                                      *)
(***************************************************************************)

\* What the files need is the least closed set with those of them that are here.
LEMMA NeededFacts ==
    ASSUME Formed
    PROVE  /\ Needed \subseteq Module /\ Closed(Links, Needed)
           /\ \A T \in SUBSET Module :
                Files \subseteq Missing \cup T /\ Closed(Links, T) => Needed \subseteq T
<1>1. Files \ Missing \in SUBSET Module
    BY LinksFacts
<1>2. /\ Files \ Missing \subseteq Needed
      /\ Needed \subseteq Module /\ Closed(Links, Needed)
      /\ \A T \in SUBSET Module :
           Files \ Missing \subseteq T /\ Closed(Links, T) => Needed \subseteq T
    BY <1>1, LinksFacts, Reached DEF Needed
<1> QED
    BY <1>2

\* The sequence of no modules.
LEMMA NoModules ==
    /\ <<>> \in Seq(Module) /\ ToSet(<<>>) = {} /\ IsInjective(<<>>) /\ Len(<<>>) = 0
    /\ \A deps \in Graph : /\ Sorted(deps, <<>>) /\ Closed(deps, {}) /\ Acyclic(deps, {})
    BY DEF ToSet, IsInjective, Sorted, Closed, Acyclic

\* A sorted sequence is closed.
LEMMA SortedIsClosed ==
    ASSUME NEW deps \in Graph, NEW s \in Seq(Module), Sorted(deps, s)
    PROVE  Closed(deps, ToSet(s))
<1>1. DOMAIN s = 1 .. Len(s) /\ Len(s) \in Nat
    OBVIOUS
<1>2. ASSUME NEW i \in 1 .. Len(s) PROVE deps[s[i]] \subseteq ToSet(s)
  <2>1. \A j \in 1 .. (i - 1) : j \in 1 .. Len(s)
    BY <1>1
  <2>2. {s[j] : j \in 1 .. (i - 1)} \subseteq ToSet(s)
    BY <1>1, <2>1 DEF ToSet
  <2> QED
    BY <1>1, <2>2 DEF Sorted
<1> QED
    BY <1>1, <1>2 DEF Closed, ToSet

\* One sorted sequence after another.
LEMMA SortedConcat ==
    ASSUME NEW deps \in Graph, NEW s \in Seq(Module), NEW t \in Seq(Module),
           Sorted(deps, s), Sorted(deps, t)
    PROVE  /\ s \o t \in Seq(Module) /\ ToSet(s \o t) = ToSet(s) \cup ToSet(t)
           /\ Sorted(deps, s \o t)
<1> DEFINE u == s \o t
           k == Len(s)
           n == Len(t)
<1>1. /\ u \in Seq(Module) /\ Len(u) = k + n /\ k \in Nat /\ n \in Nat
      /\ DOMAIN s = 1 .. k /\ DOMAIN t = 1 .. n /\ DOMAIN u = 1 .. (k + n)
      /\ \A i \in 1 .. (k + n) : u[i] = IF i <= k THEN s[i] ELSE t[i - k]
    OBVIOUS
<1> HIDE DEF u, k, n
<1>2. \A i \in 1 .. k : i \in 1 .. (k + n) /\ u[i] = s[i]
    BY <1>1
<1>3. \A i \in 1 .. n : i + k \in 1 .. (k + n) /\ u[i + k] = t[i]
  <2> TAKE i \in 1 .. n
  <2>1. i + k \in 1 .. (k + n) /\ ~(i + k <= k) /\ (i + k) - k = i
    BY <1>1
  <2> QED
    BY <1>1, <2>1
<1>4. \A i \in 1 .. (k + n) : i \in 1 .. k \/ (i - k \in 1 .. n /\ (i - k) + k = i)
    BY <1>1
<1>5. ToSet(u) = ToSet(s) \cup ToSet(t)
  <2>1. /\ ToSet(u) = {u[i] : i \in 1 .. (k + n)}
        /\ ToSet(s) = {s[i] : i \in 1 .. k} /\ ToSet(t) = {t[i] : i \in 1 .. n}
    BY <1>1 DEF ToSet
  <2>2. {s[i] : i \in 1 .. k} \subseteq ToSet(u)
    BY <1>2, <2>1
  <2>3. {t[i] : i \in 1 .. n} \subseteq ToSet(u)
    BY <1>3, <2>1
  <2>4. ASSUME NEW i \in 1 .. (k + n) PROVE u[i] \in ToSet(s) \cup ToSet(t)
    <3>1. CASE i \in 1 .. k
      BY <1>2, <2>1, <3>1
    <3>2. CASE i - k \in 1 .. n /\ (i - k) + k = i
      <4>1. u[(i - k) + k] = t[i - k]
        BY <1>3, <3>2
      <4> QED
        BY <2>1, <3>2, <4>1
    <3> QED
      BY <1>4, <3>1, <3>2
  <2> QED
    BY <2>1, <2>2, <2>3, <2>4
<1>6. ASSUME NEW i \in 1 .. k PROVE deps[u[i]] \subseteq {u[j] : j \in 1 .. (i - 1)}
  <2>1. \A j \in 1 .. (i - 1) : j \in 1 .. k
    BY <1>1
  <2>2. deps[s[i]] \subseteq {s[j] : j \in 1 .. (i - 1)}
    BY <1>1 DEF Sorted
  <2> QED
    BY <1>2, <2>1, <2>2
<1>7. ASSUME NEW i \in 1 .. n PROVE deps[u[i + k]] \subseteq {u[j] : j \in 1 .. ((i + k) - 1)}
  <2>1. \A j \in 1 .. (i - 1) : j \in 1 .. n /\ j + k \in 1 .. ((i + k) - 1)
    BY <1>1
  <2>2. deps[t[i]] \subseteq {t[j] : j \in 1 .. (i - 1)}
    BY <1>1 DEF Sorted
  <2>3. {t[j] : j \in 1 .. (i - 1)} \subseteq {u[j] : j \in 1 .. ((i + k) - 1)}
    BY <1>3, <2>1
  <2> QED
    BY <1>3, <2>2, <2>3
<1>8. \A i \in 1 .. (k + n) : deps[u[i]] \subseteq {u[j] : j \in 1 .. (i - 1)}
  <2> TAKE i \in 1 .. (k + n)
  <2>1. CASE i \in 1 .. k
    BY <1>6, <2>1
  <2>2. CASE i - k \in 1 .. n /\ (i - k) + k = i
    BY <1>7, <2>2
  <2> QED
    BY <1>4, <2>1, <2>2
<1> QED
    BY <1>1, <1>5, <1>8 DEF Sorted, u

\* The files go on.
LEMMA FilesNext ==
    ASSUME OrderInv, KnownFile \/ NewFile \/ FileOrdered
    PROVE  OrderInv'
<1>0. Formed /\ Listed /\ left # <<>> /\ project' = project
    BY DEF OrderInv, Formed, Walking, KnownFile, NewFile, FileOrdered, Traversed
<1>1. /\ Links' = Links /\ Files' = Files /\ Missing' = Missing /\ Broken' = Broken
      /\ Needed' = Needed
    BY <1>0, SameProject
<1>2. /\ Head(left) \in Module /\ Tail(left) \in Seq(Module)
      /\ ToSet(left) = {Head(left)} \cup ToSet(Tail(left))
    BY <1>0, Tailed DEF Formed
<1>3. CASE KnownFile
  <2>1. /\ phase = "files" /\ Head(left) \in ToSet(list) /\ left' = Tail(left)
        /\ UNCHANGED <<project, list, phase, seen, order, path, work, kept>>
    BY <1>3 DEF KnownFile
  <2>2. Formed'
    BY <1>0, <1>1, <1>2, <2>1 DEF Formed, Walking
  <2>3. Listed'
    BY <1>0, <1>1, <1>2, <2>1 DEF Listed
  <2> QED
    BY <2>1, <2>2, <2>3 DEF OrderInv, Walking, Refused
<1>4. CASE NewFile
  <2>1. /\ phase = "files" /\ phase' = "tree" /\ seen' = {} /\ work' = << <<Head(left)>> >>
        /\ UNCHANGED <<project, left, list, order, path, kept>>
        /\ path' = <<>>
    BY <1>0, <1>4 DEF NewFile, Formed
  <2>2. /\ work' \in Seq(Seq(Module)) /\ Len(work') = 1 /\ Len(path') = 0
        /\ work'[1] = <<Head(left)>> /\ ToSet(work'[1]) = {Head(left)}
    BY <1>2, <2>1 DEF ToSet
  <2>3. Formed'
    BY <1>0, <1>1, <2>1, <2>2, NoModules DEF Formed, Walking
  <2>4. Listed'
    BY <1>0, <1>1, <2>1 DEF Listed
  <2>5. Dealt' = {}
    BY <2>1 DEF Dealt
  <2>6. Trail'
    BY <2>1, <2>2, NoModules DEF Trail
  <2>7. Pending'
    BY <2>1, <2>2 DEF Pending
  <2>8. Done'
    BY <1>0, <1>1, <2>1, <2>5, LinksFacts, NoModules DEF Done
  <2>9. ToSet(path') \cap Broken' = {}
    BY <2>1, NoModules
  <2> QED
    BY <2>1, <2>3, <2>4, <2>6, <2>7, <2>8, <2>9 DEF OrderInv, Refused
<1>5. CASE FileOrdered
  <2>1. /\ phase = "order" /\ Last(work) = <<>> /\ path = <<>>
        /\ list' = order \o list /\ left' = Tail(left) /\ phase' = "files"
        /\ UNCHANGED <<project, seen, order, path, kept>>
    BY <1>5 DEF FileOrdered, Traversed
  <2>2. Walking /\ Trail /\ Pending /\ Done
    BY <2>1 DEF OrderInv, Walking
  <2>3. Dealt = Reach /\ Dealt = ToSet(order) /\ Sorted(Links, order)
    BY <1>0, <2>1, <2>2, TraversedFacts DEF Dealt, Done
  <2>4. /\ list' \in Seq(Module) /\ ToSet(list') = ToSet(order) \cup ToSet(list)
        /\ Sorted(Links, list')
    BY <1>0, <2>1, <2>3, LinksFacts, SortedConcat DEF Formed, Listed
  <2>5. Reach \subseteq Needed /\ (Head(left) \notin Missing => Head(left) \in Reach)
    BY <1>0, ReachFacts
  <2>6. Listed'
    BY <1>0, <1>1, <1>2, <2>1, <2>3, <2>4, <2>5 DEF Listed
  <2>7. Formed'
    BY <1>0, <1>1, <1>2, <2>1, <2>4 DEF Formed, Walking
  <2> QED
    BY <2>1, <2>6, <2>7 DEF OrderInv, Walking, Refused
<1> QED
    BY <1>3, <1>4, <1>5

\* mkModTree goes on.
LEMMA TreeNext ==
    ASSUME OrderInv, Cyclic \/ SeenBefore \/ DoesNotParse \/ ImportsItself \/ ReadImports
                     \/ AddTree \/ TreeMade
    PROVE  OrderInv'
<1>0. /\ Formed /\ Walking /\ Trail /\ Pending /\ Done /\ Listed /\ phase = "tree"
      /\ ToSet(path) \cap Broken = {} /\ Dealt = seen /\ left # <<>>
    BY DEF OrderInv, Walking, Dealt, Formed, Cyclic, SeenBefore, DoesNotParse, ImportsItself,
           ReadImports, AddTree, TreeMade, Visiting, Leaving, Traversed
<1>1. project' = project => /\ Links' = Links /\ Files' = Files /\ Missing' = Missing
                            /\ Broken' = Broken /\ Needed' = Needed
    BY SameProject
<1>2. /\ Reach \subseteq Needed /\ Needed \subseteq Module /\ Links \in Graph
      /\ ToSet(path) \subseteq Reach /\ path \in Seq(Module)
    BY <1>0, ReachFacts, LinksFacts DEF Trail, Formed
<1>3. CASE Cyclic \/ ImportsItself
  <2>1. ~Acyclic(Links, Needed)
    <3>1. CASE Cyclic
      <4>1. Last(work) # <<>> /\ Visited \in ToSet(path)
        BY <3>1 DEF Cyclic, Visiting
      <4>2. Visited \notin Missing /\ path # <<>>
        BY <1>0, <4>1, NoModules DEF Trail
      <4>3. Visited \in Links[Last(path)]
        BY <1>0, <4>1, <4>2, VisitFacts
      <4>4. \A i \in 1 .. (Len(path) - 1) : path[i + 1] \in Links[path[i]]
        BY <1>0 DEF Trail
      <4>5. ToSet(path) \subseteq Needed /\ Needed \in SUBSET Module
        BY <1>2
      <4> QED
        BY <1>2, <4>1, <4>3, <4>4, <4>5, CycleFound
    <3>2. CASE ImportsItself
      <4>1. /\ Last(work) # <<>> /\ Visited \notin Missing
            /\ Visited \in ToSet(project.imports[Visited])
        BY <3>2 DEF ImportsItself, Visiting
      <4>2. Visited \in Needed /\ Visited \in Module
        BY <1>0, <1>2, <4>1, VisitFacts
      <4>3. Visited \in Links[Visited]
        BY <1>0, <4>1, <4>2, LinksFacts
      <4>4. {Visited} \in SUBSET Needed /\ {Visited} # {}
            /\ \A m \in {Visited} : Links[m] \cap {Visited} # {}
        BY <4>2, <4>3
      <4> QED
        BY <4>4 DEF Acyclic
    <3> QED
      BY <1>3, <3>1, <3>2
  <2>2. /\ phase' = "cyclic"
        /\ UNCHANGED <<project, left, list, seen, order, path, work, kept>>
    BY <1>3 DEF Cyclic, ImportsItself, Throw
  <2>3. Formed'
    BY <1>0, <1>1, <2>2 DEF Formed, Walking
  <2> QED
    BY <1>1, <2>1, <2>2, <2>3 DEF OrderInv, Walking, Refused
<1>4. CASE DoesNotParse
  <2>1. /\ phase' = "unparsed" /\ Last(work) # <<>> /\ Visited \in Broken
        /\ Visited \notin Missing
        /\ UNCHANGED <<project, left, list, seen, order, path, work, kept>>
    BY <1>4 DEF DoesNotParse, Throw, Visiting
  <2>2. Visited \in Needed
    BY <1>0, <1>2, <2>1, VisitFacts
  <2>3. Formed'
    BY <1>0, <1>1, <2>1 DEF Formed, Walking
  <2>4. Needed \cap Broken # {}
    BY <2>1, <2>2
  <2> QED
    BY <1>1, <2>1, <2>3, <2>4 DEF OrderInv, Walking, Refused
<1>5. CASE SeenBefore
  <2>1. /\ Last(work) # <<>> /\ Visited \in Missing \cup Dealt /\ Skip
        /\ UNCHANGED <<project, left, list, phase, seen, order, path, kept>>
    BY <1>0, <1>5 DEF SeenBefore, Visiting, Skip
  <2>2. /\ Trail' /\ Pending' /\ Done' /\ Walking'
        /\ work' \in Seq(Seq(Module)) /\ Len(work') = Len(path') + 1
    BY <1>0, <2>1, SkipKeeps
  <2>3. Formed'
    BY <1>0, <1>1, <2>1, <2>2 DEF Formed
  <2>4. Listed'
    BY <1>0, <1>1, <2>1 DEF Listed
  <2> QED
    BY <1>0, <1>1, <2>1, <2>2, <2>3, <2>4 DEF OrderInv, Refused
<1>6. CASE ReadImports
  <2>1. /\ Last(work) # <<>> /\ Visited \notin Missing \cup Dealt \cup ToSet(path) /\ Enter
        /\ Visited \notin Broken
        /\ UNCHANGED <<project, left, list, phase, seen, order, kept>>
        /\ path' = Append(path, Visited)
    BY <1>0, <1>6 DEF ReadImports, Visiting, Enter
  <2>2. /\ Trail' /\ Pending' /\ Done' /\ Walking'
        /\ work' \in Seq(Seq(Module)) /\ Len(work') = Len(path') + 1 /\ path' \in Seq(Module)
    BY <1>0, <2>1, EnterKeeps
  <2>3. Formed'
    BY <1>0, <1>1, <2>1, <2>2 DEF Formed
  <2>4. Listed'
    BY <1>0, <1>1, <2>1 DEF Listed
  <2>5. ToSet(path') \cap Broken' = {}
    <3>1. Visited \in Module
      BY <1>0, <2>1, VisitFacts
    <3>2. ToSet(path') = ToSet(path) \cup {Visited}
      BY <1>2, <2>1, <3>1, Appended
    <3> QED
      BY <1>0, <1>1, <2>1, <3>2
  <2> QED
    BY <1>0, <1>1, <2>1, <2>2, <2>3, <2>4, <2>5 DEF OrderInv, Refused
<1>7. CASE AddTree
  <2>1. /\ Last(work) = <<>> /\ path # <<>> /\ Leave /\ path' = Front(path)
        /\ seen' = seen \cup {Last(path)}
        /\ UNCHANGED <<project, left, list, phase, order, kept>>
    BY <1>7 DEF AddTree, Leaving, Leave
  <2>2. /\ Last(path) \in Module /\ Last(path) \in Reach /\ Last(path) \notin seen
        /\ Links[Last(path)] \subseteq seen
        /\ ToSet(path) = ToSet(path') \cup {Last(path)}
    BY <1>0, <2>1, LeaveFacts
  <2>3. Dealt' = Dealt \cup {Last(path)}
    BY <1>0, <2>1 DEF Dealt
  <2>4. /\ Trail' /\ Pending' /\ Walking'
        /\ Dealt' \subseteq Reach' /\ Closed(Links', Dealt')
        /\ work' \in Seq(Seq(Module)) /\ Len(work') = Len(path') + 1 /\ path' \in Seq(Module)
    BY <1>0, <2>1, <2>3, LeaveKeeps
  <2>5. Formed'
    BY <1>0, <1>1, <2>1, <2>2, <2>4 DEF Formed
  <2>6. Listed'
    BY <1>0, <1>1, <2>1 DEF Listed
  <2>7. Acyclic(Links, seen')
    <3>1. Closed(Links, seen) /\ Acyclic(Links, seen) /\ seen \in SUBSET Module
      BY <1>0 DEF Done, Formed
    <3> QED
      BY <1>2, <2>1, <2>2, <3>1, AcyclicGrows
  <2>8. Done'
    BY <1>0, <1>1, <2>1, <2>2, <2>4, <2>7 DEF Done
  <2> QED
    BY <1>0, <1>1, <2>1, <2>2, <2>4, <2>5, <2>6, <2>8 DEF OrderInv, Refused
<1>8. CASE TreeMade
  <2>1. /\ Last(work) = <<>> /\ path = <<>> /\ phase' = "order" /\ order' = <<>>
        /\ work' = << <<Head(left)>> >>
        /\ UNCHANGED <<project, left, list, seen, path, kept>>
    BY <1>8 DEF TreeMade, Traversed
  <2>2. Head(left) \in Module
    BY <1>0, ReachFacts
  <2>3. /\ work' \in Seq(Seq(Module)) /\ Len(work') = 1 /\ Len(path') = 0
        /\ work'[1] = <<Head(left)>> /\ ToSet(work'[1]) = {Head(left)}
    BY <2>1, <2>2 DEF ToSet
  <2>4. Formed'
    BY <1>0, <1>1, <2>1, <2>3, NoModules DEF Formed, Walking
  <2>5. Listed'
    BY <1>0, <1>1, <2>1 DEF Listed
  <2>6. Dealt' = {}
    BY <2>1, NoModules DEF Dealt
  <2>7. Trail'
    BY <2>1, <2>3, NoModules DEF Trail
  <2>8. Pending'
    BY <2>1, <2>3 DEF Pending
  <2>9. seen = Reach /\ Reach' = Reach
    BY <1>0, <1>1, <2>1, TraversedFacts DEF Reach
  <2>10. Done'
    BY <1>0, <1>1, <1>2, <2>1, <2>6, <2>9, NoModules DEF Done
  <2> QED
    BY <2>1, <2>4, <2>5, <2>7, <2>8, <2>10 DEF OrderInv, Refused
<1> QED
    BY <1>3, <1>4, <1>5, <1>6, <1>7, <1>8

\* mkBuildMods goes on.  It does not look for cycles: that there are none in the
\* tree keeps it from entering a module that it has entered.
LEMMA PlacingNext ==
    ASSUME OrderInv, Placed \/ BuildImports \/ Place
    PROVE  OrderInv'
<1>0. /\ Formed /\ Walking /\ Trail /\ Pending /\ Done /\ Listed /\ phase = "order"
      /\ Dealt = ToSet(order) /\ left # <<>> /\ phase' = phase
      /\ project' = project
    BY DEF OrderInv, Walking, Dealt, Formed, Placed, BuildImports, Place, Visiting, Leaving,
           Skip, Enter, Leave
<1>1. /\ Links' = Links /\ Files' = Files /\ Missing' = Missing
      /\ Broken' = Broken /\ Needed' = Needed
    BY <1>0, SameProject
<1>2. /\ Links \in Graph /\ Reach \subseteq Module /\ path \in Seq(Module)
      /\ ToSet(path) \subseteq Reach /\ Acyclic(Links, Reach) /\ seen = Reach
      /\ order \in Seq(Module) /\ Sorted(Links, order) /\ IsInjective(order)
    BY <1>0, ReachFacts, LinksFacts DEF Trail, Formed, Done
<1>3. CASE Placed
  <2>1. /\ Last(work) # <<>> /\ Visited \in Missing \cup Dealt /\ Skip
        /\ UNCHANGED <<project, left, list, phase, seen, order, path, kept>>
    BY <1>0, <1>3 DEF Placed, Visiting, Skip
  <2>2. /\ Trail' /\ Pending' /\ Done' /\ Walking'
        /\ work' \in Seq(Seq(Module)) /\ Len(work') = Len(path') + 1
    BY <1>0, <2>1, SkipKeeps
  <2>3. Formed'
    BY <1>0, <1>1, <2>1, <2>2 DEF Formed
  <2>4. Listed'
    BY <1>0, <1>1, <2>1 DEF Listed
  <2> QED
    BY <1>0, <1>1, <2>1, <2>2, <2>3, <2>4 DEF OrderInv, Refused
<1>4. CASE BuildImports
  <2>1. /\ Last(work) # <<>> /\ Visited \notin Missing \cup Dealt /\ Enter
        /\ UNCHANGED <<project, left, list, phase, seen, order, kept>>
    BY <1>0, <1>4 DEF BuildImports, Visiting, Enter
  <2>2. Visited \notin ToSet(path)
    <3> SUFFICES ASSUME Visited \in ToSet(path) PROVE FALSE
      OBVIOUS
    <3>1. path # <<>>
      BY NoModules
    <3>2. Visited \in Links[Last(path)]
      BY <1>0, <2>1, <3>1, VisitFacts
    <3>3. \A i \in 1 .. (Len(path) - 1) : path[i + 1] \in Links[path[i]]
      BY <1>0 DEF Trail
    <3>4. Reach \in SUBSET Module
      BY <1>2
    <3> QED
      BY <1>2, <3>2, <3>3, <3>4, CycleFound
  <2>3. /\ Trail' /\ Pending' /\ Done' /\ Walking'
        /\ work' \in Seq(Seq(Module)) /\ Len(work') = Len(path') + 1 /\ path' \in Seq(Module)
    BY <1>0, <2>1, <2>2, EnterKeeps
  <2>4. Formed'
    BY <1>0, <1>1, <2>1, <2>3 DEF Formed
  <2>5. Listed'
    BY <1>0, <1>1, <2>1 DEF Listed
  <2> QED
    BY <1>0, <1>1, <2>1, <2>3, <2>4, <2>5 DEF OrderInv, Refused
<1>5. CASE Place
  <2>1. /\ Last(work) = <<>> /\ path # <<>> /\ Leave
        /\ order' = Append(order, Last(path))
        /\ UNCHANGED <<project, left, list, phase, seen, kept>>
    BY <1>5 DEF Place, Leaving, Leave
  <2>2. /\ Last(path) \in Module /\ Last(path) \notin ToSet(order)
        /\ Links[Last(path)] \subseteq ToSet(order)
    BY <1>0, <2>1, LeaveFacts
  <2>3. order' \in Seq(Module) /\ ToSet(order') = ToSet(order) \cup {Last(path)}
    BY <1>2, <2>1, <2>2, Appended
  <2>4. Dealt' = Dealt \cup {Last(path)}
    BY <1>0, <2>3 DEF Dealt
  <2>5. /\ Trail' /\ Pending' /\ Walking'
        /\ Dealt' \subseteq Reach' /\ Closed(Links', Dealt')
        /\ work' \in Seq(Seq(Module)) /\ Len(work') = Len(path') + 1 /\ path' \in Seq(Module)
    BY <1>0, <2>1, <2>4, LeaveKeeps
  <2>6. Formed'
    BY <1>0, <1>1, <2>1, <2>3, <2>5 DEF Formed
  <2>7. Listed'
    BY <1>0, <1>1, <2>1 DEF Listed
  <2>8. Sorted(Links, order') /\ IsInjective(order')
    BY <1>2, <2>1, <2>2, SortedGrows, InjectiveGrows
  <2>9. Reach' = Reach
    BY <1>1, <2>1 DEF Reach
  <2>10. Done'
    BY <1>0, <1>1, <2>1, <2>5, <2>8, <2>9 DEF Done
  <2> QED
    BY <1>0, <1>1, <2>1, <2>5, <2>6, <2>7, <2>10 DEF OrderInv, Refused
<1> QED
    BY <1>3, <1>4, <1>5

\* dropLater goes on.
LEMMA DropNext ==
    ASSUME OrderInv, AllListed \/ Keep \/ Drop \/ Ordered
    PROVE  OrderInv'
<1>0. Formed /\ project' = project
    BY DEF OrderInv, AllListed, Keep, Drop, Ordered
<1>1. /\ Links' = Links /\ Files' = Files /\ Missing' = Missing
      /\ Broken' = Broken /\ Needed' = Needed
    BY <1>0, SameProject
<1>2. Links \in Graph
    BY <1>0, LinksFacts
<1>3. CASE AllListed
  <2>1. /\ phase = "files" /\ left = <<>> /\ phase' = "drop" /\ Listed /\ kept = <<>>
        /\ UNCHANGED <<project, left, list, seen, order, path, work, kept>>
    BY <1>0, <1>3 DEF AllListed, OrderInv, Formed
  <2>2. Formed'
    BY <1>0, <1>1, <2>1 DEF Formed, Walking
  <2>3. Sorted(Links, list) /\ list \in Seq(Module) /\ ToSet(list) \in SUBSET Module
    BY <1>0, <2>1 DEF Listed, Formed, ToSet
  <2>4. ToSet(list) = Needed
    <3>1. Closed(Links, ToSet(list))
      BY <1>2, <2>3, SortedIsClosed
    <3>2. Files \subseteq Missing \cup ToSet(list)
      BY <2>1, NoModules DEF Listed
    <3> QED
      BY <1>0, <2>1, <2>3, <3>1, <3>2, NeededFacts DEF Listed
  <2>5. \A i \in 1 .. Len(list) : Links[list[i]] \subseteq {list[j] : j \in 1 .. (i - 1)}
    BY <2>3 DEF Sorted
  <2>6. Dropping'
    BY <1>1, <1>2, <2>1, <2>4, <2>5, NoModules DEF Dropping
  <2> QED
    BY <2>1, <2>2, <2>6 DEF OrderInv, Walking, Refused
<1>4. CASE Keep \/ Drop
  <2>1. /\ phase = "drop" /\ list # <<>> /\ list' = Tail(list) /\ Dropping
        /\ UNCHANGED <<project, left, phase, seen, order, path, work>>
    BY <1>4 DEF Keep, Drop, OrderInv
  <2>2. list \in Seq(Module) /\ kept \in Seq(Module)
    BY <1>0 DEF Formed
  <2>3. /\ list' \in Seq(Module) /\ Head(list) \in Module /\ Head(list) = list[1]
        /\ Len(list') = Len(list) - 1 /\ Len(list) \in Nat \ {0}
        /\ \A i \in 1 .. (Len(list) - 1) : list'[i] = list[i + 1]
        /\ ToSet(list) = {Head(list)} \cup ToSet(list')
    BY <2>1, <2>2, Tailed
  <2>4. Links[Head(list)] \subseteq ToSet(kept)
    <3>1. 1 \in 1 .. Len(list) /\ 1 .. (1 - 1) = {}
      BY <2>3
    <3>2. Links[list[1]] \subseteq ToSet(kept) \cup {list[j] : j \in 1 .. (1 - 1)}
      BY <2>1, <3>1 DEF Dropping
    <3> QED
      BY <2>3, <3>1, <3>2
  <2>5. ASSUME ToSet(kept) \cup {Head(list)} = ToSet(kept'), NEW i \in 1 .. Len(list')
        PROVE  Links[list'[i]] \subseteq ToSet(kept') \cup {list'[j] : j \in 1 .. (i - 1)}
    <3>1. i + 1 \in 1 .. Len(list) /\ i \in 1 .. (Len(list) - 1) /\ (i + 1) - 1 = i
      BY <2>3
    <3>2. Links[list[i + 1]] \subseteq ToSet(kept) \cup {list[j] : j \in 1 .. i}
      BY <2>1, <3>1 DEF Dropping
    <3>3. {list[j] : j \in 1 .. i} \subseteq {Head(list)} \cup {list'[j] : j \in 1 .. (i - 1)}
      <4>1. ASSUME NEW j \in 1 .. i, j # 1 PROVE list[j] \in {list'[k] : k \in 1 .. (i - 1)}
        <5>1. j - 1 \in 1 .. (i - 1) /\ j - 1 \in 1 .. (Len(list) - 1) /\ (j - 1) + 1 = j
          BY <2>3, <3>1, <4>1
        <5> QED
          BY <2>3, <5>1
      <4> QED
        BY <2>3, <4>1
    <3> QED
      BY <2>3, <2>5, <3>1, <3>2, <3>3
  <2>6. CASE Keep
    <3>1. kept' = Append(kept, Head(list)) /\ Head(list) \notin ToSet(kept)
      BY <2>6 DEF Keep
    <3>2. kept' \in Seq(Module) /\ ToSet(kept') = ToSet(kept) \cup {Head(list)}
      BY <2>2, <2>3, <3>1, Appended
    <3>3. Sorted(Links, kept') /\ IsInjective(kept')
      BY <1>2, <2>1, <2>2, <2>3, <2>4, <3>1, SortedGrows, InjectiveGrows DEF Dropping
    <3>4. Dropping'
      BY <1>1, <2>1, <2>3, <2>5, <3>2, <3>3 DEF Dropping
    <3>5. Formed'
      BY <1>0, <1>1, <2>1, <2>3, <3>2 DEF Formed, Walking
    <3> QED
      BY <2>1, <3>4, <3>5 DEF OrderInv, Walking, Refused
  <2>7. CASE Drop
    <3>1. kept' = kept /\ Head(list) \in ToSet(kept)
      BY <2>7 DEF Drop
    <3>2. ToSet(kept) \cup {Head(list)} = ToSet(kept')
      BY <3>1
    <3>3. Dropping'
      BY <1>1, <2>1, <2>3, <2>5, <3>1, <3>2 DEF Dropping
    <3>4. Formed'
      BY <1>0, <1>1, <2>1, <2>3, <3>1 DEF Formed, Walking
    <3> QED
      BY <2>1, <3>3, <3>4 DEF OrderInv, Walking, Refused
  <2> QED
    BY <1>4, <2>6, <2>7
<1>5. CASE Ordered
  <2>1. /\ phase = "drop" /\ list = <<>> /\ phase' = "ordered" /\ Dropping
        /\ UNCHANGED <<project, left, list, seen, order, path, work, kept>>
    BY <1>5 DEF Ordered, OrderInv
  <2>2. Formed'
    BY <1>0, <1>1, <2>1 DEF Formed, Walking
  <2>3. Dropping'
    BY <1>1, <2>1 DEF Dropping
  <2> QED
    BY <2>1, <2>2, <2>3 DEF OrderInv, Walking, Refused
<1> QED
    BY <1>3, <1>4, <1>5

\* Before the first file nothing is entered and nothing is listed.
LEMMA InitOrderInv == OrderInit => OrderInv
<1> SUFFICES ASSUME OrderInit PROVE OrderInv
    OBVIOUS
<1>1. project \in ProjectType /\ left = project.files /\ phase = "files" /\ seen = {}
      /\ list = <<>> /\ order = <<>> /\ kept = <<>> /\ path = <<>>
    BY DEF OrderInit
<1>2. Formed
  <2>1. project.files \in Seq(Module)
    BY <1>1 DEF ProjectType
  <2> QED
    BY <1>1, <2>1, NoModules DEF Formed, Files, Walking
<1>3. Listed
    BY <1>1, <1>2, LinksFacts, NoModules DEF Listed, Files
<1> QED
    BY <1>1, <1>2, <1>3 DEF OrderInv, Walking, Refused

\* Every step of the traversals and of dropLater keeps the invariant.
LEMMA NextOrderInv == OrderInv /\ [OrderNext]_orderVars => OrderInv'
<1>1. ASSUME OrderInv, UNCHANGED orderVars PROVE OrderInv'
  <2>1. /\ UNCHANGED <<project, left, list, phase, seen, order, path, work, kept>>
        /\ Links' = Links /\ Files' = Files /\ Missing' = Missing
        /\ Broken' = Broken /\ Needed' = Needed
    BY <1>1, SameProject DEF orderVars
  <2>2. Reach' = Reach /\ Dealt' = Dealt /\ (Walking' <=> Walking)
    BY <2>1 DEF Reach, Dealt, Walking
  <2>3. (Formed => Formed') /\ (Refused => Refused')
    BY <2>1, <2>2 DEF Formed, Refused
  <2>4. (Trail => Trail') /\ (Pending => Pending')
    BY <2>1, <2>2 DEF Trail, Pending
  <2>5. Done => Done'
    BY <2>1, <2>2 DEF Done
  <2>6. Listed => Listed'
    BY <2>1, <2>2 DEF Listed
  <2>7. Dropping => Dropping'
    BY <2>1, <2>2 DEF Dropping
  <2> QED
    BY <1>1, <2>1, <2>2, <2>3, <2>4, <2>5, <2>6, <2>7 DEF OrderInv
<1> QED
    BY <1>1, FilesNext, TreeNext, PlacingNext, DropNext DEF OrderNext

-----------------------------------------------------------------------------
(***************************************************************************)
(* The order of BuildOrder: what is promised                               *)
(***************************************************************************)

\* Whatever a project imports, the order it is built in has everything its files
\* need, once, and each module after its imports: what ModTree assumes of Order.
THEOREM OrderIsRight == OrderSpec => []OrderRight
<1>1. OrderInv => OrderRight
  <2> SUFFICES ASSUME OrderInv, phase = "ordered"
               PROVE  IsBuildOrder(Links, Files \ Missing, kept)
    BY DEF OrderRight
  <2>1. Dropping /\ list = <<>>
    BY DEF OrderInv, Dropping
  <2>2. ToSet(kept) = Needed
    BY <2>1, NoModules DEF Dropping
  <2> QED
    BY <2>1, <2>2 DEF Dropping, Needed, IsBuildOrder
<1> QED
    BY <1>1, InitOrderInv, NextOrderInv, PTL DEF OrderSpec

\* A project is refused only for a cycle or a header that does not parse, and
\* mkBuildMods, which looks for neither, gets no tree with one.
THEOREM RefusedWithCause == OrderSpec => []RefusedForCause
<1>1. OrderInv => RefusedForCause
  <2> SUFFICES ASSUME OrderInv, phase = "order"
               PROVE  Acyclic(Links, Reach) /\ Reach \cap Broken = {}
    BY DEF OrderInv, Refused, RefusedForCause, Reach
  <2> QED
    BY DEF OrderInv, Walking, Done
<1> QED
    BY <1>1, InitOrderInv, NextOrderInv, PTL DEF OrderSpec
=============================================================================
