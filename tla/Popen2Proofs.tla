----------------------------- MODULE Popen2Proofs -----------------------------
(***************************************************************************)
(* What Popen2 guarantees for any children, threads inside popen2 at the   *)
(* same time, limits of descriptors and pipes, and standard streams of the *)
(* program.                                                                *)
(***************************************************************************)
EXTENDS Popen2, FiniteSetTheorems, WellFoundedInduction, TLAPS

-----------------------------------------------------------------------------
(***************************************************************************)
(* The invariant                                                           *)
(***************************************************************************)

Table == [Fd -> End \cup {Std[1], Std[2], Std[3], Closed}]

\* What pipes[i] of the popen2 of k is open on.
EndAt(k, i) == <<k, IF i \in {0, 1} THEN "out" ELSE "in",
                    IF i \in {0, 2} THEN "r" ELSE "w">>

\* The i for which the program has pipes[i] open.
Owns(k) ==
    {i \in 0..3 : \/ pc[k] \in {"two", "flushed", "forked", "nofork"}
                  \/ pc[k] = "one" /\ i \in {0, 1}
                  \/ pc[k] = "open" /\ i = 3
                  \/ rd[k] = "open" /\ i = 0}

\* The table t has pipes[i] of k open for the i of I, and no other end of k.
HasOnly(t, k, pipes, I) ==
    /\ \A i \in I : t[pipes[i]] = EndAt(k, i)
    /\ \A f \in Fd : t[f] \in EndsOf(k) => \E i \in I : f = pipes[i]

Standard(t) == {0, 1} \subseteq Fd /\ t[0] = Std[1] /\ t[1] = Std[2]

Stages == {"idle", "one", "two", "flushed", "forked", "null", "nofork",
           "open", "closed", "waited"}

Typed ==
    /\ fds \in [Process -> Table]
    /\ pfd \in [Child -> [0..3 -> Fd]]
    /\ pc \in [Child -> Stages]
    /\ rd \in [Child -> {"no", "open", "eof"}]
    /\ st \in [Child -> {"none", "forked", "running", "exited", "failed"}]
    /\ content \in [Child \X {"in", "out"} -> 0..Cap]
    /\ buf \in [Process -> [Stream -> Nat]]
    /\ put \in [Stream -> Nat] /\ got \in [Stream -> Nat]
    /\ heard \in [Child -> Nat] /\ said \in [Child -> Nat]
    /\ late \in BOOLEAN

\* A child exists from its fork on, and its reader from the return of popen2.
InStep ==
    \A k \in Child :
        /\ st[k] = "none" <=>
             pc[k] \in {"idle", "one", "two", "flushed", "null", "nofork"}
        /\ rd[k] = "no" <=> pc[k] \notin {"open", "closed", "waited"}

\* The program has the ends that its threads own, where pipes says, and has
\* lost none.  It may have no standard streams but never moves them.
ParentTable ==
    /\ \A k \in Child : HasOnly(fds["parent"], k, pfd[k], Owns(k))
    /\ \A f \in Fd : /\ fds["parent"][f] = Std[1] => f = 0
                     /\ fds["parent"][f] = Std[2] => f = 1

\* A child has all four ends until it runs the command, and its own then.
ChildTable(k) ==
    /\ st[k] = "forked" =>
         /\ HasOnly(fds[k], k, pfd[k], 0..3)
         /\ Standard(fds["parent"]) => Standard(fds[k])
    /\ st[k] = "running" /\ Standard(fds["parent"]) =>
         /\ Wired(k)
         /\ \A f \in Fd \ {0, 1} : fds[k][f] \notin EndsOf(k)
ChildTables == \A k \in Child : ChildTable(k)

\* What is printed is in the buffer or out, and a copy of the buffer that is
\* not empty was made after a late print.
Printed ==
    /\ got["stdout"] + buf["parent"]["stdout"] = put["stdout"]
    /\ put["stdout"] <= MaxPrint
    /\ \A k \in Child : buf[k]["stdout"] <= put["stdout"]
    /\ ~late => \A k \in Child :
         /\ pc[k] = "flushed" => buf["parent"]["stdout"] = 0
         /\ st[k] = "forked" => buf[k]["stdout"] = 0

\* What a child said is in the pipe or heard, and its reader comes to the end
\* only when the child has: nobody else can have the last word.
Told(k) ==
    /\ heard[k] + content[<<k, "out">>] >= said[k]
    /\ ~late => heard[k] + content[<<k, "out">>] = said[k]
    /\ st[k] \in {"none", "forked"} => content[<<k, "out">>] = 0
    /\ st[k] = "exited" => said[k] >= MaxSay[k]
    /\ rd[k] = "eof" /\ Standard(fds["parent"]) =>
         /\ st[k] \in {"exited", "failed"}
         /\ st[k] = "exited" => heard[k] >= MaxSay[k]
Output == \A k \in Child : Told(k)

\* A child that reads its input does not exit before it is closed, so that
\* what the program sends has a reader.
Served(k) ==
    /\ pc[k] \in {"forked", "open"} => st[k] # "exited"
    /\ (\A j \in Child : st[j] # "failed") =>
         got[k] + content[<<k, "in">>] + buf["parent"][k] = put[k]
Input == Standard(fds["parent"]) => \A k \in Child : Served(k)

\* The inductive invariant
IInv == /\ Typed /\ InStep /\ ParentTable /\ ChildTables
        /\ Printed /\ Output /\ Input

-----------------------------------------------------------------------------
(***************************************************************************)
(* Descriptors and tables                                                  *)
(***************************************************************************)

\* What descriptors are open on is told apart.
LEMMA Apart ==
    /\ Std[1] # Std[2] /\ Std[1] # Closed /\ Std[2] # Closed
    /\ Std[3] \notin {Std[1], Std[2], Closed}
    /\ \A k \in Child :
         /\ {Std[1], Std[2], Std[3], Closed} \cap EndsOf(k) = {}
         /\ EndsOf(k) \subseteq End
         /\ \A i \in 0..3 : EndAt(k, i) \in EndsOf(k)
         /\ \A i, j \in 0..3 : EndAt(k, i) = EndAt(k, j) => i = j
         /\ \A j \in Child \ {k} : EndsOf(j) \cap EndsOf(k) = {}
<1>1. /\ Std[1] # Std[2] /\ Std[1] # Closed /\ Std[2] # Closed
      /\ Std[3] \notin {Std[1], Std[2], Closed}
    BY DEF Std, Closed
<1>2. ASSUME NEW k \in Child
      PROVE  {Std[1], Std[2], Std[3], Closed} \cap EndsOf(k) = {}
    BY DEF Std, Closed, EndsOf
<1>3. ASSUME NEW k \in Child PROVE EndsOf(k) \subseteq End
    BY DEF End
<1>4. ASSUME NEW k \in Child, NEW i \in 0..3 PROVE EndAt(k, i) \in EndsOf(k)
    BY DEF EndAt, EndsOf
<1>5. ASSUME NEW k \in Child, NEW i \in 0..3, NEW j \in 0..3, EndAt(k, i) = EndAt(k, j)
      PROVE  i = j
    BY <1>5 DEF EndAt
<1>6. ASSUME NEW k \in Child, NEW j \in Child \ {k} PROVE EndsOf(j) \cap EndsOf(k) = {}
    BY DEF EndsOf
<1> QED
    BY <1>1, <1>2, <1>3, <1>4, <1>5, <1>6

\* A set of numbers that is not empty has a least one.
LEMMA LeastOf ==
    ASSUME NEW S \in SUBSET Nat, S # {}
    PROVE  Min(S) \in S
<1>1. PICK n \in S : \A k \in S : <<k, n>> \notin OpToRel(<, Nat)
    BY WFMin, NatLessThanWellFounded, Zenon
<1>2. \A j, k \in Nat : j < k => <<j, k>> \in OpToRel(<, Nat)
    BY Zenon DEF OpToRel
<1>3. \A k \in S : ~(k < n)
    BY <1>1, <1>2, Zenon
<1>4. \A k \in S : n <= k
    BY <1>3
<1> QED
    BY <1>4 DEF Min

\* pipe opens two closed descriptors.
LEMMA OpensTwo ==
    ASSUME NEW t, Cardinality(Free(t)) >= 2
    PROVE  /\ LowPair(t)[1] \in Free(t) /\ LowPair(t)[2] \in Free(t)
           /\ LowPair(t)[1] # LowPair(t)[2]
<1> DEFINE r == Min(Free(t))
<1>1. Free(t) \subseteq Nat /\ IsFiniteSet(Free(t))
  <2>1. Free(t) \subseteq 0..MaxFd /\ MaxFd \in Nat
    BY SizesAssumption DEF Free, Fd
  <2>2. IsFiniteSet(0..MaxFd)
    BY <2>1, FS_Interval
  <2> QED
    BY <2>1, <2>2, FS_Subset
<1>2. Free(t) # {}
    BY FS_EmptySet
<1>3. r \in Free(t)
    BY <1>1, <1>2, LeastOf
<1>4. Free(t) \ {r} # {}
  <2>1. /\ IsFiniteSet(Free(t) \ {r})
        /\ Cardinality(Free(t) \ {r}) = Cardinality(Free(t)) - 1
    BY <1>1, <1>3, FS_RemoveElement
  <2>2. Cardinality(Free(t)) \in Nat
    BY <1>1, FS_CardinalityType
  <2> QED
    BY <2>1, <2>2, FS_EmptySet
<1>5. Min(Free(t) \ {r}) \in Free(t) \ {r}
    BY <1>1, <1>4, LeastOf
<1> QED
    BY <1>3, <1>5 DEF LowPair

\* Putting the pipes in place in the child of a program with standard streams.
LEMMA WiresChild ==
    ASSUME NEW t \in Table, NEW k \in Child, NEW p \in [0..3 -> Fd],
           HasOnly(t, k, p, 0..3), Standard(t)
    PROVE  /\ Wire(t, p)[0] = <<k, "in", "r">> /\ Wire(t, p)[1] = <<k, "out", "w">>
           /\ \A f \in Fd \ {0, 1} : Wire(t, p)[f] \notin EndsOf(k)
<1>1. \A i \in 0..3 : p[i] \in Fd /\ p[i] # 0 /\ p[i] # 1 /\ t[p[i]] \in EndsOf(k) /\ t[p[i]] # Closed
    BY Apart DEF HasOnly, Standard
<1>2. \A i, j \in 0..3 : p[i] = p[j] => i = j
    BY Apart DEF HasOnly
<1>3. t[p[1]] = <<k, "out", "w">> /\ t[p[2]] = <<k, "in", "r">>
    BY DEF HasOnly, EndAt
<1>4. p[0] # p[1] /\ p[0] # p[2] /\ p[1] # p[2] /\ p[3] # p[1] /\ p[3] # p[2] /\ p[0] # p[3]
    BY <1>2
<1> DEFINE t1 == Dup2(Close(t, 1), p[1], 1)
           t2 == Close(Close(t1, p[0]), p[1])
           t3 == Dup2(Close(t2, 0), p[2], 0)
           w  == Close(Close(t3, p[2]), p[3])
<1>5. t1 = [t EXCEPT ![1] = t[p[1]]]
    BY <1>1 DEF Dup2, Close, Table, Standard
<1>6. t2 = [t EXCEPT ![1] = t[p[1]], ![p[0]] = Closed, ![p[1]] = Closed]
    BY <1>5 DEF Close
<1>7. t3 = [t2 EXCEPT ![0] = t[p[2]]]
    BY <1>1, <1>4, <1>6 DEF Dup2, Close, Table, Standard
<1>8. w = [t3 EXCEPT ![p[2]] = Closed, ![p[3]] = Closed]
    BY DEF Close
<1>9. ASSUME NEW f \in Fd
      PROVE  /\ f = 0 => w[f] = t[p[2]]
             /\ f = 1 => w[f] = t[p[1]]
             /\ f \in {p[0], p[1], p[2], p[3]} => w[f] = Closed
             /\ f \notin {0, 1, p[0], p[1], p[2], p[3]} => w[f] = t[f]
    BY <1>1, <1>6, <1>7, <1>8 DEF Table, Standard
<1>10. w = Wire(t, p)
    BY DEF Wire
<1> HIDE DEF w
<1>11. w[0] = <<k, "in", "r">> /\ w[1] = <<k, "out", "w">>
  <2>1. 0 \in Fd /\ 1 \in Fd
    BY DEF Standard
  <2>2. w[0] = t[p[2]]
    BY <1>9, <2>1
  <2>3. w[1] = t[p[1]]
    BY <1>9, <2>1
  <2> QED
    BY <1>3, <2>2, <2>3
<1>12. ASSUME NEW f \in Fd \ {0, 1} PROVE w[f] \notin EndsOf(k)
  <2>1. CASE f \in {p[0], p[1], p[2], p[3]}
    BY <1>9, <2>1, Apart
  <2>2. CASE f \notin {p[0], p[1], p[2], p[3]}
    BY <1>9, <2>2 DEF HasOnly
  <2> QED
    BY <2>1, <2>2
<1> QED
    BY <1>10, <1>11, <1>12

\* Of the tables t and u, the descriptors that are not ends of k are the same.
SameBut(t, u, k) ==
    \A f \in Fd : t[f] = u[f] \/ {t[f], u[f]} \subseteq EndsOf(k) \cup {Closed}

\* Closing an end.
LEMMA ClosesOwn ==
    ASSUME NEW t \in Table, NEW k \in Child, NEW p \in [0..3 -> Fd],
           NEW I \in SUBSET (0..3), NEW i \in I, HasOnly(t, k, p, I)
    PROVE  /\ Close(t, p[i]) \in Table
           /\ HasOnly(Close(t, p[i]), k, p, I \ {i})
           /\ SameBut(Close(t, p[i]), t, k)
<1> DEFINE u == Close(t, p[i])
<1>1. /\ u \in Table /\ u[p[i]] = Closed
      /\ \A f \in Fd : f # p[i] => u[f] = t[f]
    BY DEF Close, Table
<1>2. t[p[i]] \in EndsOf(k)
    BY Apart DEF HasOnly
<1>3. \A j \in I \ {i} : p[j] \in Fd /\ p[j] # p[i]
    BY Apart DEF HasOnly
<1> HIDE DEF u
<1>4. HasOnly(u, k, p, I \ {i})
  <2>1. \A j \in I \ {i} : u[p[j]] = EndAt(k, j)
    BY <1>1, <1>3 DEF HasOnly
  <2>2. ASSUME NEW f \in Fd, u[f] \in EndsOf(k) PROVE \E j \in I \ {i} : f = p[j]
    <3>1. f # p[i] /\ t[f] \in EndsOf(k)
      BY <1>1, <2>2, Apart
    <3> QED
      BY <3>1 DEF HasOnly
  <2> QED
    BY <2>1, <2>2 DEF HasOnly
<1>5. SameBut(u, t, k)
    BY <1>1, <1>2 DEF SameBut
<1> QED
    BY <1>1, <1>4, <1>5 DEF u

\* Opening the two ends of a pipe, pipes[m] and pipes[m + 1].
Way(m) == IF m = 0 THEN "out" ELSE "in"
Opened(p, t, m) == [p EXCEPT ![m] = LowPair(t)[1], ![m + 1] = LowPair(t)[2]]

\* A thread that opens a pipe has its two descriptors besides those it had.
LEMMA OpensOwn ==
    ASSUME NEW t \in Table, NEW k \in Child, NEW p \in [0..3 -> Fd],
           NEW I \in SUBSET (0..3), HasOnly(t, k, p, I), Cardinality(Free(t)) >= 2,
           NEW m \in {0, 2}, I \cap {m, m + 1} = {}
    PROVE  /\ OpenPipe(t, k, Way(m)) \in Table /\ Opened(p, t, m) \in [0..3 -> Fd]
           /\ HasOnly(OpenPipe(t, k, Way(m)), k, Opened(p, t, m), I \cup {m, m + 1})
           /\ SameBut(OpenPipe(t, k, Way(m)), t, k)
<1> DEFINE u == OpenPipe(t, k, Way(m))
           q == Opened(p, t, m)
           a == LowPair(t)[1]
           b == LowPair(t)[2]
<1>1. /\ a \in Fd /\ t[a] = Closed
      /\ b \in Fd /\ t[b] = Closed
      /\ a # b
    BY OpensTwo DEF Free
<1>2. EndAt(k, m) \in EndsOf(k) /\ EndAt(k, m + 1) \in EndsOf(k)
    BY Apart
<1>3. u = [t EXCEPT ![a] = EndAt(k, m), ![b] = EndAt(k, m + 1)]
  <2>1. <<k, Way(m), "r">> = EndAt(k, m) /\ <<k, Way(m), "w">> = EndAt(k, m + 1)
    BY DEF EndAt, Way
  <2> QED
    BY <2>1 DEF OpenPipe
<1> HIDE DEF u, q, a, b
<1>4. /\ u \in Table /\ u[a] = EndAt(k, m) /\ u[b] = EndAt(k, m + 1)
      /\ \A f \in Fd \ {a, b} : u[f] = t[f]
    BY <1>1, <1>2, <1>3, Apart DEF Table
<1>5. /\ q \in [0..3 -> Fd] /\ q[m] = a /\ q[m + 1] = b
      /\ \A i \in I : q[i] = p[i]
  <2>1. q = [p EXCEPT ![m] = a, ![m + 1] = b]
    BY DEF a, b, q, Opened
  <2>2. m \in 0..3 /\ m + 1 \in 0..3 /\ m # m + 1
    OBVIOUS
  <2> QED
    BY <1>1, <2>1, <2>2
<1>6. HasOnly(u, k, q, I \cup {m, m + 1})
  <2>1. ASSUME NEW i \in I PROVE u[q[i]] = EndAt(k, i)
    <3>1. p[i] \in Fd /\ t[p[i]] = EndAt(k, i) /\ t[p[i]] # Closed
      BY Apart DEF HasOnly
    <3> QED
      BY <1>1, <1>4, <1>5, <3>1
  <2>2. ASSUME NEW f \in Fd, u[f] \in EndsOf(k) PROVE \E i \in I \cup {m, m + 1} : f = q[i]
    <3>1. f \in {a, b} \/ t[f] \in EndsOf(k)
      BY <1>4, <2>2
    <3>2. CASE f \in {a, b}
      BY <1>5, <3>2
    <3>3. CASE t[f] \in EndsOf(k)
      <4>1. PICK i \in I : f = p[i]
        BY <3>3 DEF HasOnly
      <4> QED
        BY <4>1, <1>5
    <3> QED
      BY <3>1, <3>2, <3>3
  <2> QED
    BY <1>4, <1>5, <2>1, <2>2 DEF HasOnly
<1>7. SameBut(u, t, k)
    BY <1>1, <1>2, <1>4 DEF SameBut
<1> QED
    BY <1>4, <1>5, <1>6, <1>7 DEF u, q

-----------------------------------------------------------------------------
(***************************************************************************)
(* The table of the program                                                *)
(***************************************************************************)

\* What a step of a thread of k does to the table leaves the others as they
\* were, and the standard streams too.
LEMMA ParentStep ==
    ASSUME Typed, ParentTable, NEW k \in Child,
           SameBut(fds'["parent"], fds["parent"], k),
           HasOnly(fds'["parent"], k, pfd'[k], Owns(k)'),
           \A j \in Child \ {k} :
             pfd'[j] = pfd[j] /\ pc'[j] = pc[j] /\ rd'[j] = rd[j]
    PROVE  ParentTable' /\ (Standard(fds'["parent"]) <=> Standard(fds["parent"]))
<1> DEFINE t == fds["parent"]
           u == fds'["parent"]
<1>1. ASSUME NEW j \in Child \ {k} PROVE HasOnly(u, j, pfd'[j], Owns(j)')
  <2>1. Owns(j)' = Owns(j) /\ Owns(j) \subseteq 0..3
    BY DEF Owns
  <2>2. \A f \in Fd : t[f] \in EndsOf(j) \/ u[f] \in EndsOf(j) => u[f] = t[f]
    BY Apart DEF SameBut
  <2>3. HasOnly(t, j, pfd[j], Owns(j))
    BY DEF ParentTable
  <2>4. \A i \in Owns(j) : pfd[j][i] \in Fd /\ t[pfd[j][i]] \in EndsOf(j)
    <3>1. \A i \in Owns(j) : pfd[j][i] \in Fd
      BY <2>1 DEF Typed
    <3> QED
      BY <2>1, <2>3, <3>1, Apart DEF HasOnly
  <2> HIDE DEF t, u
  <2>5. pfd'[j] = pfd[j]
    OBVIOUS
  <2>6. HasOnly(u, j, pfd[j], Owns(j))
    BY <2>2, <2>3, <2>4 DEF HasOnly
  <2> QED
    BY <2>1, <2>5, <2>6
<1>2. \A f \in Fd : \A s \in {Std[1], Std[2]} : t[f] = s <=> u[f] = s
    BY Apart DEF SameBut
<1>3. Standard(u) <=> Standard(t)
    BY <1>2 DEF Standard
<1> QED
    BY <1>1, <1>2, <1>3 DEF ParentTable

\* What holds of the table after any step.
Kept == /\ fds'["parent"] \in Table /\ pfd' \in [Child -> [0..3 -> Fd]]
        /\ ParentTable'
        /\ Standard(fds'["parent"]) <=> Standard(fds["parent"])

\* A step that moves no descriptor of the program.
LEMMA KeptAsItWas ==
    ASSUME Typed, ParentTable, fds'["parent"] = fds["parent"], pfd' = pfd,
           \A j \in Child : Owns(j)' = Owns(j)
    PROVE  Kept
<1>1. fds["parent"] \in Table
    BY DEF Typed, Process
<1> QED
    BY <1>1 DEF Kept, Typed, ParentTable

\* A step of the thread or the reader of k that closes the end of pipes[i].
LEMMA KeptClosing ==
    ASSUME Typed, ParentTable, NEW k \in Child, NEW i \in Owns(k),
           fds' = [fds EXCEPT !["parent"] = Close(@, pfd[k][i])], pfd' = pfd,
           Owns(k)' = Owns(k) \ {i},
           \A j \in Child \ {k} : pc'[j] = pc[j] /\ rd'[j] = rd[j]
    PROVE  Kept
<1> DEFINE t == fds["parent"]
<1>1. t \in Table /\ pfd[k] \in [0..3 -> Fd] /\ Owns(k) \in SUBSET (0..3)
    BY DEF Typed, Process, Owns
<1>2. HasOnly(t, k, pfd[k], Owns(k))
    BY DEF ParentTable
<1>3. fds'["parent"] = Close(t, pfd[k][i])
    BY DEF Typed, Process
<1> HIDE DEF t
<1>4. /\ Close(t, pfd[k][i]) \in Table
      /\ HasOnly(Close(t, pfd[k][i]), k, pfd[k], Owns(k) \ {i})
      /\ SameBut(Close(t, pfd[k][i]), t, k)
    BY <1>1, <1>2, ClosesOwn
<1>5. /\ SameBut(fds'["parent"], fds["parent"], k)
      /\ HasOnly(fds'["parent"], k, pfd'[k], Owns(k)')
    BY <1>3, <1>4 DEF t
<1>6. \A j \in Child \ {k} : pfd'[j] = pfd[j] /\ pc'[j] = pc[j] /\ rd'[j] = rd[j]
    OBVIOUS
<1> QED
    BY <1>3, <1>4, <1>5, <1>6, ParentStep DEF Kept, Typed

\* A step that closes those of two.
LEMMA KeptClosingTwo ==
    ASSUME Typed, ParentTable, NEW k \in Child, NEW i \in Owns(k),
           NEW j \in Owns(k) \ {i},
           fds' = [fds EXCEPT !["parent"] = Close(Close(@, pfd[k][i]), pfd[k][j])],
           pfd' = pfd, Owns(k)' = Owns(k) \ {i, j},
           \A l \in Child \ {k} : pc'[l] = pc[l] /\ rd'[l] = rd[l]
    PROVE  Kept
<1> DEFINE t == fds["parent"]
           u == Close(t, pfd[k][i])
           v == Close(u, pfd[k][j])
<1>1. t \in Table /\ pfd[k] \in [0..3 -> Fd] /\ Owns(k) \in SUBSET (0..3)
    BY DEF Typed, Process, Owns
<1>2. HasOnly(t, k, pfd[k], Owns(k))
    BY DEF ParentTable
<1>3. fds'["parent"] = v
    BY DEF Typed, Process
<1> HIDE DEF t
<1>4. u \in Table /\ HasOnly(u, k, pfd[k], Owns(k) \ {i}) /\ SameBut(u, t, k)
    BY <1>1, <1>2, ClosesOwn
<1> HIDE DEF u
<1>5. /\ v \in Table /\ HasOnly(v, k, pfd[k], (Owns(k) \ {i}) \ {j})
      /\ SameBut(v, u, k)
    BY <1>1, <1>4, ClosesOwn
<1>6. (Owns(k) \ {i}) \ {j} = Owns(k)'
    OBVIOUS
<1>7. SameBut(v, t, k)
    BY <1>4, <1>5 DEF SameBut
<1> HIDE DEF v
<1>8. /\ SameBut(fds'["parent"], fds["parent"], k)
      /\ HasOnly(fds'["parent"], k, pfd'[k], Owns(k)')
    BY <1>3, <1>5, <1>6, <1>7 DEF t
<1>9. \A l \in Child \ {k} : pfd'[l] = pfd[l] /\ pc'[l] = pc[l] /\ rd'[l] = rd[l]
    OBVIOUS
<1> QED
    BY <1>3, <1>5, <1>8, <1>9, ParentStep DEF Kept, Typed

\* A step that opens those of pipes[m] and pipes[m + 1].
LEMMA KeptOpening ==
    ASSUME Typed, ParentTable, NEW k \in Child, NEW m \in {0, 2},
           Cardinality(Free(fds["parent"])) >= 2,
           fds' = [fds EXCEPT !["parent"] = OpenPipe(fds["parent"], k, Way(m))],
           pfd' = [pfd EXCEPT ![k][m] = LowPair(fds["parent"])[1],
                              ![k][m + 1] = LowPair(fds["parent"])[2]],
           Owns(k) \cap {m, m + 1} = {}, Owns(k)' = Owns(k) \cup {m, m + 1},
           \A j \in Child \ {k} : pc'[j] = pc[j] /\ rd'[j] = rd[j]
    PROVE  Kept
<1> DEFINE t == fds["parent"]
           u == OpenPipe(t, k, Way(m))
           q == Opened(pfd[k], t, m)
<1>1. t \in Table /\ pfd[k] \in [0..3 -> Fd] /\ Owns(k) \in SUBSET (0..3)
    BY DEF Typed, Process, Owns
<1>2. HasOnly(t, k, pfd[k], Owns(k))
    BY DEF ParentTable
<1>3. fds'["parent"] = u
    BY DEF Typed, Process
<1>4. pfd'[k] = q /\ DOMAIN pfd' = Child /\ \A j \in Child \ {k} : pfd'[j] = pfd[j]
    BY DEF Typed, Opened
<1>5. Cardinality(Free(t)) >= 2
    OBVIOUS
<1> HIDE DEF t, u, q
<1>6. /\ u \in Table /\ q \in [0..3 -> Fd]
      /\ HasOnly(u, k, q, Owns(k) \cup {m, m + 1}) /\ SameBut(u, t, k)
    BY <1>1, <1>2, <1>5, OpensOwn DEF u, q
<1>7. /\ SameBut(fds'["parent"], fds["parent"], k)
      /\ HasOnly(fds'["parent"], k, pfd'[k], Owns(k)')
    BY <1>3, <1>4, <1>6 DEF t
<1>8. ParentTable' /\ (Standard(fds'["parent"]) <=> Standard(fds["parent"]))
  <2>1. \A j \in Child \ {k} : pfd'[j] = pfd[j] /\ pc'[j] = pc[j] /\ rd'[j] = rd[j]
    BY <1>4
  <2> QED
    BY <1>7, <2>1, ParentStep
<1>9. pfd' \in [Child -> [0..3 -> Fd]]
  <2>1. \A j \in Child : pfd'[j] \in [0..3 -> Fd]
    BY <1>4, <1>6 DEF Typed
  <2>2. pfd' = [j \in Child |-> pfd'[j]]
    BY DEF Typed
  <2> QED
    BY <2>1, <2>2
<1> QED
    BY <1>3, <1>6, <1>8, <1>9 DEF Kept

\* The threads and readers keep what is owned in step with the table, which
\* children and prints leave alone.
LEMMA NextParent == ASSUME IInv, [Next]_vars PROVE Kept
<1> USE ChildAssumption DEF IInv
<1>0. ASSUME fds'["parent"] = fds["parent"], pfd' = pfd, pc' = pc, rd' = rd PROVE Kept
  <2>1. \A j \in Child : Owns(j)' = Owns(j)
    BY <1>0 DEF Owns
  <2> QED
    BY <1>0, <2>1, KeptAsItWas
<1>1. ASSUME NEW k \in Child, OutPipe(k) PROVE Kept
  <2>1. pc[k] = "idle" /\ rd[k] = "no" /\ rd' = rd
    BY <1>1 DEF OutPipe, InStep
  <2>2. Owns(k) = {}
    BY <2>1 DEF Owns
  <2>3. CASE UNCHANGED <<pfd, fds>> /\ pc' = [pc EXCEPT ![k] = "null"]
    <3>1. \A j \in Child : Owns(j)' = Owns(j)
      BY <2>1, <2>3 DEF Owns, Typed
    <3> QED
      BY <2>3, <3>1, KeptAsItWas
  <2>4. CASE /\ Cardinality(Free(fds["parent"])) >= 2
             /\ pfd' = [pfd EXCEPT ![k][0] = LowPair(fds["parent"])[1],
                                   ![k][1] = LowPair(fds["parent"])[2]]
             /\ fds' = [fds EXCEPT !["parent"] = OpenPipe(fds["parent"], k, "out")]
             /\ pc' = [pc EXCEPT ![k] = "one"]
    <3>1. Owns(k)' = {0, 1}
      BY <2>1, <2>4 DEF Owns, Typed
    <3>2. Way(0) = "out"
      BY DEF Way
    <3>3. \A j \in Child \ {k} : pc'[j] = pc[j] /\ rd'[j] = rd[j]
      BY <2>1, <2>4 DEF Typed
    <3>4. /\ pfd' = [pfd EXCEPT ![k][0] = LowPair(fds["parent"])[1],
                                ![k][0 + 1] = LowPair(fds["parent"])[2]]
          /\ Owns(k) \cap {0, 0 + 1} = {} /\ Owns(k)' = Owns(k) \cup {0, 0 + 1}
      BY <2>2, <2>4, <3>1, <3>2
    <3> QED
      BY <2>4, <3>2, <3>3, <3>4, KeptOpening
  <2> QED
    BY <1>1, <2>3, <2>4 DEF OutPipe
<1>2. ASSUME NEW k \in Child, InPipe(k) PROVE Kept
  <2>1. pc[k] = "one" /\ rd[k] = "no" /\ rd' = rd
    BY <1>2 DEF InPipe, InStep
  <2>2. Owns(k) = {0, 1}
    BY <2>1 DEF Owns
  <2>3. CASE /\ fds' = [fds EXCEPT !["parent"] =
                          Close(Close(fds["parent"], pfd[k][0]), pfd[k][1])]
             /\ pc' = [pc EXCEPT ![k] = "null"]
             /\ UNCHANGED pfd
    <3>1. Owns(k)' = Owns(k) \ {0, 1}
      BY <2>1, <2>2, <2>3 DEF Owns, Typed
    <3>2. 0 \in Owns(k) /\ 1 \in Owns(k) \ {0}
      BY <2>2
    <3>3. \A j \in Child \ {k} : pc'[j] = pc[j] /\ rd'[j] = rd[j]
      BY <2>1, <2>3 DEF Typed
    <3> QED
      BY <2>3, <3>1, <3>2, <3>3, KeptClosingTwo
  <2>4. CASE /\ Cardinality(Free(fds["parent"])) >= 2
             /\ pfd' = [pfd EXCEPT ![k][2] = LowPair(fds["parent"])[1],
                                   ![k][3] = LowPair(fds["parent"])[2]]
             /\ fds' = [fds EXCEPT !["parent"] = OpenPipe(fds["parent"], k, "in")]
             /\ pc' = [pc EXCEPT ![k] = "two"]
    <3>1. Owns(k)' = 0..3
      BY <2>1, <2>4 DEF Owns, Typed
    <3>2. Way(2) = "in"
      BY DEF Way
    <3>3. \A j \in Child \ {k} : pc'[j] = pc[j] /\ rd'[j] = rd[j]
      BY <2>1, <2>4 DEF Typed
    <3>4. /\ pfd' = [pfd EXCEPT ![k][2] = LowPair(fds["parent"])[1],
                                ![k][2 + 1] = LowPair(fds["parent"])[2]]
          /\ Owns(k) \cap {2, 2 + 1} = {} /\ Owns(k)' = Owns(k) \cup {2, 2 + 1}
      BY <2>2, <2>4, <3>1, <3>2
    <3> QED
      BY <2>4, <3>2, <3>3, <3>4, KeptOpening
  <2> QED
    BY <1>2, <2>3, <2>4 DEF InPipe
<1>3. ASSUME NEW k \in Child, Flush(k) \/ Fork(k) \/ WaitByPid(k) PROVE Kept
  <2>1. fds'["parent"] = fds["parent"] /\ pfd' = pfd
    BY <1>3 DEF Flush, Fork, WaitByPid, Typed, Process
  <2>2. \A j \in Child : Owns(j)' = Owns(j)
    BY <1>3 DEF Flush, Fork, WaitByPid, Owns, Typed
  <2> QED
    BY <2>1, <2>2, KeptAsItWas
<1>4. ASSUME NEW k \in Child, Return(k) PROVE Kept
  <2>1. Owns(k) = 0..3 /\ Owns(k)' = {0, 3}
    BY <1>4 DEF Return, Owns, Typed
  <2>2. 1 \in Owns(k) /\ 2 \in Owns(k) \ {1} /\ Owns(k)' = Owns(k) \ {1, 2}
    BY <2>1
  <2>3. \A j \in Child \ {k} : pc'[j] = pc[j] /\ rd'[j] = rd[j]
    BY <1>4 DEF Return, Typed
  <2>4. /\ fds' = [fds EXCEPT !["parent"] = Close(Close(@, pfd[k][1]), pfd[k][2])]
        /\ pfd' = pfd
    BY <1>4 DEF Return
  <2> QED
    BY <2>2, <2>3, <2>4, KeptClosingTwo
<1>5. ASSUME NEW k \in Child, CloseIn(k) PROVE Kept
  <2>1. 3 \in Owns(k) /\ Owns(k)' = Owns(k) \ {3}
    BY <1>5 DEF CloseIn, Owns, Typed
  <2>2. \A j \in Child \ {k} : pc'[j] = pc[j] /\ rd'[j] = rd[j]
    BY <1>5 DEF CloseIn, Typed
  <2>3. fds' = [fds EXCEPT !["parent"] = Close(@, pfd[k][3])] /\ pfd' = pfd
    BY <1>5 DEF CloseIn
  <2> QED
    BY <2>1, <2>2, <2>3, KeptClosing
<1>6. ASSUME NEW k \in Child, HearEnd(k) PROVE Kept
  <2>1. pc[k] \in {"open", "closed", "waited"} /\ rd[k] = "open"
    BY <1>6 DEF HearEnd, InStep
  <2>2. 0 \in Owns(k) /\ Owns(k)' = Owns(k) \ {0}
    BY <1>6, <2>1 DEF HearEnd, Owns, Typed
  <2>3. \A j \in Child \ {k} : pc'[j] = pc[j] /\ rd'[j] = rd[j]
    BY <1>6 DEF HearEnd, Typed
  <2>4. fds' = [fds EXCEPT !["parent"] = Close(@, pfd[k][0])] /\ pfd' = pfd
    BY <1>6 DEF HearEnd
  <2> QED
    BY <2>2, <2>3, <2>4, KeptClosing
<1>7. ASSUME NEW k \in Child, Send(k) \/ Hear(k) \/ Running(k) PROVE Kept
    BY <1>0, <1>7 DEF Send, Hear, Running, Exec, ExecFails, Take, Say, Exit,
                   Typed, Process
<1>8. CASE PutStr
    BY <1>0, <1>8 DEF PutStr
<1>9. CASE UNCHANGED vars
    BY <1>0, <1>9 DEF vars
<1> QED
    BY <1>1, <1>2, <1>3, <1>4, <1>5, <1>6, <1>7, <1>8, <1>9
       DEF Next, Thread, Reader, Done

-----------------------------------------------------------------------------
(***************************************************************************)
(* The tables of the children                                              *)
(***************************************************************************)

\* A child gets its table at the fork and changes it when it runs the command.
LEMMA NextChildren == ASSUME IInv, Kept, [Next]_vars PROVE ChildTables'
<1> USE ChildAssumption DEF IInv
<1>1. Standard(fds["parent"]) <=> Standard(fds["parent"])'
    BY DEF Kept
<1>2. ASSUME NEW j \in Child, fds'[j] = fds[j], st'[j] = st[j],
             pfd'[j] = pfd[j] \/ st[j] = "none"
      PROVE  ChildTable(j)'
    BY <1>1, <1>2 DEF ChildTables, ChildTable, Wired
<1>3. ASSUME NEW j \in Child, st'[j] \in {"exited", "failed"} PROVE ChildTable(j)'
    BY <1>3 DEF ChildTable
<1>4. ASSUME UNCHANGED <<pfd, st>>, \A j \in Child : fds'[j] = fds[j] PROVE ChildTables'
    BY <1>2, <1>4 DEF ChildTables
<1>5. ASSUME NEW k \in Child, OutPipe(k) \/ InPipe(k) PROVE ChildTables'
  <2>1. /\ st' = st /\ st[k] = "none"
        /\ \A j \in Child : fds'[j] = fds[j]
        /\ \A j \in Child \ {k} : pfd'[j] = pfd[j]
    BY <1>5 DEF OutPipe, InPipe, InStep, Typed, Process
  <2> QED
    BY <1>2, <2>1 DEF ChildTables
<1>6. ASSUME NEW k \in Child, Fork(k) PROVE ChildTables'
  <2>1. CASE UNCHANGED <<fds, st>>
    BY <1>4, <1>6, <2>1 DEF Fork
  <2>2. CASE fds' = [fds EXCEPT ![k] = fds["parent"]] /\ st' = [st EXCEPT ![k] = "forked"]
    <3>1. /\ fds'[k] = fds["parent"] /\ st'[k] = "forked" /\ pfd' = pfd
          /\ \A j \in Child \ {k} : fds'[j] = fds[j] /\ st'[j] = st[j]
      BY <1>6, <2>2 DEF Fork, Typed, Process
    <3>2. Owns(k) = 0..3
      BY <1>6 DEF Fork, Owns
    <3>3. HasOnly(fds["parent"], k, pfd[k], 0..3)
      BY <3>2 DEF ParentTable
    <3>4. ChildTable(k)'
      BY <1>1, <3>1, <3>3 DEF ChildTable
    <3> QED
      BY <1>2, <3>1, <3>4 DEF ChildTables
  <2> QED
    BY <1>6, <2>1, <2>2 DEF Fork
<1>7. ASSUME NEW k \in Child, Exec(k) PROVE ChildTables'
  <2>1. /\ fds'[k] = Wire(fds[k], pfd[k]) /\ st'[k] = "running" /\ pfd' = pfd
        /\ \A j \in Child \ {k} : fds'[j] = fds[j] /\ st'[j] = st[j]
    BY <1>7 DEF Exec, Typed, Process
  <2>2. HasOnly(fds[k], k, pfd[k], 0..3) /\ (Standard(fds["parent"]) => Standard(fds[k]))
    BY <1>7 DEF Exec, ChildTables, ChildTable
  <2>3. fds[k] \in Table /\ pfd[k] \in [0..3 -> Fd]
    BY DEF Typed, Process
  <2>4. ChildTable(k)'
    BY <1>1, <2>1, <2>2, <2>3, WiresChild DEF ChildTable, Wired
  <2> QED
    BY <1>2, <2>1, <2>4 DEF ChildTables
<1>8. ASSUME NEW k \in Child, ExecFails(k) \/ Exit(k) PROVE ChildTables'
  <2>1. /\ st'[k] \in {"exited", "failed"} /\ pfd' = pfd
        /\ \A j \in Child \ {k} : fds'[j] = fds[j] /\ st'[j] = st[j]
    BY <1>8 DEF ExecFails, Exit, Typed, Process
  <2> QED
    BY <1>2, <1>3, <2>1 DEF ChildTables
<1>9. ASSUME NEW k \in Child,
             \/ Flush(k) \/ Return(k) \/ CloseIn(k) \/ WaitByPid(k)
             \/ Send(k) \/ Reader(k) \/ Take(k) \/ Say(k)
      PROVE  ChildTables'
    BY <1>4, <1>9 DEF Flush, Return, CloseIn, WaitByPid, Send, Reader, Hear, HearEnd,
                      Take, Say, Typed, Process
<1>10. CASE PutStr
    BY <1>4, <1>10 DEF PutStr
<1>11. CASE UNCHANGED vars
    BY <1>4, <1>11 DEF vars
<1> QED
    BY <1>5, <1>6, <1>7, <1>8, <1>9, <1>10, <1>11 DEF Next, Thread, Running, Done

-----------------------------------------------------------------------------
(***************************************************************************)
(* Types and stages                                                        *)
(***************************************************************************)

\* No step opens a descriptor beyond the table.
LEMMA TablesTyped == ASSUME IInv, Kept, [Next]_vars PROVE fds' \in [Process -> Table]
<1> USE ChildAssumption
<1>1. Nothing \in Table
    BY DEF Nothing, Table
<1>2. ASSUME NEW t \in Table, NEW f, NEW g \in Fd
      PROVE  Close(t, f) \in Table /\ Dup2(t, g, f) \in Table
  <2>1. t[g] \in End \cup {Std[1], Std[2], Std[3], Closed}
    BY DEF Table
  <2> QED
    BY <2>1 DEF Close, Dup2, Table
<1>3. ASSUME NEW t \in Table, NEW p \in [0..3 -> Fd] PROVE Wire(t, p) \in Table
  <2>1. p[1] \in Fd /\ p[2] \in Fd
    OBVIOUS
  <2>2. Dup2(Close(t, 1), p[1], 1) \in Table
    BY <1>2, <2>1
  <2>3. Close(Close(Dup2(Close(t, 1), p[1], 1), p[0]), p[1]) \in Table
    BY <1>2, <2>1, <2>2
  <2>4. Dup2(Close(Close(Close(Dup2(Close(t, 1), p[1], 1), p[0]), p[1]), 0), p[2], 0)
          \in Table
    BY <1>2, <2>1, <2>3
  <2> QED
    BY <1>2, <2>1, <2>4 DEF Wire
<1>4. \A k \in Child : fds[k] \in Table /\ Wire(fds[k], pfd[k]) \in Table
    BY <1>3 DEF IInv, Typed, Process
<1>5. fds["parent"] \in Table /\ fds'["parent"] \in Table
    BY DEF IInv, Typed, Process, Kept
<1> DEFINE Moves ==
      /\ fds' = [p \in Process |-> fds'[p]]
      /\ \A k \in Child : fds'[k] \in {fds[k], fds["parent"], Nothing, Wire(fds[k], pfd[k])}
<1>6. Moves
  <2> USE DEF IInv, Typed, Process
  <2>1. ASSUME NEW k \in Child, Thread(k) \/ Send(k) \/ Reader(k) PROVE Moves
    BY <2>1 DEF Thread, Send, Reader, OutPipe, InPipe, Flush, Fork, Return,
                CloseIn, WaitByPid, Hear, HearEnd
  <2>2. ASSUME NEW k \in Child, Running(k) PROVE Moves
    BY <2>2 DEF Running, Exec, ExecFails, Take, Say, Exit
  <2> QED
    BY <2>1, <2>2 DEF Next, PutStr, Done, vars
<1>7. \A k \in Child : fds'[k] \in Table
    BY <1>1, <1>4, <1>5, <1>6
<1>8. \A p \in Process : fds'[p] \in Table
    BY <1>5, <1>7 DEF Process
<1> QED
    BY <1>6, <1>8

\* Where the threads and the children are.
Places == /\ pc \in [Child -> Stages]
          /\ rd \in [Child -> {"no", "open", "eof"}]
          /\ st \in [Child -> {"none", "forked", "running", "exited", "failed"}]
          /\ late \in BOOLEAN
          /\ InStep

\* Every step keeps threads, children and pipes where the lines of popen2 have them.
LEMMA NextPlaces == ASSUME IInv, [Next]_vars PROVE Places'
<1>0. Places
    BY DEF IInv, Typed, Places
<1> USE <1>0
<1>1. ASSUME NEW k \in Child, NEW s \in Stages, pc' = [pc EXCEPT ![k] = s],
             UNCHANGED <<rd, st, late>>,
             s \in {"open", "closed", "waited"} <=> pc[k] \in {"open", "closed", "waited"},
             s \in {"forked", "open", "closed", "waited"}
               <=> pc[k] \in {"forked", "open", "closed", "waited"}
      PROVE  Places'
    BY <1>1 DEF Places, InStep, Stages
<1>2. ASSUME NEW k \in Child, OutPipe(k) PROVE Places'
    BY <1>1, <1>2 DEF OutPipe, Places, InStep, Stages
<1>3. ASSUME NEW k \in Child, InPipe(k) PROVE Places'
    BY <1>1, <1>3 DEF InPipe, Places, InStep, Stages
<1>4. ASSUME NEW k \in Child, Flush(k) \/ CloseIn(k) \/ WaitByPid(k) PROVE Places'
    BY <1>1, <1>4 DEF Flush, CloseIn, WaitByPid, Places, InStep, Stages
<1>5. ASSUME NEW k \in Child, Fork(k) PROVE Places'
    BY <1>5 DEF Fork, Places, InStep, Stages
<1>6. ASSUME NEW k \in Child, Return(k) PROVE Places'
    BY <1>6 DEF Return, Places, InStep, Stages
<1>7. ASSUME NEW k \in Child, HearEnd(k) PROVE Places'
    BY <1>7 DEF HearEnd, Places, InStep, Stages
<1>8. ASSUME NEW k \in Child, NEW s \in {"running", "exited", "failed"}, st[k] # "none",
             st' = [st EXCEPT ![k] = s], UNCHANGED <<pc, rd, late>>
      PROVE  Places'
    BY <1>8 DEF Places, InStep
<1>9. ASSUME NEW k \in Child, Exec(k) \/ ExecFails(k) \/ Exit(k) PROVE Places'
    BY <1>8, <1>9 DEF Exec, ExecFails, Exit, Places, InStep
<1>10. ASSUME UNCHANGED <<pc, rd, st>>, late' \in BOOLEAN PROVE Places'
    BY <1>10 DEF Places, InStep
<1>11. ASSUME NEW k \in Child, Send(k) \/ Hear(k) \/ Take(k) \/ Say(k) PROVE Places'
    BY <1>10, <1>11 DEF Send, Hear, Take, Say, Places
<1>12. CASE PutStr
    BY <1>10, <1>12 DEF PutStr
<1>13. CASE UNCHANGED vars
    BY <1>10, <1>13 DEF vars, Places
<1> QED
    BY <1>2, <1>3, <1>4, <1>5, <1>6, <1>7, <1>9, <1>11, <1>12, <1>13
       DEF Next, Thread, Reader, Running, Done

-----------------------------------------------------------------------------
(***************************************************************************)
(* What is printed, said and sent                                          *)
(***************************************************************************)

Amounts == /\ content \in [Child \X {"in", "out"} -> 0..Cap]
           /\ buf \in [Process -> [Stream -> Nat]]
           /\ put \in [Stream -> Nat] /\ got \in [Stream -> Nat]
           /\ heard \in [Child -> Nat] /\ said \in [Child -> Nat]

\* A pipe is never over its limit: what a child spills into its own is the
\* copy of the stdout buffer, and nothing is in it before.
LEMMA NextAmounts == ASSUME IInv, [Next]_vars PROVE Amounts'
<1> USE ChildAssumption, SizesAssumption
<1>0. Amounts
    BY DEF IInv, Typed, Amounts
<1>1. ASSUME NEW k \in Child, ExecFails(k) PROVE Amounts'
  <2> DEFINE spilt == {j \in Child : OpenIn(Wire(fds[k], pfd[k]), <<j, "in", "w">>)}
             more(c) == IF c[2] = "in" /\ c[1] \in spilt THEN buf[k][c[1]] ELSE 0
             copy(c) == IF c = <<k, "out">> /\ OpenIn(Wire(fds[k], pfd[k]), <<k, "out", "w">>)
                        THEN buf[k]["stdout"] ELSE 0
  <2>1. /\ \A j \in spilt : content[<<j, "in">>] + buf[k][j] <= Cap
        /\ content' = [c \in Child \X {"in", "out"} |-> content[c] + more(c) + copy(c)]
    BY <1>1 DEF ExecFails
  <2>2. content[<<k, "out">>] = 0 /\ buf[k]["stdout"] \in 0..Cap
    BY <1>0, <1>1 DEF ExecFails, IInv, Output, Told, Printed, Amounts, Process, Stream
  <2> HIDE DEF spilt
  <2>3. ASSUME NEW j \in Child PROVE content[<<j, "in">>] + more(<<j, "in">>) + copy(<<j, "in">>) \in 0..Cap
    <3>1. content[<<j, "in">>] \in 0..Cap /\ buf[k][j] \in Nat
      BY <1>0 DEF Amounts, Process, Stream
    <3>2. copy(<<j, "in">>) = 0 /\ more(<<j, "in">>) \in {0, buf[k][j]}
      OBVIOUS
    <3>3. more(<<j, "in">>) = 0 \/ j \in spilt
      OBVIOUS
    <3> QED
      BY <2>1, <3>1, <3>2, <3>3
  <2>4. ASSUME NEW j \in Child PROVE content[<<j, "out">>] + more(<<j, "out">>) + copy(<<j, "out">>) \in 0..Cap
    <3>1. content[<<j, "out">>] \in 0..Cap
      BY <1>0 DEF Amounts
    <3>2. more(<<j, "out">>) = 0 /\ copy(<<j, "out">>) \in {0, buf[k]["stdout"]}
      OBVIOUS
    <3>3. j # k => copy(<<j, "out">>) = 0
      OBVIOUS
    <3> QED
      BY <2>2, <3>1, <3>2, <3>3
  <2> HIDE DEF more, copy
  <2>5. content' \in [Child \X {"in", "out"} -> 0..Cap]
    BY <2>1, <2>3, <2>4
  <2>6. buf' \in [Process -> [Stream -> Nat]] /\ UNCHANGED <<put, got, heard, said>>
    BY <1>0, <1>1 DEF ExecFails, Amounts
  <2> QED
    BY <1>0, <2>5, <2>6 DEF Amounts
<1> USE DEF Amounts, Process, Stream
<1>2. ASSUME NEW k \in Child, Flush(k) PROVE Amounts'
    BY <1>0, <1>2 DEF Flush
<1>3. ASSUME NEW k \in Child, Fork(k) PROVE Amounts'
    BY <1>0, <1>3 DEF Fork
<1>4. ASSUME NEW k \in Child, CloseIn(k) PROVE Amounts'
  <2>1. CASE Holders(<<k, "in", "r">>) = {}
    BY <1>0, <1>4, <2>1 DEF CloseIn
  <2>2. CASE Holders(<<k, "in", "r">>) # {}
    <3>1. content[<<k, "in">>] + buf["parent"][k] \in 0..Cap
      <4>1. content[<<k, "in">>] \in 0..Cap /\ buf["parent"][k] \in Nat
        BY <1>0
      <4>2. content[<<k, "in">>] + buf["parent"][k] <= Cap
        BY <1>4, <2>2 DEF CloseIn
      <4> QED
        BY <4>1, <4>2
    <3> QED
      BY <1>0, <1>4, <2>2, <3>1 DEF CloseIn
  <2> QED
    BY <2>1, <2>2
<1>5. ASSUME NEW k \in Child, Hear(k) PROVE Amounts'
    BY <1>0, <1>5 DEF Hear
<1>6. ASSUME NEW k \in Child, Exec(k) PROVE Amounts'
    BY <1>0, <1>6 DEF Exec
<1>7. ASSUME NEW k \in Child, Take(k) PROVE Amounts'
    BY <1>0, <1>7 DEF Take
<1>8. ASSUME NEW k \in Child, Say(k) PROVE Amounts'
    BY <1>0, <1>8 DEF Say
<1>9. ASSUME NEW k \in Child, Send(k) PROVE Amounts'
    BY <1>0, <1>9 DEF Send
<1>10. CASE PutStr
    BY <1>0, <1>10 DEF PutStr
<1>11. ASSUME UNCHANGED <<content, buf, put, got, heard, said>> PROVE Amounts'
    BY <1>0, <1>11
<1>12. ASSUME NEW k \in Child, \/ OutPipe(k) \/ InPipe(k) \/ Return(k)
                              \/ WaitByPid(k) \/ HearEnd(k) \/ Exit(k)
      PROVE  Amounts'
    BY <1>11, <1>12 DEF OutPipe, InPipe, Return, WaitByPid, HearEnd, Exit
<1>13. CASE UNCHANGED vars
    BY <1>11, <1>13 DEF vars
<1> HIDE DEF Amounts, Process, Stream
<1> QED
    BY <1>1, <1>2, <1>3, <1>4, <1>5, <1>6, <1>7, <1>8, <1>9, <1>10, <1>12, <1>13
       DEF Next, Thread, Reader, Running, Done

\* Whatever a step does, a print that finds no thread between its flush and its
\* fork leaves nothing for a child to copy.
LEMMA NextPrinted == ASSUME IInv, Amounts', [Next]_vars PROVE Printed'
<1> USE ChildAssumption
<1>0. Printed /\ Amounts /\ Places
    BY DEF IInv, Typed, Amounts, Places
<1> USE <1>0 DEF Printed, Amounts, Process, Stream
<1>1. ASSUME NEW k \in Child, Flush(k) PROVE Printed'
    BY <1>1 DEF Flush, Places
<1>2. ASSUME NEW k \in Child, Fork(k) PROVE Printed'
  <2>1. CASE UNCHANGED <<fds, buf, st>>
    BY <1>2, <2>1 DEF Fork, Places
  <2>2. CASE /\ buf' = [buf EXCEPT ![k] = buf["parent"]]
             /\ st' = [st EXCEPT ![k] = "forked"]
             /\ pc' = [pc EXCEPT ![k] = "forked"]
    <3>1. buf["parent"]["stdout"] <= put["stdout"]
      OBVIOUS
    <3>2. ~late => buf["parent"]["stdout"] = 0
      BY <1>2 DEF Fork
    <3>3. buf'["parent"] = buf["parent"] /\ put' = put /\ got' = got /\ late' = late
      BY <1>2, <2>2 DEF Fork
    <3>4. \A j \in Child : buf'[j] = IF j = k THEN buf["parent"] ELSE buf[j]
      BY <2>2
    <3>5. \A j \in Child : j # k => st'[j] = st[j]
      BY <2>2 DEF Places
    <3> QED
      BY <3>1, <3>2, <3>3, <3>4, <3>5
  <2> QED
    BY <1>2, <2>1, <2>2 DEF Fork
<1>3. ASSUME NEW k \in Child, CloseIn(k) PROVE Printed'
    BY <1>3 DEF CloseIn, Places
<1>4. ASSUME NEW k \in Child, Exec(k) \/ ExecFails(k) PROVE Printed'
  <2>1. /\ buf' = [buf EXCEPT ![k] = [s \in Stream |-> 0]]
        /\ st'[k] # "forked" /\ \A j \in Child \ {k} : st'[j] = st[j]
        /\ UNCHANGED <<pc, put, got, late>>
    BY <1>4 DEF Exec, ExecFails, Places
  <2>2. buf'["parent"] = buf["parent"] /\ buf'[k]["stdout"] = 0
        /\ \A j \in Child \ {k} : buf'[j] = buf[j]
    BY <2>1
  <2> QED
    BY <2>1, <2>2
<1>5. ASSUME NEW k \in Child, Take(k) PROVE Printed'
    BY <1>5 DEF Take
<1>6. ASSUME NEW k \in Child, Send(k) PROVE Printed'
  <2>1. /\ put'["stdout"] = put["stdout"]
        /\ buf'["parent"]["stdout"] = buf["parent"]["stdout"]
        /\ \A j \in Child : buf'[j] = buf[j]
        /\ UNCHANGED <<pc, st, got, late>>
    BY <1>6 DEF Send
  <2> QED
    BY <2>1
<1>7. CASE PutStr
  <2>1. /\ put'["stdout"] = put["stdout"] + 1 /\ put["stdout"] < MaxPrint
        /\ buf'["parent"]["stdout"] = buf["parent"]["stdout"] + 1
        /\ \A j \in Child : buf'[j] = buf[j]
        /\ UNCHANGED <<pc, st, got>>
    BY <1>7 DEF PutStr
  <2>2. ~late' => ~late /\ \A j \in Child : pc[j] # "flushed"
    BY <1>7 DEF PutStr
  <2>3. put["stdout"] \in Nat /\ got["stdout"] \in Nat /\ MaxPrint \in Nat
        /\ \A p \in Process : buf[p]["stdout"] \in Nat
    BY SizesAssumption
  <2> QED
    BY <2>1, <2>2, <2>3
<1>8. ASSUME UNCHANGED <<buf, put, got, late>>,
             \A j \in Child : pc'[j] = "flushed" => pc[j] = "flushed",
             \A j \in Child : st'[j] = "forked" => st[j] = "forked"
      PROVE  Printed'
    BY <1>8
<1>9. ASSUME NEW k \in Child, \/ OutPipe(k) \/ InPipe(k) \/ Return(k)
                             \/ WaitByPid(k) \/ Reader(k) \/ Say(k) \/ Exit(k)
      PROVE  Printed'
    BY <1>8, <1>9 DEF OutPipe, InPipe, Return, WaitByPid, Reader, Hear, HearEnd,
                      Say, Exit, Places
<1>10. CASE UNCHANGED vars
    BY <1>8, <1>10 DEF vars
<1> HIDE DEF Printed, Amounts, Process, Stream
<1> QED
    BY <1>1, <1>2, <1>3, <1>4, <1>5, <1>6, <1>7, <1>9, <1>10
       DEF Next, Thread, Running, Done

\* A child that the program can still write to, or hear from, has not exited.
LEMMA EndIsHeld ==
    ASSUME IInv, NEW k \in Child, Standard(fds["parent"])
    PROVE  /\ st[k] = "running" => Wired(k)
           /\ st[k] \in {"forked", "running"} =>
                /\ Holders(<<k, "out", "w">>) # {}
                /\ Holders(<<k, "in", "r">>) # {}
           /\ pc[k] \in {"forked", "open"} => Holders(<<k, "in", "w">>) # {}
<1>0. \A p \in Process, f \in Fd : p \in Holders(fds[p][f])
    BY DEF Holders, Holds, OpenIn
<1>1. st[k] = "running" => Wired(k)
    BY DEF IInv, ChildTables, ChildTable
<1>2. ASSUME st[k] = "running"
      PROVE  /\ Holders(<<k, "out", "w">>) # {}
             /\ Holders(<<k, "in", "r">>) # {}
  <2>1. /\ 0 \in Fd /\ fds[k][0] = <<k, "in", "r">>
        /\ 1 \in Fd /\ fds[k][1] = <<k, "out", "w">>
    BY <1>1, <1>2 DEF Wired, Standard
  <2>2. k \in Holders(fds[k][0]) /\ k \in Holders(fds[k][1])
    BY <1>0, <2>1 DEF Process
  <2> QED
    BY <2>1, <2>2
<1>3. ASSUME st[k] = "forked"
      PROVE  /\ Holders(<<k, "out", "w">>) # {}
             /\ Holders(<<k, "in", "r">>) # {}
  <2>1. HasOnly(fds[k], k, pfd[k], 0..3)
    BY <1>3 DEF IInv, ChildTables, ChildTable
  <2>2. pfd[k][1] \in Fd /\ pfd[k][2] \in Fd
    BY DEF IInv, Typed
  <2>3. fds[k][pfd[k][1]] = <<k, "out", "w">> /\ fds[k][pfd[k][2]] = <<k, "in", "r">>
    BY <2>1 DEF HasOnly, EndAt
  <2>4. k \in Holders(fds[k][pfd[k][1]]) /\ k \in Holders(fds[k][pfd[k][2]])
    BY <1>0, <2>2 DEF Process
  <2> QED
    BY <2>3, <2>4
<1>4. ASSUME pc[k] \in {"forked", "open"} PROVE Holders(<<k, "in", "w">>) # {}
  <2>1. 3 \in Owns(k)
    BY <1>4 DEF Owns
  <2>2. fds["parent"][pfd[k][3]] = EndAt(k, 3)
    BY <2>1 DEF IInv, ParentTable, HasOnly
  <2>3. pfd[k][3] \in Fd
    BY DEF IInv, Typed
  <2>4. EndAt(k, 3) = <<k, "in", "w">>
    BY DEF EndAt
  <2> QED
    BY <1>0, <2>2, <2>3, <2>4 DEF Process
<1> QED
    BY <1>1, <1>2, <1>3, <1>4

\* The reader of k comes to the end when nobody holds the other end of its
\* pipe, and so not before the child has exited.
LEMMA NextOutput == ASSUME IInv, Kept, Amounts', Places', [Next]_vars PROVE Output'
<1> USE ChildAssumption
<1>0. /\ Output /\ Amounts /\ Places
      /\ Standard(fds'["parent"]) <=> Standard(fds["parent"])
    BY DEF IInv, Typed, Amounts, Places, Kept
<1>1. ASSUME NEW j \in Child,
             content'[<<j, "out">>] = content[<<j, "out">>], rd'[j] = "eof" => rd[j] = "eof",
             st'[j] = st[j] \/ (st[j] = "none" /\ st'[j] = "forked"),
             heard'[j] = heard[j], said'[j] = said[j], late => late'
      PROVE  Told(j)'
    BY <1>0, <1>1 DEF Output, Told, Places
<1> DEFINE Others(k) ==
      \A j \in Child \ {k} : /\ content'[<<j, "out">>] = content[<<j, "out">>]
                             /\ rd'[j] = rd[j] /\ st'[j] = st[j]
                             /\ heard'[j] = heard[j] /\ said'[j] = said[j]
<1>2. ASSUME NEW k \in Child, Others(k), late' = late, Told(k)' PROVE Output'
  <2>1. \A j \in Child \ {k} : Told(j)'
    BY <1>1, <1>2
  <2> QED
    BY <1>2, <2>1 DEF Output
<1>3. ASSUME late => late', UNCHANGED <<heard, said>>,
             \A j \in Child :
               /\ content'[<<j, "out">>] = content[<<j, "out">>]
               /\ rd'[j] = "eof" => rd[j] = "eof"
               /\ st'[j] = st[j] \/ (st[j] = "none" /\ st'[j] = "forked")
      PROVE  Output'
  <2>1. \A j \in Child : Told(j)'
    BY <1>1, <1>3
  <2> QED
    BY <2>1 DEF Output
<1>4. \A j \in Child : /\ content[<<j, "out">>] \in Nat /\ heard[j] \in Nat /\ said[j] \in Nat
                       /\ MaxSay[j] \in Nat /\ Told(j)
    BY <1>0, SizesAssumption DEF Amounts, Output
<1>5. ASSUME NEW k \in Child, Hear(k) PROVE Output'
  <2>1. /\ content'[<<k, "out">>] = content[<<k, "out">>] - 1
        /\ heard'[k] = heard[k] + 1 /\ rd[k] = "open" /\ content[<<k, "out">>] > 0
        /\ UNCHANGED <<rd, st, said, late>> /\ Others(k)
    BY <1>0, <1>5 DEF Hear, Amounts
  <2>2. Told(k)'
    BY <1>0, <1>4, <2>1 DEF Told
  <2> QED
    BY <1>2, <2>1, <2>2
<1>6. ASSUME NEW k \in Child, HearEnd(k) PROVE Output'
  <2>1. /\ rd[k] = "open" /\ content[<<k, "out">>] = 0 /\ rd'[k] = "eof"
        /\ Holders(<<k, "out", "w">>) = {}
        /\ UNCHANGED <<content, heard, st, said, late>> /\ Others(k)
    BY <1>0, <1>6 DEF HearEnd, Places
  <2>2. Standard(fds["parent"]) => st[k] \in {"exited", "failed"}
    BY <1>0, <2>1, EndIsHeld DEF Places, InStep
  <2>3. Told(k)'
    BY <1>0, <1>4, <2>1, <2>2 DEF Told
  <2> QED
    BY <1>2, <2>1, <2>3
<1>7. ASSUME NEW k \in Child, Exec(k) PROVE Output'
  <2>1. /\ st[k] = "forked" /\ st'[k] = "running"
        /\ UNCHANGED <<content, rd, heard, said, late>> /\ Others(k)
    BY <1>0, <1>7 DEF Exec, Places
  <2>2. Told(k)'
    BY <1>0, <1>4, <2>1 DEF Told
  <2> QED
    BY <1>2, <2>1, <2>2
<1>8. ASSUME NEW k \in Child, ExecFails(k) PROVE Output'
  <2>1. /\ st[k] = "forked" /\ st'[k] = "failed"
        /\ UNCHANGED <<rd, heard, said, late>> /\ \A j \in Child \ {k} : st'[j] = st[j]
    BY <1>8, <1>0 DEF ExecFails, Places
  <2>2. ASSUME NEW j \in Child \ {k} PROVE content'[<<j, "out">>] = content[<<j, "out">>]
    BY <1>8, <1>4 DEF ExecFails
  <2>3. content'[<<k, "out">>] \in {content[<<k, "out">>], content[<<k, "out">>] + buf[k]["stdout"]}
    BY <1>8, <1>4 DEF ExecFails
  <2>4. buf[k]["stdout"] \in Nat /\ (~late => buf[k]["stdout"] = 0)
    BY <1>0, <2>1 DEF IInv, Printed, Amounts, Process, Stream
  <2>5. Told(k)'
    BY <1>0, <1>4, <2>1, <2>3, <2>4 DEF Told
  <2> QED
    BY <1>2, <2>1, <2>2, <2>5
<1>9. ASSUME NEW k \in Child, Say(k) PROVE Output'
  <2>1. /\ content'[<<k, "out">>] = content[<<k, "out">>] + 1
        /\ said'[k] = said[k] + 1 /\ st[k] = "running"
        /\ UNCHANGED <<rd, st, heard, late>> /\ Others(k)
    BY <1>0, <1>9 DEF Say, Amounts
  <2>2. Told(k)'
    BY <1>0, <1>4, <2>1 DEF Told
  <2> QED
    BY <1>2, <2>1, <2>2
<1>10. ASSUME NEW k \in Child, Exit(k) PROVE Output'
  <2>1. /\ st[k] = "running" /\ st'[k] \in {"exited", "failed"}
        /\ st'[k] = "exited" => said[k] = MaxSay[k]
        /\ UNCHANGED <<content, rd, heard, said, late>> /\ Others(k)
    BY <1>0, <1>10 DEF Exit, Places
  <2>2. Told(k)'
    BY <1>0, <1>4, <2>1 DEF Told
  <2> QED
    BY <1>2, <2>1, <2>2
<1>11. ASSUME NEW k \in Child, Take(k) \/ CloseIn(k) PROVE Output'
  <2>1. \A j \in Child : content'[<<j, "out">>] = content[<<j, "out">>]
    BY <1>0, <1>11 DEF Take, CloseIn, Amounts
  <2>2. UNCHANGED <<rd, st, heard, said, late>>
    BY <1>11 DEF Take, CloseIn
  <2> QED
    BY <1>3, <2>1, <2>2
<1>12. ASSUME NEW k \in Child, OutPipe(k) \/ InPipe(k) \/ Flush(k) \/ Fork(k) \/ Return(k)
                                \/ WaitByPid(k) \/ Send(k)
      PROVE  Output'
  <2>1. \A j \in Child : /\ rd'[j] = "eof" => rd[j] = "eof"
                         /\ st'[j] = st[j] \/ (st[j] = "none" /\ st'[j] = "forked")
    BY <1>0, <1>12 DEF OutPipe, InPipe, Flush, Fork, Return, WaitByPid, Send, Places, InStep
  <2>2. UNCHANGED <<content, heard, said, late>>
    BY <1>12 DEF OutPipe, InPipe, Flush, Fork, Return, WaitByPid, Send
  <2> QED
    BY <1>3, <2>1, <2>2
<1>13. CASE PutStr
    BY <1>3, <1>13 DEF PutStr
<1>14. CASE UNCHANGED vars
    BY <1>3, <1>14 DEF vars
<1> QED
    BY <1>5, <1>6, <1>7, <1>8, <1>9, <1>10, <1>11, <1>12, <1>13, <1>14
       DEF Next, Thread, Reader, Running, Done

\* A child with standard streams exits when nobody holds the other end of its
\* input, and so not before the program has closed it: the input has a reader.
LEMMA NextInput == ASSUME IInv, Kept, Amounts', Places', [Next]_vars PROVE Input'
<1> SUFFICES ASSUME Standard(fds["parent"]) PROVE Input'
    BY DEF Input, Kept
<1> USE ChildAssumption
<1>0. Amounts /\ Places
    BY DEF IInv, Typed, Amounts, Places
<1>1. \A j \in Child : /\ content[<<j, "in">>] \in Nat /\ got[j] \in Nat /\ put[j] \in Nat
                       /\ buf["parent"][j] \in Nat /\ Served(j)
    BY <1>0 DEF Amounts, Process, Stream, IInv, Input
<1>2. ASSUME \A i \in Child : st[i] = "failed" => st'[i] = "failed",
             NEW j \in Child,
             pc'[j] \in {"forked", "open"} =>
               \/ pc[j] \in {"forked", "open"} /\ (st'[j] = st[j] \/ st'[j] # "exited")
               \/ st'[j] = "forked",
             content'[<<j, "in">>] = content[<<j, "in">>], got'[j] = got[j],
             put'[j] = put[j], buf'["parent"][j] = buf["parent"][j]
      PROVE  Served(j)'
    BY <1>1, <1>2 DEF Served
<1>3. ASSUME UNCHANGED got,
             \A j \in Child :
               /\ content'[<<j, "in">>] = content[<<j, "in">>] /\ put'[j] = put[j]
               /\ buf'["parent"][j] = buf["parent"][j]
               /\ st[j] = "failed" => st'[j] = "failed"
               /\ pc'[j] \in {"forked", "open"} =>
                    \/ pc[j] \in {"forked", "open"} /\ (st'[j] = st[j] \/ st'[j] # "exited")
                    \/ st'[j] = "forked"
      PROVE  Input'
  <2>1. \A j \in Child : Served(j)'
    BY <1>2, <1>3
  <2> QED
    BY <2>1 DEF Input
<1> DEFINE Others(k) ==
      \A j \in Child \ {k} :
        /\ content'[<<j, "in">>] = content[<<j, "in">>] /\ put'[j] = put[j]
        /\ buf'["parent"][j] = buf["parent"][j] /\ got'[j] = got[j]
        /\ pc'[j] = pc[j]
<1>4. ASSUME NEW k \in Child, Others(k), UNCHANGED st, Served(k)' PROVE Input'
  <2>1. \A j \in Child \ {k} : Served(j)'
    BY <1>2, <1>4
  <2> QED
    BY <1>4, <2>1 DEF Input
<1>4a. ASSUME NEW k \in Child, UNCHANGED <<pc, st>>, NEW d \in Int,
              got'[k] + content'[<<k, "in">>] + buf'["parent"][k]
                = got[k] + content[<<k, "in">>] + buf["parent"][k] + d,
              put'[k] = put[k] + d
       PROVE  Served(k)'
  <2>1. Served(k) /\ got[k] + content[<<k, "in">>] + buf["parent"][k] \in Int
    BY <1>1
  <2> QED
    BY <1>4a, <2>1 DEF Served
<1>5. ASSUME NEW k \in Child, Send(k) PROVE Input'
  <2>1. /\ put'[k] = put[k] + 1 /\ buf'["parent"][k] = buf["parent"][k] + 1
        /\ UNCHANGED <<pc, st, content, got>> /\ Others(k)
    BY <1>0, <1>5 DEF Send, Amounts, Process, Stream
  <2>2. got'[k] + content'[<<k, "in">>] + buf'["parent"][k]
          = got[k] + content[<<k, "in">>] + buf["parent"][k] + 1
    BY <1>1, <2>1
  <2>3. Served(k)'
    BY <1>4a, <2>1, <2>2
  <2> QED
    BY <1>4, <2>1, <2>3
<1>6. ASSUME NEW k \in Child, Take(k) PROVE Input'
  <2>1. /\ content'[<<k, "in">>] = content[<<k, "in">>] - 1 /\ got'[k] = got[k] + 1
        /\ UNCHANGED <<pc, st, put, buf>> /\ Others(k)
    BY <1>0, <1>6 DEF Take, Amounts, Stream
  <2>2. got'[k] + content'[<<k, "in">>] + buf'["parent"][k] - put'[k]
          = got[k] + content[<<k, "in">>] + buf["parent"][k] - put[k]
    BY <1>1, <2>1
  <2>3. Served(k)'
    BY <1>1, <2>1, <2>2 DEF Served
  <2> QED
    BY <1>4, <2>1, <2>3
<1>7. ASSUME NEW k \in Child, CloseIn(k) PROVE Input'
  <2>1. /\ pc[k] = "open" /\ pc'[k] = "closed" /\ buf'["parent"][k] = 0
        /\ UNCHANGED <<st, put, got>> /\ Others(k)
    BY <1>0, <1>7 DEF CloseIn, Amounts, Places, Process, Stream
  <2>2. Holders(<<k, "in", "r">>) # {} =>
          content'[<<k, "in">>] = content[<<k, "in">>] + buf["parent"][k]
    BY <1>0, <1>7 DEF CloseIn, Amounts
  <2>3. st[k] # "failed" => Holders(<<k, "in", "r">>) # {}
    BY <1>0, <1>1, <2>1, EndIsHeld DEF Places, InStep, Served
  <2>4. Served(k)'
    BY <1>1, <2>1, <2>2, <2>3 DEF Served
  <2> QED
    BY <1>4, <2>1, <2>4
<1>8. ASSUME NEW k \in Child, Exit(k) PROVE Input'
  <2>1. pc[k] \notin {"forked", "open"}
    BY <1>8, EndIsHeld DEF Exit
  <2>2. /\ st[k] = "running" /\ \A j \in Child \ {k} : st'[j] = st[j]
        /\ UNCHANGED <<pc, content, buf, put, got>>
    BY <1>0, <1>8 DEF Exit, Places
  <2> QED
    BY <1>3, <2>1, <2>2
<1>9. ASSUME NEW k \in Child, ExecFails(k) PROVE Input'
  <2>1. /\ st'[k] = "failed" /\ \A j \in Child \ {k} : st'[j] = st[j]
        /\ UNCHANGED pc
    BY <1>0, <1>9 DEF ExecFails, Places
  <2>2. \A j \in Child : Served(j)'
    BY <1>1, <2>1 DEF Served
  <2> QED
    BY <2>2 DEF Input
<1>10. ASSUME NEW k \in Child, Exec(k) PROVE Input'
  <2>1. /\ st[k] = "forked" /\ st'[k] = "running" /\ \A j \in Child \ {k} : st'[j] = st[j]
        /\ UNCHANGED <<pc, content, put, got>> /\ buf'["parent"] = buf["parent"]
    BY <1>0, <1>10 DEF Exec, Places, Amounts, Process
  <2> QED
    BY <1>3, <2>1
<1>11. ASSUME NEW k \in Child, Fork(k) PROVE Input'
  <2>1. \A j \in Child : /\ st[j] = "failed" => st'[j] = "failed"
                         /\ pc'[j] \in {"forked", "open"} =>
                              \/ pc[j] \in {"forked", "open"} /\ st'[j] = st[j]
                              \/ st'[j] = "forked"
    BY <1>0, <1>11 DEF Fork, Places, InStep
  <2>2. UNCHANGED <<content, put, got>> /\ buf'["parent"] = buf["parent"]
    BY <1>0, <1>11 DEF Fork, Amounts, Process
  <2> QED
    BY <1>3, <2>1, <2>2
<1>12. ASSUME NEW k \in Child, \/ OutPipe(k) \/ InPipe(k) \/ Return(k)
                              \/ WaitByPid(k) \/ HearEnd(k) \/ Say(k) \/ Hear(k)
      PROVE  Input'
  <2>1. \A j \in Child : /\ content'[<<j, "in">>] = content[<<j, "in">>]
                         /\ pc'[j] \in {"forked", "open"} => pc[j] \in {"forked", "open"}
    BY <1>0, <1>12 DEF OutPipe, InPipe, Return, WaitByPid, HearEnd, Say, Hear,
                       Places, Amounts
  <2>2. UNCHANGED <<st, buf, put, got>>
    BY <1>12 DEF OutPipe, InPipe, Return, WaitByPid, HearEnd, Say, Hear
  <2> QED
    BY <1>3, <2>1, <2>2
<1>13. ASSUME NEW k \in Child, Flush(k) PROVE Input'
  <2>1. \A j \in Child : /\ pc'[j] \in {"forked", "open"} => pc[j] \in {"forked", "open"}
                         /\ buf'["parent"][j] = buf["parent"][j] /\ got'[j] = got[j]
    BY <1>0, <1>13 DEF Flush, Places, Amounts, Process, Stream
  <2>2. UNCHANGED <<st, content, put>>
    BY <1>13 DEF Flush
  <2>3. \A j \in Child : Served(j)'
    BY <1>2, <2>1, <2>2
  <2> QED
    BY <2>3 DEF Input
<1>14. CASE PutStr
  <2>1. \A j \in Child : buf'["parent"][j] = buf["parent"][j] /\ put'[j] = put[j]
    BY <1>0, <1>14 DEF PutStr, Amounts, Process, Stream
  <2>2. UNCHANGED <<pc, st, content, got>>
    BY <1>14 DEF PutStr
  <2> QED
    BY <1>3, <2>1, <2>2
<1>15. CASE UNCHANGED vars
    BY <1>3, <1>15 DEF vars
<1> QED
    BY <1>5, <1>6, <1>7, <1>8, <1>9, <1>10, <1>11, <1>12, <1>13, <1>14, <1>15
       DEF Next, Thread, Reader, Running, Done

-----------------------------------------------------------------------------
(***************************************************************************)
(* The theorems                                                            *)
(***************************************************************************)

\* Before the first popen2 no descriptor is its own and nothing is buffered.
LEMMA InitIInv == Init => IInv
<1> SUFFICES ASSUME Init PROVE IInv
    OBVIOUS
<1> USE ChildAssumption
<1>1. PICK open \in StdOpen :
        fds = [p \in Process |->
                 IF p = "parent"
                 THEN [f \in Fd |-> IF f \in open \cup {2} THEN Std[f + 1] ELSE Closed]
                 ELSE Nothing]
    BY DEF Init
<1>2. \A f \in open \cup {2} : f \in 0..2 /\ (f = 0 => Std[f + 1] = Std[1])
                                /\ (f = 1 => Std[f + 1] = Std[2]) /\ (f = 2 => Std[f + 1] = Std[3])
    BY SizesAssumption
<1>3. \A f \in Fd : /\ fds["parent"][f] \in {Std[1], Std[2], Std[3], Closed}
                    /\ fds["parent"][f] = Std[1] => f = 0
                    /\ fds["parent"][f] = Std[2] => f = 1
    BY <1>1, <1>2, Apart DEF Process
<1>4. fds \in [Process -> Table]
    BY <1>1, <1>3 DEF Table, Process, Nothing
<1>5. Typed
  <2>1. 0 \in Fd /\ 0 \in 0..Cap
    BY SizesAssumption DEF Fd
  <2> QED
    BY <1>4, <2>1 DEF Init, Typed, Stages
<1>6. \A k \in Child : pc[k] = "idle" /\ st[k] = "none" /\ rd[k] = "no"
    BY DEF Init
<1>7. InStep /\ ChildTables
    BY <1>6 DEF InStep, ChildTables, ChildTable
<1>8. ParentTable
  <2>1. \A k \in Child : Owns(k) = {}
    BY <1>6 DEF Owns
  <2> QED
    BY <1>3, <2>1, Apart DEF ParentTable, HasOnly
<1>9. Printed /\ Output /\ Input
    BY <1>6, SizesAssumption DEF Init, Printed, Output, Told, Input, Served, Process, Stream
<1> QED
    BY <1>5, <1>7, <1>8, <1>9 DEF IInv

\* Every step of the program, its children and the kernel keeps the invariant.
LEMMA NextIInv == IInv /\ [Next]_vars => IInv'
<1> SUFFICES ASSUME IInv, [Next]_vars PROVE IInv'
    OBVIOUS
<1>1. Kept /\ Places' /\ Amounts'
    BY NextParent, NextPlaces, NextAmounts
<1>2. Typed'
    BY <1>1, TablesTyped DEF Typed, Kept, Places, Amounts
<1>3. InStep' /\ ParentTable'
    BY <1>1 DEF Kept, Places
<1>4. ChildTables' /\ Printed' /\ Output' /\ Input'
    BY <1>1, NextChildren, NextPrinted, NextOutput, NextInput
<1> QED
    BY <1>2, <1>3, <1>4 DEF IInv

\* The program has its standard streams just where they belong.
LEMMA StandardStreams == IInv => (HasStd <=> Standard(fds["parent"]))
    BY DEF IInv, ParentTable, HasStd, Holds, OpenIn, Standard

\* Every child of a program that has standard streams runs with its pipes in
\* their place, however many threads are inside popen2 with it.
THEOREM ChildrenWired == Spec => []ChildWired
<1>1. IInv => ChildWired
    BY StandardStreams DEF IInv, ChildTables, ChildTable, ChildWired
<1> QED
    BY <1>1, InitIInv, NextIInv, PTL DEF Spec

\* Nothing that popen2 opened stays open in the program, unless its fork fails,
\* and no pipe is filled over its limit.
THEOREM DescriptorsReturned == Spec => []FdsReturned
<1>1. IInv => FdsReturned
  <2> SUFFICES ASSUME IInv PROVE FdsReturned
      OBVIOUS
  <2>1. TypeOK
    BY DEF IInv, Typed, TypeOK, Table, Stages
  <2>2. ASSUME NEW k \in Child, pc[k] # "nofork", Over(k), NEW f \in Fd,
               fds["parent"][f] \in EndsOf(k)
        PROVE  FALSE
    <3>1. Owns(k) = {}
      BY <2>2 DEF Owns, Over, IInv, InStep
    <3> QED
      BY <2>2, <3>1 DEF IInv, ParentTable, HasOnly
  <2> QED
    BY <2>1, <2>2 DEF FdsReturned
<1> QED
    BY <1>1, InitIInv, NextIInv, PTL DEF Spec

\* Nothing is printed twice, unless it was printed between a flush and a fork,
\* and what is sent to children arrives once and whole.
THEOREM NothingDoubled == Spec => []WrittenOnce
<1>1. IInv => WrittenOnce
    BY StandardStreams DEF IInv, Printed, Output, Told, Input, Served, WrittenOnce
<1> QED
    BY <1>1, InitIInv, NextIInv, PTL DEF Spec

\* Who reads the output of a child to its end has all of it.
THEOREM OutputHeard == Spec => []OutputComplete
<1>1. IInv => OutputComplete
    BY StandardStreams DEF IInv, Output, Told, OutputComplete
<1> QED
    BY <1>1, InitIInv, NextIInv, PTL DEF Spec
=============================================================================
