--------------------------- MODULE RacketCVProofs ---------------------------
(***************************************************************************)
(* The mutex of the Racket run time is a semaphore that cv-wait gives back *)
(* and takes again.  Proofs that it stays a mutex, for any threads and any *)
(* scripts of waits, signals and broadcasts in any order; and that until   *)
(* the first broadcast waiters is right, and until the first has ended no  *)
(* wakeup is stolen and nobody whom it found waiting is left behind.       *)
(***************************************************************************)
EXTENDS RacketCV, FiniteSetTheorems, TLAPS

Typed ==
    /\ sem \in [Semaphore -> Int]
    /\ pc \in [Thread -> PC]
    /\ calls \in [Thread -> Nat]
    /\ script \in [Thread -> Seq(Operation)]

\* The semaphore is free or taken, and it is taken while a thread is between
\* its acquire and its release.
Right == sem["mutex"] \in {0, 1} /\ NeverReleasedFree

\* The inductive invariant
IInv == Typed /\ Right

Holding == {"register", "release", "leave"}

\* The next operation of a script begins at a program point.
LEMMA FirstOfType == \A op \in Operation : FirstOf[op] \in {"acquire", "signalLock", "castLock"}
    BY DEF FirstOf, Operation

\* A step to another program point that does one thing to one semaphore.
LEMMA Moved ==
    ASSUME Typed, NEW t \in Thread, NEW here, NEW next \in PC, At(t, here, next),
           sem' = sem \/ \E s \in Semaphore : P(s) \/ PostTo(s)
    PROVE  Typed'
<1>1. ASSUME NEW s \in Semaphore, P(s) \/ PostTo(s) PROVE sem' \in [Semaphore -> Int]
    BY <1>1 DEF Typed, P, PostTo
<1> QED
    BY <1>1 DEF Typed, At

\* Any step keeps the types.
LEMMA TypedNext == Typed /\ [Next]_vars => Typed'
<1> SUFFICES ASSUME Typed, [Next]_vars PROVE Typed'
    OBVIOUS
<1> USE DEF Semaphore, PC
<1>1. ASSUME NEW t \in Thread, Call(t) PROVE Typed'
  <2>1. script[t][calls[t] + 1] \in Operation
    BY <1>1 DEF Call, Typed
  <2>2. FirstOf[script[t][calls[t] + 1]] \in PC
    BY <2>1, FirstOfType
  <2>3. calls'[t] = calls[t] + 1
    BY <1>1 DEF Call, Typed
  <2>4. pc' = [pc EXCEPT ![t] = FirstOf[script[t][calls[t] + 1]]]
    BY <1>1, <2>3 DEF Call
  <2> QED
    BY <1>1, <2>2, <2>4 DEF Call, Typed
<1>2. ASSUME NEW t \in Thread, Acquire(t) \/ Register(t) \/ Release(t) \/ Pass(t) \/ Shake(t)
                               \/ Reacquire(t) \/ Leave(t)
      PROVE  Typed'
    BY <1>2, Moved DEF Acquire, Register, Release, Pass, Shake, Reacquire, Leave
<1>3. ASSUME NEW t \in Thread, SignalLock(t) \/ SignalPost(t) \/ SignalShake(t) \/ SignalUnlock(t)
      PROVE  Typed'
    BY <1>3, Moved DEF SignalLock, SignalPost, SignalShake, SignalUnlock, Unlock
<1>4. ASSUME NEW t \in Thread, CastLock(t) \/ CastPost(t) \/ CastShake(t) \/ CastUnlock(t)
      PROVE  Typed'
    BY <1>4, Moved DEF CastLock, CastPost, CastShake, CastUnlock, Unlock
<1>5. CASE UNCHANGED vars
    BY <1>5 DEF vars, Typed
<1> QED
    BY <1>1, <1>2, <1>3, <1>4, <1>5 DEF Next, Step

\* A thread that takes the mutex finds it free, so that nobody has it.
LEMMA Taken ==
    ASSUME IInv, NEW t \in Thread, NEW here, NEW next \in Holding,
           At(t, here, next), P("mutex")
    PROVE  Right'
    BY DEF IInv, Right, Typed, Semaphore, At, P, NeverReleasedFree, HasMutex, Holding

\* A thread that gives the mutex back is the one that has it.
LEMMA Given ==
    ASSUME IInv, NEW t \in Thread, NEW here \in Holding, NEW next,
           next \notin Holding, At(t, here, next), PostTo("mutex")
    PROVE  Right'
    BY DEF IInv, Right, Typed, Semaphore, At, PostTo, NeverReleasedFree, HasMutex, Holding

\* Other steps leave the mutex alone, and who has it.
LEMMA Untouched ==
    ASSUME IInv, NEW t \in Thread, NEW next, pc' = [pc EXCEPT ![t] = next],
           pc[t] \in Holding <=> next \in Holding, sem'["mutex"] = sem["mutex"]
    PROVE  Right'
    BY DEF IInv, Right, Typed, NeverReleasedFree, HasMutex, Holding

\* Each semaphore operation keeps the mutex taken by exactly one thread inside.
LEMMA NextIInv == IInv /\ [Next]_vars => IInv'
<1> SUFFICES ASSUME IInv, [Next]_vars PROVE IInv'
    OBVIOUS
<1>0. Typed'
    BY TypedNext DEF IInv
<1>1. ASSUME NEW t \in Thread, Call(t) PROVE Right'
  <2>1. script[t][calls'[t]] \in Operation
    BY <1>1 DEF Call, IInv, Typed
  <2>2. FirstOf[script[t][calls'[t]]] \notin Holding
    BY <2>1, FirstOfType DEF Holding
  <2> QED
    BY <1>1, <2>2, Untouched DEF Call, Holding
<1>2. ASSUME NEW t \in Thread, Acquire(t) \/ Reacquire(t) PROVE Right'
    BY <1>2, Taken DEF Acquire, Reacquire, Holding
<1>3. ASSUME NEW t \in Thread, Release(t) \/ Leave(t) PROVE Right'
    BY <1>3, Given DEF Release, Leave, Holding
<1>4. ASSUME NEW t \in Thread, Register(t) PROVE Right'
    BY <1>4, Untouched DEF Register, At, Holding
<1>5. ASSUME NEW t \in Thread, Pass(t) \/ Shake(t) PROVE Right'
    BY <1>5, Untouched DEF Pass, Shake, At, P, PostTo, Holding, IInv, Typed, Semaphore
<1>6. ASSUME NEW t \in Thread, SignalLock(t) \/ SignalPost(t) \/ SignalShake(t) \/ SignalUnlock(t)
      PROVE  Right'
    BY <1>6, Untouched
    DEF SignalLock, SignalPost, SignalShake, SignalUnlock, Unlock, At, P, PostTo,
        Holding, IInv, Typed, Semaphore
<1>7. ASSUME NEW t \in Thread, CastLock(t) \/ CastPost(t) \/ CastShake(t) \/ CastUnlock(t)
      PROVE  Right'
    BY <1>7, Untouched
    DEF CastLock, CastPost, CastShake, CastUnlock, Unlock, At, P, PostTo,
        Holding, IInv, Typed, Semaphore
<1>8. ASSUME UNCHANGED vars PROVE Right'
    BY <1>8 DEF vars, IInv, Right, NeverReleasedFree, HasMutex
<1>9. Right'
    BY <1>1, <1>2, <1>3, <1>4, <1>5, <1>6, <1>7, <1>8 DEF Next, Step
<1> QED
    BY <1>0, <1>9 DEF IInv

\* Through waits, signals and broadcasts in any order one thread at a time has
\* the mutex, and blodwen-mutex-release never finds it free.
THEOREM MutexStaysMutex == Spec => []NeverReleasedFree
<1>1. Init => IInv
    BY ScriptAssumption DEF Init, IInv, Right, Typed, Semaphore, PC, NeverReleasedFree, HasMutex
<1>2. IInv => NeverReleasedFree
    BY DEF IInv, Right
<1> QED
    BY <1>1, <1>2, NextIInv, PTL DEF Spec

-----------------------------------------------------------------------------
(***************************************************************************)
(* Counting threads by where they are.  Each signal that is under way is   *)
(* at one point, and each permit and each handshake belongs to it.         *)
(***************************************************************************)
Count(p, A) == Cardinality({t \in Thread : p[t] \in A})

\* More program points hold no fewer threads.
LEMMA CountMonotone ==
    ASSUME NEW p, NEW A, NEW B, A \subseteq B
    PROVE  Count(p, A) \in Nat /\ Count(p, B) \in Nat /\ Count(p, A) <= Count(p, B)
<1> DEFINE X == {t \in Thread : p[t] \in A}
           Y == {t \in Thread : p[t] \in B}
<1>1. IsFiniteSet(Y) /\ IsFiniteSet(X) /\ X \subseteq Y
    BY ScriptAssumption, FS_Subset
<1>2. Cardinality(X) \in Nat /\ Cardinality(Y) \in Nat /\ Cardinality(X) <= Cardinality(Y)
    BY <1>1, FS_Subset, FS_CardinalityType
<1> QED
    BY <1>2 DEF Count

Registered == {"release", "pass"}
Posting == {"signalPost"}
Shaking == {"shake"}
Awaiting == {"signalShake"}

\* A broadcast is under way from its call to its unlock; one that is not has
\* ended.  It leaves waiters as it was, so nothing is promised after the first.
Casting == {"castLock", "castPost", "castShake", "castUnlock"}
CastersCalled ==
    \A t \in Thread : pc[t] \in Casting => calls[t] >= 1 /\ script[t][calls[t]] = "broadcast"
BroadcastEnded ==
    \E t \in Thread : \E k \in 1..calls[t] :
        script[t][k] = "broadcast" /\ ~(k = calls[t] /\ pc[t] \in Casting)

\* A broadcast that has the lock.
Inside == {"castPost", "castShake", "castUnlock"}
NobodyInside == \A t \in Thread : pc[t] \notin Inside

\* The accounts of the signals.  A registered thread is counted in waiters, or
\* by the signal that will post for it, or by the permit that is out; a permit
\* that was taken is the handshake that the signal awaits.
Accounts ==
    /\ waiters \in Nat /\ sem["counting"] \in Nat /\ sem["handshake"] \in Nat /\ sem["lock"] \in Nat
    /\ Count(pc, Notifying) + sem["lock"] = 1
    /\ Count(pc, Registered) = waiters + Count(pc, Posting) + sem["counting"]
    /\ sem["counting"] + Count(pc, Shaking) + sem["handshake"] = Count(pc, Awaiting)

\* A wakeup that is under way is owed to a thread that waited when it began.
Owed == Count(pc, Posting) + sem["counting"] <= Cardinality(due \cap Waiting)

\* The accounts of the broadcast of c.  It counts down the permits that it has
\* still to post, and then the handshakes that it has still to get; whoever is
\* registered has a permit or will get one, and nobody can register meanwhile.
CastAccounts(c) ==
    /\ waiters \in Nat /\ sem["counting"] \in Nat /\ sem["handshake"] \in Nat /\ i[c] \in Nat
    /\ pc[c] \in Inside
    /\ sem["lock"] = 0
    /\ \A t \in Thread : pc[t] \in Notifying => t = c
    /\ Waiting \subseteq due
    /\ pc[c] = "castPost" =>
         /\ Count(pc, Registered) = i[c] + sem["counting"]
         /\ sem["counting"] + Count(pc, Shaking) + sem["handshake"] = waiters - i[c]
    /\ pc[c] = "castShake" =>
         /\ Count(pc, Registered) = sem["counting"]
         /\ sem["counting"] + Count(pc, Shaking) + sem["handshake"] = i[c]
    /\ pc[c] = "castUnlock" =>
         /\ Count(pc, Registered) = sem["counting"]
         /\ sem["counting"] + Count(pc, Shaking) + sem["handshake"] = 0

AInv ==
    /\ Typed
    /\ CastersCalled
    /\ ~BroadcastEnded => /\ i \in [Thread -> Int]
                          /\ \/ Accounts /\ Owed /\ NobodyInside
                             \/ \E c \in Thread : CastAccounts(c)

\* What a step does to a count.
Moves(A, here, next) ==
    /\ Count(pc, A) \in Nat
    /\ here \in A => Count(pc, A) >= 1
    /\ here \notin A /\ next \in A => Count(pc', A) = Count(pc, A) + 1
    /\ here \in A /\ next \notin A => Count(pc', A) = Count(pc, A) - 1
    /\ (here \in A <=> next \in A) => Count(pc', A) = Count(pc, A)

\* A thread that steps changes the count of a set of points only by entering or
\* leaving that set.
LEMMA CountMoves ==
    ASSUME Typed, NEW t \in Thread, NEW here, NEW next, At(t, here, next), NEW A
    PROVE  Moves(A, here, next)
<1> DEFINE X == {u \in Thread : pc[u] \in A}
           Y == {u \in Thread : pc'[u] \in A}
<1>1. IsFiniteSet(X)
    BY ScriptAssumption, FS_Subset
<1>2. Count(pc, A) = Cardinality(X) /\ Count(pc', A) = Cardinality(Y)
    BY DEF Count
<1>3. pc[t] = here /\ pc'[t] = next /\ \A u \in Thread : u # t => pc'[u] = pc[u]
    BY DEF At, Typed
<1>4. here \notin A /\ next \in A => Y = X \cup {t} /\ t \notin X
    BY <1>3
<1>5. here \in A /\ next \notin A => Y = X \ {t}
    BY <1>3
<1>6. (here \in A <=> next \in A) => Y = X
    BY <1>3
<1>7. here \in A => t \in X
    BY <1>3
<1> HIDE DEF X, Y
<1>8. Cardinality(X) \in Nat /\ (Cardinality(X) = 0 <=> X = {})
    BY <1>1, FS_CardinalityType, FS_EmptySet
<1>9. t \notin X => Cardinality(X \cup {t}) = Cardinality(X) + 1
    BY <1>1, FS_AddElement
<1>10. t \in X => Cardinality(X \ {t}) = Cardinality(X) - 1
    BY <1>1, FS_RemoveElement
<1>11. here \in A => Cardinality(X) >= 1
    BY <1>7, <1>8
<1>12. here \notin A /\ next \in A => Cardinality(Y) = Cardinality(X) + 1
    BY <1>4, <1>9
<1>13. here \in A /\ next \notin A => Cardinality(Y) = Cardinality(X) - 1
    BY <1>5, <1>7, <1>10
<1> QED
    BY <1>2, <1>6, <1>8, <1>11, <1>12, <1>13 DEF Moves

AllMove(here, next) ==
    /\ Moves(Notifying, here, next) /\ Moves(Registered, here, next)
    /\ Moves(Posting, here, next) /\ Moves(Shaking, here, next) /\ Moves(Awaiting, here, next)

\* The same for every set of points that the invariant counts.
LEMMA Counts ==
    ASSUME Typed, NEW t \in Thread, NEW here, NEW next, At(t, here, next)
    PROVE  AllMove(here, next)
    BY CountMoves DEF AllMove

\* While nobody notifies, nothing is under way.
LEMMA Quiet ==
    ASSUME NEW p, Count(p, Notifying) = 0
    PROVE  Count(p, Posting) = 0 /\ Count(p, Awaiting) = 0 /\ Count(p, Shaking) \in Nat
<1>1. Count(p, Posting) \in Nat /\ Count(p, Posting) <= 0
    BY CountMonotone DEF Posting, Notifying
<1>2. Count(p, Awaiting) \in Nat /\ Count(p, Awaiting) <= 0
    BY CountMonotone DEF Awaiting, Notifying
<1>3. Count(p, Shaking) \in Nat
    BY CountMonotone
<1> QED
    BY <1>1, <1>2, <1>3

\* Which program points the sets of the invariant have.
LEMMA Points ==
    \A x : /\ x \in Notifying <=> x \in {"signalPost", "signalShake", "signalUnlock",
                                           "castPost", "castShake", "castUnlock"}
           /\ x \in Registered <=> x \in {"release", "pass"}
           /\ x \in Posting <=> x = "signalPost"
           /\ x \in Shaking <=> x = "shake"
           /\ x \in Awaiting <=> x = "signalShake"
    BY DEF Notifying, Registered, Posting, Shaking, Awaiting

\* Every step but those of a broadcast keeps permits, claims and handshakes even.
LEMMA AccountsStep ==
    ASSUME Typed, Accounts, NEW t \in Thread,
           \/ Acquire(t) \/ Register(t) \/ Release(t) \/ Pass(t) \/ Shake(t)
           \/ Reacquire(t) \/ Leave(t)
           \/ SignalLock(t) \/ SignalPost(t) \/ SignalShake(t) \/ SignalUnlock(t)
    PROVE  Accounts'
<1>1. CASE Acquire(t)
  <2>1. At(t, "acquire", "register")
    BY <1>1 DEF Acquire
  <2>2. AllMove("acquire", "register")
    BY <2>1, Counts
  <2>3. /\ Count(pc', Notifying) = Count(pc, Notifying)
        /\ Count(pc', Registered) = Count(pc, Registered)
        /\ Count(pc', Posting) = Count(pc, Posting)
        /\ Count(pc', Shaking) = Count(pc, Shaking)
        /\ Count(pc', Awaiting) = Count(pc, Awaiting)
    BY <2>2, Points DEF AllMove, Moves
  <2>4. Count(pc, Notifying) \in Nat /\ Count(pc, Registered) \in Nat /\ Count(pc, Posting) \in Nat
        /\ Count(pc, Shaking) \in Nat /\ Count(pc, Awaiting) \in Nat
    BY <2>2 DEF AllMove, Moves
  <2>5. sem'["lock"] = sem["lock"] /\ sem'["counting"] = sem["counting"] /\ sem'["handshake"] = sem["handshake"]
    BY <1>1 DEF Acquire, P, PostTo, data, Semaphore, Typed
  <2> QED
    BY <1>1, <2>3, <2>4, <2>5 DEF Accounts, Acquire, data, P
<1>2. CASE Register(t)
  <2>1. At(t, "register", "release")
    BY <1>2 DEF Register
  <2>2. AllMove("register", "release")
    BY <2>1, Counts
  <2>3. /\ Count(pc', Notifying) = Count(pc, Notifying)
        /\ Count(pc', Registered) = Count(pc, Registered) + 1
        /\ Count(pc', Posting) = Count(pc, Posting)
        /\ Count(pc', Shaking) = Count(pc, Shaking)
        /\ Count(pc', Awaiting) = Count(pc, Awaiting)
    BY <2>2, Points DEF AllMove, Moves
  <2>4. Count(pc, Notifying) \in Nat /\ Count(pc, Registered) \in Nat /\ Count(pc, Posting) \in Nat
        /\ Count(pc, Shaking) \in Nat /\ Count(pc, Awaiting) \in Nat
    BY <2>2 DEF AllMove, Moves
  <2>5. sem'["lock"] = sem["lock"] /\ sem'["counting"] = sem["counting"] /\ sem'["handshake"] = sem["handshake"]
    BY <1>2 DEF Register, P, PostTo, data, Semaphore, Typed
  <2> QED
    BY <1>2, <2>3, <2>4, <2>5 DEF Accounts, Register, data, P
<1>3. CASE Release(t)
  <2>1. At(t, "release", "pass")
    BY <1>3 DEF Release
  <2>2. AllMove("release", "pass")
    BY <2>1, Counts
  <2>3. /\ Count(pc', Notifying) = Count(pc, Notifying)
        /\ Count(pc', Registered) = Count(pc, Registered)
        /\ Count(pc', Posting) = Count(pc, Posting)
        /\ Count(pc', Shaking) = Count(pc, Shaking)
        /\ Count(pc', Awaiting) = Count(pc, Awaiting)
    BY <2>2, Points DEF AllMove, Moves
  <2>4. Count(pc, Notifying) \in Nat /\ Count(pc, Registered) \in Nat /\ Count(pc, Posting) \in Nat
        /\ Count(pc, Shaking) \in Nat /\ Count(pc, Awaiting) \in Nat
    BY <2>2 DEF AllMove, Moves
  <2>5. sem'["lock"] = sem["lock"] /\ sem'["counting"] = sem["counting"] /\ sem'["handshake"] = sem["handshake"]
    BY <1>3 DEF Release, P, PostTo, data, Semaphore, Typed
  <2> QED
    BY <1>3, <2>3, <2>4, <2>5 DEF Accounts, Release, data, P
<1>4. CASE Pass(t)
  <2>1. At(t, "pass", "shake")
    BY <1>4 DEF Pass
  <2>2. AllMove("pass", "shake")
    BY <2>1, Counts
  <2>3. /\ Count(pc', Notifying) = Count(pc, Notifying)
        /\ Count(pc', Registered) = Count(pc, Registered) - 1
        /\ Count(pc', Posting) = Count(pc, Posting)
        /\ Count(pc', Shaking) = Count(pc, Shaking) + 1
        /\ Count(pc', Awaiting) = Count(pc, Awaiting)
    BY <2>2, Points DEF AllMove, Moves
  <2>4. Count(pc, Notifying) \in Nat /\ Count(pc, Registered) \in Nat /\ Count(pc, Posting) \in Nat
        /\ Count(pc, Shaking) \in Nat /\ Count(pc, Awaiting) \in Nat
    BY <2>2 DEF AllMove, Moves
  <2>5. sem'["lock"] = sem["lock"] /\ sem'["counting"] = sem["counting"] - 1 /\ sem'["handshake"] = sem["handshake"]
    BY <1>4 DEF Pass, P, PostTo, data, Semaphore, Typed
  <2> QED
    BY <1>4, <2>3, <2>4, <2>5 DEF Accounts, Pass, data, P
<1>5. CASE Shake(t)
  <2>1. At(t, "shake", "reacquire")
    BY <1>5 DEF Shake
  <2>2. AllMove("shake", "reacquire")
    BY <2>1, Counts
  <2>3. /\ Count(pc', Notifying) = Count(pc, Notifying)
        /\ Count(pc', Registered) = Count(pc, Registered)
        /\ Count(pc', Posting) = Count(pc, Posting)
        /\ Count(pc', Shaking) = Count(pc, Shaking) - 1
        /\ Count(pc', Awaiting) = Count(pc, Awaiting)
    BY <2>2, Points DEF AllMove, Moves
  <2>4. Count(pc, Notifying) \in Nat /\ Count(pc, Registered) \in Nat /\ Count(pc, Posting) \in Nat
        /\ Count(pc, Shaking) \in Nat /\ Count(pc, Awaiting) \in Nat
    BY <2>2 DEF AllMove, Moves
  <2>5. sem'["lock"] = sem["lock"] /\ sem'["counting"] = sem["counting"] /\ sem'["handshake"] = sem["handshake"] + 1
    BY <1>5 DEF Shake, P, PostTo, data, Semaphore, Typed
  <2> QED
    BY <1>5, <2>3, <2>4, <2>5 DEF Accounts, Shake, data, P
<1>6. CASE Reacquire(t)
  <2>1. At(t, "reacquire", "leave")
    BY <1>6 DEF Reacquire
  <2>2. AllMove("reacquire", "leave")
    BY <2>1, Counts
  <2>3. /\ Count(pc', Notifying) = Count(pc, Notifying)
        /\ Count(pc', Registered) = Count(pc, Registered)
        /\ Count(pc', Posting) = Count(pc, Posting)
        /\ Count(pc', Shaking) = Count(pc, Shaking)
        /\ Count(pc', Awaiting) = Count(pc, Awaiting)
    BY <2>2, Points DEF AllMove, Moves
  <2>4. Count(pc, Notifying) \in Nat /\ Count(pc, Registered) \in Nat /\ Count(pc, Posting) \in Nat
        /\ Count(pc, Shaking) \in Nat /\ Count(pc, Awaiting) \in Nat
    BY <2>2 DEF AllMove, Moves
  <2>5. sem'["lock"] = sem["lock"] /\ sem'["counting"] = sem["counting"] /\ sem'["handshake"] = sem["handshake"]
    BY <1>6 DEF Reacquire, P, PostTo, data, Semaphore, Typed
  <2> QED
    BY <1>6, <2>3, <2>4, <2>5 DEF Accounts, Reacquire, data, P
<1>7. CASE Leave(t)
  <2>1. At(t, "leave", "idle")
    BY <1>7 DEF Leave
  <2>2. AllMove("leave", "idle")
    BY <2>1, Counts
  <2>3. /\ Count(pc', Notifying) = Count(pc, Notifying)
        /\ Count(pc', Registered) = Count(pc, Registered)
        /\ Count(pc', Posting) = Count(pc, Posting)
        /\ Count(pc', Shaking) = Count(pc, Shaking)
        /\ Count(pc', Awaiting) = Count(pc, Awaiting)
    BY <2>2, Points DEF AllMove, Moves
  <2>4. Count(pc, Notifying) \in Nat /\ Count(pc, Registered) \in Nat /\ Count(pc, Posting) \in Nat
        /\ Count(pc, Shaking) \in Nat /\ Count(pc, Awaiting) \in Nat
    BY <2>2 DEF AllMove, Moves
  <2>5. sem'["lock"] = sem["lock"] /\ sem'["counting"] = sem["counting"] /\ sem'["handshake"] = sem["handshake"]
    BY <1>7 DEF Leave, P, PostTo, data, Semaphore, Typed
  <2> QED
    BY <1>7, <2>3, <2>4, <2>5 DEF Accounts, Leave, data, P
<1>8. CASE SignalLock(t) /\ waiters > 0
  <2>1. At(t, "signalLock", "signalPost")
    BY <1>8 DEF SignalLock
  <2>2. AllMove("signalLock", "signalPost")
    BY <2>1, Counts
  <2>3. /\ Count(pc', Notifying) = Count(pc, Notifying) + 1
        /\ Count(pc', Registered) = Count(pc, Registered)
        /\ Count(pc', Posting) = Count(pc, Posting) + 1
        /\ Count(pc', Shaking) = Count(pc, Shaking)
        /\ Count(pc', Awaiting) = Count(pc, Awaiting)
    BY <2>2, Points DEF AllMove, Moves
  <2>4. Count(pc, Notifying) \in Nat /\ Count(pc, Registered) \in Nat /\ Count(pc, Posting) \in Nat
        /\ Count(pc, Shaking) \in Nat /\ Count(pc, Awaiting) \in Nat
    BY <2>2 DEF AllMove, Moves
  <2>5. sem'["lock"] = sem["lock"] - 1 /\ sem'["counting"] = sem["counting"] /\ sem'["handshake"] = sem["handshake"]
        /\ waiters' = waiters - 1 /\ sem["lock"] > 0
    BY <1>8 DEF SignalLock, P, PostTo, data, Semaphore, Typed
  <2> QED
    BY <1>8, <2>3, <2>4, <2>5 DEF Accounts
<1>9. CASE SignalLock(t) /\ ~(waiters > 0)
  <2>1. At(t, "signalLock", "signalUnlock")
    BY <1>9 DEF SignalLock
  <2>2. AllMove("signalLock", "signalUnlock")
    BY <2>1, Counts
  <2>3. /\ Count(pc', Notifying) = Count(pc, Notifying) + 1
        /\ Count(pc', Registered) = Count(pc, Registered)
        /\ Count(pc', Posting) = Count(pc, Posting)
        /\ Count(pc', Shaking) = Count(pc, Shaking)
        /\ Count(pc', Awaiting) = Count(pc, Awaiting)
    BY <2>2, Points DEF AllMove, Moves
  <2>4. Count(pc, Notifying) \in Nat /\ Count(pc, Registered) \in Nat /\ Count(pc, Posting) \in Nat
        /\ Count(pc, Shaking) \in Nat /\ Count(pc, Awaiting) \in Nat
    BY <2>2 DEF AllMove, Moves
  <2>5. sem'["lock"] = sem["lock"] - 1 /\ sem'["counting"] = sem["counting"] /\ sem'["handshake"] = sem["handshake"]
    BY <1>9 DEF SignalLock, P, PostTo, data, Semaphore, Typed
  <2> QED
    BY <1>9, <2>3, <2>4, <2>5 DEF Accounts, SignalLock, data, P
<1>10. CASE SignalPost(t)
  <2>1. At(t, "signalPost", "signalShake")
    BY <1>10 DEF SignalPost
  <2>2. AllMove("signalPost", "signalShake")
    BY <2>1, Counts
  <2>3. /\ Count(pc', Notifying) = Count(pc, Notifying)
        /\ Count(pc', Registered) = Count(pc, Registered)
        /\ Count(pc', Posting) = Count(pc, Posting) - 1
        /\ Count(pc', Shaking) = Count(pc, Shaking)
        /\ Count(pc', Awaiting) = Count(pc, Awaiting) + 1
    BY <2>2, Points DEF AllMove, Moves
  <2>4. Count(pc, Notifying) \in Nat /\ Count(pc, Registered) \in Nat /\ Count(pc, Posting) \in Nat
        /\ Count(pc, Shaking) \in Nat /\ Count(pc, Awaiting) \in Nat
    BY <2>2 DEF AllMove, Moves
  <2>5. sem'["lock"] = sem["lock"] /\ sem'["counting"] = sem["counting"] + 1 /\ sem'["handshake"] = sem["handshake"]
    BY <1>10 DEF SignalPost, P, PostTo, data, Semaphore, Typed
  <2> QED
    BY <1>10, <2>3, <2>4, <2>5 DEF Accounts, SignalPost, data, P
<1>11. CASE SignalShake(t)
  <2>1. At(t, "signalShake", "signalUnlock")
    BY <1>11 DEF SignalShake
  <2>2. AllMove("signalShake", "signalUnlock")
    BY <2>1, Counts
  <2>3. /\ Count(pc', Notifying) = Count(pc, Notifying)
        /\ Count(pc', Registered) = Count(pc, Registered)
        /\ Count(pc', Posting) = Count(pc, Posting)
        /\ Count(pc', Shaking) = Count(pc, Shaking)
        /\ Count(pc', Awaiting) = Count(pc, Awaiting) - 1
    BY <2>2, Points DEF AllMove, Moves
  <2>4. Count(pc, Notifying) \in Nat /\ Count(pc, Registered) \in Nat /\ Count(pc, Posting) \in Nat
        /\ Count(pc, Shaking) \in Nat /\ Count(pc, Awaiting) \in Nat
    BY <2>2 DEF AllMove, Moves
  <2>5. sem'["lock"] = sem["lock"] /\ sem'["counting"] = sem["counting"] /\ sem'["handshake"] = sem["handshake"] - 1
    BY <1>11 DEF SignalShake, P, PostTo, data, Semaphore, Typed
  <2> QED
    BY <1>11, <2>3, <2>4, <2>5 DEF Accounts, SignalShake, data, P
<1>12. CASE SignalUnlock(t)
  <2>1. At(t, "signalUnlock", "idle")
    BY <1>12 DEF SignalUnlock, Unlock
  <2>2. AllMove("signalUnlock", "idle")
    BY <2>1, Counts
  <2>3. /\ Count(pc', Notifying) = Count(pc, Notifying) - 1
        /\ Count(pc', Registered) = Count(pc, Registered)
        /\ Count(pc', Posting) = Count(pc, Posting)
        /\ Count(pc', Shaking) = Count(pc, Shaking)
        /\ Count(pc', Awaiting) = Count(pc, Awaiting)
    BY <2>2, Points DEF AllMove, Moves
  <2>4. Count(pc, Notifying) \in Nat /\ Count(pc, Registered) \in Nat /\ Count(pc, Posting) \in Nat
        /\ Count(pc, Shaking) \in Nat /\ Count(pc, Awaiting) \in Nat
    BY <2>2 DEF AllMove, Moves
  <2>5. sem'["lock"] = sem["lock"] + 1 /\ sem'["counting"] = sem["counting"] /\ sem'["handshake"] = sem["handshake"]
    BY <1>12 DEF SignalUnlock, Unlock, P, PostTo, data, Semaphore, Typed
  <2> QED
    BY <1>12, <2>3, <2>4, <2>5 DEF Accounts, SignalUnlock, Unlock, data, P
<1> QED
    BY <1>1, <1>2, <1>3, <1>4, <1>5, <1>6, <1>7, <1>8, <1>9, <1>10, <1>11, <1>12

\* The wakeups that are under way stay owed.
LEMMA OwedStep ==
    ASSUME Typed, Accounts, Owed, NEW t \in Thread,
           \/ Acquire(t) \/ Register(t) \/ Release(t) \/ Pass(t) \/ Shake(t)
           \/ Reacquire(t) \/ Leave(t)
           \/ SignalLock(t) \/ SignalPost(t) \/ SignalShake(t) \/ SignalUnlock(t)
    PROVE  Owed'
<1>1. /\ IsFiniteSet(due \cap Waiting) /\ IsFiniteSet(due' \cap Waiting')
      /\ Cardinality(due \cap Waiting) \in Nat /\ Cardinality(due' \cap Waiting') \in Nat
    BY ScriptAssumption, FS_Subset, FS_Intersection, FS_CardinalityType DEF Waiting
<1>2. Cardinality(Waiting) = Count(pc, Registered)
    BY DEF Waiting, Count, Registered
<1>3. CASE Acquire(t) \/ Release(t) \/ Shake(t) \/ Reacquire(t) \/ Leave(t) \/ SignalShake(t)
  <2>1. \E here, next \in PC : At(t, here, next) /\ (here \in Registered <=> next \in Registered)
                                                /\ here # "signalPost" /\ next # "signalPost"
    BY <1>3 DEF Acquire, Release, Shake, Reacquire, Leave, SignalShake, PC, Registered
  <2>2. Waiting' = Waiting
    BY <2>1 DEF At, Waiting, Registered, Typed
  <2>3. Count(pc', Posting) = Count(pc, Posting)
    BY <2>1, Counts, Points DEF AllMove, Moves
  <2>4. sem'["counting"] = sem["counting"] /\ due' = due
    BY <1>3 DEF Acquire, Release, Shake, Reacquire, Leave, SignalShake, P, PostTo, data, Semaphore, Typed
  <2> QED
    BY <2>2, <2>3, <2>4 DEF Owed
<1>4. CASE Register(t)
  <2>1. Count(pc, Notifying) = 0
    BY <1>4, CountMonotone DEF Register, Accounts
  <2>2. Count(pc, Posting) = 0 /\ sem["counting"] = 0
    BY <2>1, Quiet DEF Accounts
  <2>3. At(t, "register", "release") /\ sem' = sem
    BY <1>4 DEF Register
  <2>4. AllMove("register", "release")
    BY <2>3, Counts
  <2>5. Count(pc', Posting) = 0
    BY <2>2, <2>4, Points DEF AllMove, Moves
  <2> QED
    BY <1>1, <2>2, <2>3, <2>5 DEF Owed
<1>5. CASE Pass(t)
  <2>1. At(t, "pass", "shake")
    BY <1>5 DEF Pass
  <2>2. AllMove("pass", "shake")
    BY <2>1, Counts
  <2>3. Count(pc', Posting) = Count(pc, Posting) /\ Count(pc, Posting) \in Nat
    BY <2>2, Points DEF AllMove, Moves
  <2>4. sem'["counting"] = sem["counting"] - 1
    BY <1>5 DEF Pass, P, Semaphore, Typed
  <2>5. due' \cap Waiting' = (due \cap Waiting) \ {t}
    BY <1>5, <2>1 DEF Pass, At, Waiting, Typed
  <2>6. ASSUME NEW S, IsFiniteSet(S), Cardinality(S) \in Nat
        PROVE  Cardinality(S \ {t}) >= Cardinality(S) - 1
    BY <2>6, FS_RemoveElement
  <2>7. Cardinality((due \cap Waiting) \ {t}) >= Cardinality(due \cap Waiting) - 1
    BY <1>1, <2>6
  <2>8. Cardinality(due' \cap Waiting') >= Cardinality(due \cap Waiting) - 1
    BY <2>5, <2>7, Zenon
  <2> QED
    BY <1>1, <2>3, <2>4, <2>8 DEF Owed, Accounts
<1>6. CASE SignalLock(t)
  <2>1. Count(pc, Notifying) = 0 /\ due' = Waiting /\ sem'["counting"] = sem["counting"]
    <3>1. Count(pc, Notifying) \in Nat
      BY CountMonotone, Zenon
    <3>2. sem["lock"] > 0 /\ due' = Waiting /\ sem'["counting"] = sem["counting"]
      BY <1>6 DEF SignalLock, P, Semaphore, Typed
    <3> QED
      BY <3>1, <3>2 DEF Accounts
  <2>2. Count(pc, Posting) = 0 /\ sem["counting"] = 0
    BY <2>1, Quiet DEF Accounts
  <2>3. PICK next : At(t, "signalLock", next)
                    /\ next = IF waiters > 0 THEN "signalPost" ELSE "signalUnlock"
    BY <1>6 DEF SignalLock
  <2>4. AllMove("signalLock", next)
    BY <2>3, Counts
  <2>5. Count(pc', Posting) = IF waiters > 0 THEN 1 ELSE 0
    BY <2>2, <2>3, <2>4, Points DEF AllMove, Moves
  <2>6. Waiting' = Waiting
    BY <2>3 DEF At, Waiting, Typed
  <2>7. due' \cap Waiting' = Waiting
    BY <2>1, <2>6
  <2>8. Count(pc, Registered) = waiters
    BY <2>2 DEF Accounts
  <2>9. Cardinality(due' \cap Waiting') = waiters
    BY <1>2, <2>7, <2>8, Zenon
  <2> QED
    BY <2>1, <2>2, <2>5, <2>9 DEF Owed, Accounts
<1>7. CASE SignalPost(t)
  <2>1. At(t, "signalPost", "signalShake")
    BY <1>7 DEF SignalPost
  <2>2. AllMove("signalPost", "signalShake")
    BY <2>1, Counts
  <2>3. Count(pc', Posting) = Count(pc, Posting) - 1 /\ Count(pc, Posting) \in Nat
    BY <2>2, Points DEF AllMove, Moves
  <2>4. sem'["counting"] = sem["counting"] + 1 /\ due' = due
    BY <1>7 DEF SignalPost, PostTo, data, Semaphore, Typed
  <2>5. Waiting' = Waiting
    BY <2>1 DEF At, Waiting, Typed
  <2> QED
    BY <2>3, <2>4, <2>5 DEF Owed, Accounts
<1>8. CASE SignalUnlock(t)
  <2>1. At(t, "signalUnlock", "idle") /\ sem'["lock"] = sem["lock"] + 1
    BY <1>8 DEF SignalUnlock, Unlock, PostTo, Semaphore, Typed
  <2>2. AllMove("signalUnlock", "idle")
    BY <2>1, Counts
  <2>3. Count(pc', Notifying) = Count(pc, Notifying) - 1 /\ Count(pc, Notifying) \in Nat
        /\ Count(pc, Notifying) >= 1
    BY <2>2, Points DEF AllMove, Moves
  <2>4. Count(pc', Notifying) = 0
    BY <2>3 DEF Accounts
  <2>5. Count(pc', Posting) = 0 /\ Count(pc', Awaiting) = 0 /\ Count(pc', Shaking) \in Nat
    BY <2>4, Quiet
  <2>6. Accounts'
    BY <1>8, AccountsStep
  <2>7. sem'["counting"] = 0
    BY <2>5, <2>6 DEF Accounts
  <2> QED
    BY <1>1, <2>5, <2>7 DEF Owed
<1> QED
    BY <1>3, <1>4, <1>5, <1>6, <1>7, <1>8

-----------------------------------------------------------------------------
\* A broadcast that has ended has ended for good.
LEMMA StaysEnded ==
    ASSUME Typed, NEW t \in Thread, NEW next, next \notin Casting \/ pc[t] \in Casting,
           pc' = [pc EXCEPT ![t] = next], script' = script, calls' = calls,
           BroadcastEnded
    PROVE  BroadcastEnded'
<1>1. PICK u \in Thread : \E k \in 1..calls[u] :
          script[u][k] = "broadcast" /\ ~(k = calls[u] /\ pc[u] \in Casting)
    BY DEF BroadcastEnded
<1>2. \A k : ~(k = calls[u] /\ pc[u] \in Casting) =>
               ~(k = calls[u] /\ pc'[u] \in Casting)
    BY DEF Typed
<1> QED
    BY <1>1, <1>2 DEF BroadcastEnded

\* A broadcast that has the lock keeps its accounts while other threads take
\* their permits, give their handshakes and come and go with the mutex.
LEMMA CastAccountsStep ==
    ASSUME Typed, NEW c \in Thread, CastAccounts(c), NEW t \in Thread,
           \/ Acquire(t) \/ Register(t) \/ Release(t) \/ Pass(t) \/ Shake(t)
           \/ Reacquire(t) \/ Leave(t)
           \/ SignalLock(t) \/ SignalPost(t) \/ SignalShake(t) \/ SignalUnlock(t)
    PROVE  CastAccounts(c)'
<1>1. ~Register(t) /\ ~SignalLock(t) /\ ~SignalPost(t) /\ ~SignalShake(t) /\ ~SignalUnlock(t)
    BY DEF CastAccounts, Register, SignalLock, SignalPost, SignalShake, SignalUnlock, Unlock,
           P, At, Inside, Notifying
<1>2. Count(pc, Registered) \in Nat /\ Count(pc, Shaking) \in Nat
    BY CountMonotone
<1>3. CASE Acquire(t) \/ Release(t) \/ Reacquire(t) \/ Leave(t)
  <2>1. PICK here, next \in PC :
          /\ At(t, here, next)
          /\ here \in Registered <=> next \in Registered
          /\ here \notin Shaking /\ next \notin Shaking
          /\ here \notin Notifying /\ next \notin Notifying
    BY <1>3 DEF Acquire, Release, Reacquire, Leave, PC, Registered, Shaking, Notifying
  <2>2. Moves(Registered, here, next) /\ Moves(Shaking, here, next)
    BY <2>1, CountMoves
  <2>3. Count(pc', Registered) = Count(pc, Registered) /\ Count(pc', Shaking) = Count(pc, Shaking)
    BY <2>1, <2>2 DEF Moves
  <2>4. /\ sem'["counting"] = sem["counting"] /\ sem'["handshake"] = sem["handshake"]
        /\ sem'["lock"] = sem["lock"]
        /\ waiters' = waiters /\ i' = i /\ due' = due
    BY <1>3 DEF Acquire, Release, Reacquire, Leave, P, PostTo, data, Semaphore, Typed
  <2>5. /\ pc'[c] = pc[c] /\ Waiting' = Waiting
        /\ \A u \in Thread : pc'[u] \in Notifying => pc[u] \in Notifying
    BY <2>1 DEF At, Typed, CastAccounts, Inside, Notifying, Waiting, Registered
  <2> QED
    BY <2>3, <2>4, <2>5 DEF CastAccounts
<1>4. CASE Pass(t)
  <2>1. At(t, "pass", "shake")
    BY <1>4 DEF Pass
  <2>2. Moves(Registered, "pass", "shake") /\ Moves(Shaking, "pass", "shake")
    BY <2>1, CountMoves
  <2>3. /\ Count(pc', Registered) = Count(pc, Registered) - 1
        /\ Count(pc', Shaking) = Count(pc, Shaking) + 1
    BY <2>2, Points DEF Moves
  <2>4. /\ sem'["counting"] = sem["counting"] - 1 /\ sem["counting"] > 0
        /\ sem'["handshake"] = sem["handshake"] /\ sem'["lock"] = sem["lock"]
        /\ waiters' = waiters /\ i' = i /\ due' = due \ {t}
    BY <1>4 DEF Pass, P, Semaphore, Typed
  <2>5. /\ pc'[c] = pc[c] /\ Waiting' \subseteq Waiting \ {t}
        /\ \A u \in Thread : pc'[u] \in Notifying => pc[u] \in Notifying
    BY <2>1 DEF At, Typed, CastAccounts, Inside, Notifying, Waiting
  <2> QED
    BY <1>2, <2>3, <2>4, <2>5 DEF CastAccounts
<1>5. CASE Shake(t)
  <2>1. At(t, "shake", "reacquire")
    BY <1>5 DEF Shake
  <2>2. Moves(Registered, "shake", "reacquire") /\ Moves(Shaking, "shake", "reacquire")
    BY <2>1, CountMoves
  <2>3. /\ Count(pc', Registered) = Count(pc, Registered)
        /\ Count(pc', Shaking) = Count(pc, Shaking) - 1
    BY <2>2, Points DEF Moves
  <2>4. /\ sem'["handshake"] = sem["handshake"] + 1
        /\ sem'["counting"] = sem["counting"] /\ sem'["lock"] = sem["lock"]
        /\ waiters' = waiters /\ i' = i /\ due' = due
    BY <1>5 DEF Shake, PostTo, data, Semaphore, Typed
  <2>5. /\ pc'[c] = pc[c] /\ Waiting' = Waiting
        /\ \A u \in Thread : pc'[u] \in Notifying => pc[u] \in Notifying
    BY <2>1 DEF At, Typed, CastAccounts, Inside, Notifying, Waiting
  <2>6. /\ sem'["handshake"] \in Nat
        /\ sem["counting"] + Count(pc', Shaking) + sem'["handshake"]
             = sem["counting"] + Count(pc, Shaking) + sem["handshake"]
    BY <1>2, <2>3, <2>4 DEF CastAccounts
  <2> QED
    BY <2>3, <2>4, <2>5, <2>6 DEF CastAccounts
<1> QED
    BY <1>1, <1>3, <1>4, <1>5

\* A broadcast takes the accounts over as the signals left them, with a permit
\* to post for each thread that waits.
LEMMA CastBegins ==
    ASSUME Typed, i \in [Thread -> Int], Accounts, NEW t \in Thread, CastLock(t)
    PROVE  CastAccounts(t)'
<1>1. At(t, "castLock", "castPost") /\ sem["lock"] > 0
    BY DEF CastLock, P
<1>2. Count(pc, Notifying) = 0 /\ sem["lock"] = 1
    BY <1>1, CountMonotone DEF Accounts
<1>3. Count(pc, Posting) = 0 /\ Count(pc, Awaiting) = 0
    BY <1>2, Quiet
<1>4. Moves(Registered, "castLock", "castPost") /\ Moves(Shaking, "castLock", "castPost")
    BY <1>1, CountMoves
<1>5. /\ Count(pc', Registered) = Count(pc, Registered) /\ Count(pc, Registered) \in Nat
      /\ Count(pc', Shaking) = Count(pc, Shaking) /\ Count(pc, Shaking) \in Nat
    BY <1>4, Points DEF Moves
<1>6. /\ sem'["lock"] = 0
      /\ sem'["counting"] = sem["counting"] /\ sem'["handshake"] = sem["handshake"]
      /\ waiters' = waiters /\ i'[t] = waiters /\ due' = Waiting
    BY <1>2 DEF CastLock, P, Semaphore, Typed
<1>7. \A u \in Thread : pc[u] \notin Notifying
  <2>1. IsFiniteSet({u \in Thread : pc[u] \in Notifying})
    BY ScriptAssumption, FS_Subset
  <2>2. {u \in Thread : pc[u] \in Notifying} = {}
    BY <1>2, <2>1, FS_EmptySet DEF Count
  <2> QED
    BY <2>2
<1>8. /\ pc'[t] = "castPost" /\ Waiting' = Waiting
      /\ \A u \in Thread : pc'[u] \in Notifying => u = t
    BY <1>1, <1>7 DEF At, Typed, Waiting
<1> QED
    BY <1>3, <1>5, <1>6, <1>8 DEF Accounts, CastAccounts, Inside

\* The two helpers of the broadcast keep its accounts.
LEMMA CastHelpers ==
    ASSUME Typed, i \in [Thread -> Int], NEW c \in Thread, CastAccounts(c),
           CastPost(c) \/ CastShake(c)
    PROVE  CastAccounts(c)'
<1>1. PICK next \in Inside : At(c, pc[c], next)
    BY DEF CastPost, CastShake, At, Inside
<1>2. pc[c] \in Inside
    BY DEF CastAccounts
<1>3. Moves(Registered, pc[c], next) /\ Moves(Shaking, pc[c], next)
    BY <1>1, CountMoves
<1>4. /\ Count(pc', Registered) = Count(pc, Registered) /\ Count(pc, Registered) \in Nat
      /\ Count(pc', Shaking) = Count(pc, Shaking) /\ Count(pc, Shaking) \in Nat
    BY <1>2, <1>3 DEF Moves, Inside, Registered, Shaking
<1>5. /\ Waiting' = Waiting /\ pc'[c] = next
      /\ \A u \in Thread : pc'[u] \in Notifying => u = c
    BY <1>1, <1>2 DEF At, Typed, Waiting, CastAccounts, Inside
<1>6. waiters' = waiters /\ due' = due
    BY DEF CastPost, CastShake
<1>7. CASE CastPost(c) /\ i[c] = 0
  <2>1. pc[c] = "castPost" /\ pc'[c] = "castShake" /\ i'[c] = waiters /\ sem' = sem
    BY <1>7 DEF CastPost, At, Typed
  <2> QED
    BY <1>4, <1>5, <1>6, <1>7, <2>1 DEF CastAccounts, Inside
<1>8. CASE CastPost(c) /\ i[c] # 0
  <2>1. /\ pc[c] = "castPost" /\ pc'[c] = "castPost" /\ i'[c] = i[c] - 1
        /\ sem'["counting"] = sem["counting"] + 1
        /\ sem'["handshake"] = sem["handshake"] /\ sem'["lock"] = sem["lock"]
    BY <1>8 DEF CastPost, CountDown, At, Typed, PostTo, Semaphore
  <2> QED
    BY <1>4, <1>5, <1>6, <1>8, <2>1 DEF CastAccounts, Inside
<1>9. CASE CastShake(c) /\ i[c] = 0
  <2>1. pc[c] = "castShake" /\ pc'[c] = "castUnlock" /\ i' = i /\ sem' = sem
    BY <1>9 DEF CastShake, At, Typed
  <2> QED
    BY <1>4, <1>5, <1>6, <1>9, <2>1 DEF CastAccounts, Inside
<1>10. CASE CastShake(c) /\ i[c] # 0
  <2>1. /\ pc[c] = "castShake" /\ pc'[c] = "castShake" /\ i'[c] = i[c] - 1
        /\ sem'["handshake"] = sem["handshake"] - 1 /\ sem["handshake"] > 0
        /\ sem'["counting"] = sem["counting"] /\ sem'["lock"] = sem["lock"]
    BY <1>10 DEF CastShake, CountDown, At, Typed, P, Semaphore
  <2> QED
    BY <1>4, <1>5, <1>6, <1>10, <2>1 DEF CastAccounts, Inside
<1> QED
    BY <1>7, <1>8, <1>9, <1>10

\* Every step, of a broadcast too, keeps them even.
LEMMA NextAInv == AInv /\ [Next]_vars => AInv'
<1> SUFFICES ASSUME AInv, [Next]_vars PROVE AInv'
    OBVIOUS
<1>1. Typed /\ Typed' /\ CastersCalled
    BY TypedNext DEF AInv
<1>2. CASE UNCHANGED vars
  <2>1. /\ sem' = sem /\ waiters' = waiters /\ i' = i /\ due' = due
        /\ pc' = pc /\ script' = script /\ calls' = calls
    BY <1>2 DEF vars, data
  <2>2. /\ (Accounts /\ Owed /\ NobodyInside) => (Accounts /\ Owed /\ NobodyInside)'
        /\ \A c \in Thread : CastAccounts(c) => CastAccounts(c)'
        /\ BroadcastEnded => BroadcastEnded'
    BY <2>1 DEF Accounts, Owed, NobodyInside, CastAccounts, BroadcastEnded, Waiting
  <2> QED
    BY <1>1, <2>1, <2>2 DEF AInv, CastersCalled
<1>3. ASSUME NEW t \in Thread, Call(t) PROVE AInv'
  <2> DEFINE next == FirstOf[script[t][calls[t] + 1]]
  <2>1. /\ script' = script /\ calls'[t] = calls[t] + 1 /\ calls[t] \in Nat
        /\ calls' = [calls EXCEPT ![t] = @ + 1]
        /\ sem' = sem /\ waiters' = waiters /\ i' = i /\ due' = due
    BY <1>1, <1>3 DEF Call, data, Typed
  <2>2. /\ pc[t] = "idle" /\ pc' = [pc EXCEPT ![t] = next]
        /\ script[t][calls[t] + 1] \in Operation
    BY <1>1, <1>3, <2>1 DEF Call, Typed
  <2>3. next \in {"acquire", "signalLock", "castLock"}
        /\ (next = "castLock" => script[t][calls[t] + 1] = "broadcast")
    BY <2>2 DEF FirstOf, Operation
  <2> HIDE DEF next
  <2>4. CastersCalled'
    BY <1>1, <2>1, <2>2, <2>3 DEF CastersCalled, Casting, Typed
  <2>5. BroadcastEnded => BroadcastEnded'
    <3> SUFFICES ASSUME BroadcastEnded PROVE BroadcastEnded'
      OBVIOUS
    <3>1. PICK u \in Thread : \E k \in 1..calls[u] :
              script[u][k] = "broadcast" /\ ~(k = calls[u] /\ pc[u] \in Casting)
      BY DEF BroadcastEnded
    <3>2. CASE u = t
      <4>1. \A k \in 1..calls[u] : k \in 1..calls'[u] /\ k # calls'[u]
        BY <2>1, <3>2
      <4> QED
        BY <2>1, <3>1, <4>1 DEF BroadcastEnded
    <3>3. CASE u # t
      <4>1. pc'[u] = pc[u] /\ calls'[u] = calls[u]
        BY <1>1, <2>1, <2>2, <3>3 DEF Typed
      <4> QED
        BY <2>1, <3>1, <4>1 DEF BroadcastEnded
    <3> QED
      BY <3>2, <3>3
  <2>6. ASSUME NEW A, "idle" \notin A, next \notin A PROVE Count(pc', A) = Count(pc, A)
    <3>1. \A u \in Thread : pc[u] \in A <=> pc'[u] \in A
      BY <1>1, <2>2, <2>6 DEF Typed
    <3> QED
      BY <3>1 DEF Count
  <2>7. /\ Count(pc', Notifying) = Count(pc, Notifying)
        /\ Count(pc', Registered) = Count(pc, Registered)
        /\ Count(pc', Posting) = Count(pc, Posting)
        /\ Count(pc', Shaking) = Count(pc, Shaking)
        /\ Count(pc', Awaiting) = Count(pc, Awaiting)
    BY <2>3, <2>6, Points
  <2>8. Waiting' = Waiting
    BY <1>1, <2>2, <2>3 DEF Waiting, Typed
  <2>9. \A u \in Thread : \/ pc'[u] = pc[u]
                          \/ pc[u] \notin Notifying /\ pc'[u] \notin Notifying
    BY <1>1, <2>2, <2>3 DEF Notifying, Typed
  <2>10. (Accounts /\ Owed /\ NobodyInside) => (Accounts /\ Owed /\ NobodyInside)'
    BY <2>1, <2>7, <2>8, <2>9 DEF Accounts, Owed, NobodyInside, Inside, Notifying
  <2>11. \A c \in Thread : CastAccounts(c) => CastAccounts(c)'
    <3> SUFFICES ASSUME NEW c \in Thread, CastAccounts(c) PROVE CastAccounts(c)'
      OBVIOUS
    <3>1. pc'[c] = pc[c]
      BY <2>9 DEF CastAccounts, Inside, Notifying
    <3>2. \A u \in Thread : pc'[u] \in Notifying => pc[u] \in Notifying
      BY <2>9
    <3> QED
      BY <2>1, <2>7, <2>8, <3>1, <3>2 DEF CastAccounts
  <2> QED
    BY <1>1, <2>1, <2>4, <2>5, <2>10, <2>11 DEF AInv
<1>4. ASSUME NEW t \in Thread,
             \/ Acquire(t) \/ Register(t) \/ Release(t) \/ Pass(t) \/ Shake(t)
             \/ Reacquire(t) \/ Leave(t)
             \/ SignalLock(t) \/ SignalPost(t) \/ SignalShake(t) \/ SignalUnlock(t)
      PROVE  AInv'
  <2>1. PICK next : /\ pc' = [pc EXCEPT ![t] = next] /\ next \notin Casting
                    /\ script' = script /\ calls' = calls /\ i' = i
    BY <1>4 DEF Acquire, Register, Release, Pass, Shake, Reacquire, Leave, data,
                SignalLock, SignalPost, SignalShake, SignalUnlock, Unlock, At, Casting
  <2>2. CastersCalled'
    BY <1>1, <2>1 DEF CastersCalled, Typed
  <2>3. NobodyInside => NobodyInside'
    BY <1>1, <2>1 DEF NobodyInside, Inside, Casting, Typed
  <2>4. BroadcastEnded => BroadcastEnded'
    BY <1>1, <2>1, StaysEnded
  <2>5. Accounts /\ Owed => Accounts' /\ Owed'
    BY <1>1, <1>4, AccountsStep, OwedStep
  <2>6. \A c \in Thread : CastAccounts(c) => CastAccounts(c)'
    BY <1>1, <1>4, CastAccountsStep
  <2> QED
    BY <1>1, <2>1, <2>2, <2>3, <2>4, <2>5, <2>6 DEF AInv
<1>5. ASSUME NEW t \in Thread, CastLock(t) PROVE AInv'
  <2>1. /\ pc' = [pc EXCEPT ![t] = "castPost"] /\ pc[t] = "castLock"
        /\ script' = script /\ calls' = calls /\ i' = [i EXCEPT ![t] = waiters]
        /\ sem["lock"] > 0
    BY <1>5 DEF CastLock, At, P
  <2>2. CastersCalled'
    BY <1>1, <2>1 DEF CastersCalled, Typed, Casting
  <2>3. BroadcastEnded => BroadcastEnded'
    BY <1>1, <2>1, StaysEnded DEF Casting
  <2>4. ASSUME i \in [Thread -> Int], Accounts
        PROVE  CastAccounts(t)' /\ i' \in [Thread -> Int]
    BY <1>1, <1>5, <2>1, <2>4, CastBegins DEF Accounts
  <2>5. \A c \in Thread : ~CastAccounts(c)
    BY <2>1 DEF CastAccounts
  <2> QED
    BY <1>1, <2>2, <2>3, <2>4, <2>5 DEF AInv
<1>6. ASSUME NEW t \in Thread, CastPost(t) \/ CastShake(t) PROVE AInv'
  <2>1. PICK next : /\ pc' = [pc EXCEPT ![t] = next] /\ next \in Casting
                    /\ pc[t] \in Casting /\ pc[t] \in Inside
                    /\ script' = script /\ calls' = calls
    BY <1>6 DEF CastPost, CastShake, At, Casting, Inside
  <2>2. CastersCalled'
    BY <1>1, <2>1 DEF CastersCalled, Typed
  <2>3. BroadcastEnded => BroadcastEnded'
    BY <1>1, <2>1, StaysEnded
  <2>4. ~NobodyInside
    BY <2>1 DEF NobodyInside
  <2>5. ASSUME i \in [Thread -> Int], NEW c \in Thread, CastAccounts(c)
        PROVE  CastAccounts(c)' /\ i' \in [Thread -> Int]
    <3>1. c = t /\ waiters \in Nat
      BY <2>1, <2>5 DEF CastAccounts, Inside, Notifying
    <3>2. i' \in [Thread -> Int]
      BY <1>6, <2>5, <3>1 DEF CastPost, CastShake, CountDown
    <3> QED
      BY <1>1, <1>6, <2>5, <3>1, <3>2, CastHelpers
  <2> QED
    BY <1>1, <2>2, <2>3, <2>4, <2>5 DEF AInv
<1>7. ASSUME NEW t \in Thread, CastUnlock(t) PROVE AInv'
  <2>1. /\ pc' = [pc EXCEPT ![t] = "idle"] /\ pc[t] = "castUnlock"
        /\ script' = script /\ calls' = calls /\ i' = i
    BY <1>7 DEF CastUnlock, Unlock, At
  <2>2. CastersCalled'
    BY <1>1, <2>1 DEF CastersCalled, Typed, Casting
  <2>3. /\ calls[t] >= 1 /\ script[t][calls[t]] = "broadcast"
        /\ calls[t] \in Nat /\ pc'[t] = "idle"
    BY <1>1, <2>1 DEF CastersCalled, Casting, Typed
  <2>4. BroadcastEnded'
    <3>1. calls'[t] \in 1..calls'[t] /\ script'[t][calls'[t]] = "broadcast"
      BY <2>1, <2>3
    <3> QED
      BY <2>3, <3>1 DEF BroadcastEnded, Casting
  <2> QED
    BY <1>1, <2>1, <2>2, <2>4 DEF AInv
<1> QED
    BY <1>2, <1>3, <1>4, <1>5, <1>6, <1>7 DEF Next, Step

\* At the start nobody waits and no permit is out.
LEMMA InitAInv == Init => AInv
<1> SUFFICES ASSUME Init PROVE AInv
    OBVIOUS
<1>1. Typed
    BY ScriptAssumption DEF Init, Typed, Semaphore, PC
<1>2. ASSUME NEW A, "idle" \notin A PROVE Count(pc, A) = 0
  <2>1. {t \in Thread : pc[t] \in A} = {}
    BY <1>2 DEF Init
  <2> QED
    BY <2>1, FS_EmptySet DEF Count
<1>3. /\ Count(pc, Notifying) = 0 /\ Count(pc, Registered) = 0 /\ Count(pc, Posting) = 0
      /\ Count(pc, Shaking) = 0 /\ Count(pc, Awaiting) = 0
    BY <1>2, Points
<1>4. sem["lock"] = 1 /\ sem["counting"] = 0 /\ sem["handshake"] = 0 /\ waiters = 0 /\ due = {}
    BY DEF Init, Semaphore
<1>5. due \cap Waiting = {}
    BY <1>4
<1>6. Accounts /\ Owed
    BY <1>3, <1>4, <1>5, FS_EmptySet DEF Accounts, Owed
<1> QED
    BY <1>1, <1>6 DEF AInv, CastersCalled, Casting, NobodyInside, Inside, Init

\* When no signal is under way waiters counts the threads that wait, so that
\* blodwen-cv-signal neither loses a wakeup nor waits for a handshake that
\* nobody will give; it is so as long as no thread has called broadcast.
THEOREM NobodyMiscounted == Spec => []WaitersCounted
<1>1. AInv => WaitersCounted
  <2> SUFFICES ASSUME AInv, sem["lock"] = 1, ~BroadcastCalled
               PROVE  waiters = Cardinality(Waiting)
      BY DEF WaitersCounted
  <2>1. Accounts
    <3>1. ~BroadcastEnded
      BY DEF BroadcastEnded, BroadcastCalled
    <3>2. ASSUME NEW c \in Thread, CastAccounts(c) PROVE FALSE
      <4>1. sem["lock"] = 0
        BY <3>2 DEF CastAccounts
      <4> QED
        BY <4>1
    <3> QED
      BY <3>1, <3>2 DEF AInv
  <2>2. Count(pc, Notifying) = 0
    <3>1. Count(pc, Notifying) \in Nat
      BY CountMonotone, Zenon
    <3> QED
      BY <2>1, <3>1 DEF Accounts
  <2>3. Count(pc, Registered) = waiters
    <3>1. Count(pc, Posting) = 0 /\ Count(pc, Awaiting) = 0 /\ Count(pc, Shaking) \in Nat
      BY <2>2, Quiet
    <3> QED
      BY <2>1, <3>1 DEF Accounts
  <2> QED
    BY <2>3 DEF Count, Waiting, Registered
<1> QED
    BY <1>1, InitAInv, NextAInv, PTL DEF Spec

\* Until the end of the first broadcast a permit is only out for a thread that
\* waited when its signal or the broadcast began, so that a thread that calls
\* cv-wait later cannot take it: what the handshake is for.
THEOREM SignalsNotStolen == Spec => [](~BroadcastEnded => NoStolenWakeup)
<1>1. AInv => (~BroadcastEnded => NoStolenWakeup)
  <2> SUFFICES ASSUME AInv, ~BroadcastEnded PROVE NoStolenWakeup
      OBVIOUS
  <2>1. Cardinality(due \cap Waiting) \in Nat /\ Count(pc, Posting) \in Nat
    <3>1. IsFiniteSet(due \cap Waiting)
      BY ScriptAssumption, FS_Subset DEF Waiting
    <3> QED
      BY <3>1, FS_CardinalityType, CountMonotone
  <2>2. CASE Accounts /\ Owed
    BY <2>1, <2>2 DEF Owed, Accounts, NoStolenWakeup
  <2>3. ASSUME NEW c \in Thread, CastAccounts(c) PROVE NoStolenWakeup
    <3>1. due \cap Waiting = Waiting
      BY <2>3 DEF CastAccounts
    <3>2. Cardinality(due \cap Waiting) = Count(pc, Registered)
      BY <3>1 DEF Count, Waiting, Registered
    <3> QED
      BY <2>1, <2>3, <3>2 DEF CastAccounts, Inside, NoStolenWakeup
  <2> QED
    BY <2>2, <2>3 DEF AInv
<1> QED
    BY <1>1, InitAInv, NextAInv, PTL DEF Spec

\* The first broadcast to end has woken every thread that it found waiting,
\* and leaves neither a permit nor a handshake behind, for any threads and
\* whatever signals came before it.
THEOREM NobodyLeftWaiting == Spec => [](~BroadcastEnded => BroadcastWakesAll)
<1>1. AInv => (~BroadcastEnded => BroadcastWakesAll)
  <2> SUFFICES ASSUME AInv, ~BroadcastEnded, NEW t \in Thread, pc[t] = "castUnlock"
               PROVE  /\ due \cap Waiting = {}
                      /\ sem["counting"] = 0 /\ sem["handshake"] = 0
      BY DEF BroadcastWakesAll
  <2>1. PICK c \in Thread : CastAccounts(c)
    BY DEF AInv, NobodyInside, Inside
  <2>2. c = t
    BY <2>1 DEF CastAccounts, Notifying
  <2>3. Count(pc, Shaking) \in Nat
    BY CountMonotone
  <2>4. sem["counting"] = 0 /\ sem["handshake"] = 0 /\ Count(pc, Registered) = 0
    BY <2>1, <2>2, <2>3 DEF CastAccounts
  <2>5. Waiting = {}
    <3>1. IsFiniteSet(Waiting) /\ Cardinality(Waiting) = 0
      BY <2>4, ScriptAssumption, FS_Subset DEF Waiting, Count, Registered
    <3> QED
      BY <3>1, FS_EmptySet
  <2> QED
    BY <2>4, <2>5
<1> QED
    BY <1>1, InitAInv, NextAInv, PTL DEF Spec
=============================================================================
