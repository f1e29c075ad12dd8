---------------------------- MODULE ThreadsProofs ----------------------------
(***************************************************************************)
(* What ChezSemaphore, ChezFuture, Barrier and Signals guarantee, each by  *)
(* itself: for any threads, scripts and counters, for any futures, for any *)
(* finite number of threads at a barrier of either run time, and for any   *)
(* signals and handlers.                                                   *)
(***************************************************************************)
EXTENDS ChezSemaphore, ChezFuture, Barrier, Signals, FiniteSetTheorems,
        WellFoundedInduction, TLAPS

(* Every variable keeps its type. *)
THEOREM TypeCorrect == Spec => []TypeOK
<1>1. Init => TypeOK
  BY InitialAssumption DEF Init, TypeOK, PC
<1>2. TypeOK /\ [Next]_vars => TypeOK'
  <2> SUFFICES ASSUME TypeOK, [Next]_vars PROVE TypeOK'
    OBVIOUS
  <2> USE DEF TypeOK, PC
  <2>1. ASSUME NEW t \in Thread, NEW op \in Operation, Call(t, op) PROVE TypeOK'
    BY <2>1 DEF Call, Operation
  <2>2. ASSUME NEW t \in Thread, Post(t) PROVE TypeOK'
    BY <2>2 DEF Post, Asleep
  <2>3. ASSUME NEW t \in Thread, Wait(t) PROVE TypeOK'
    BY <2>3 DEF Wait, Take
  <2>4. ASSUME NEW t \in Thread, Woke(t) PROVE TypeOK'
    BY <2>4 DEF Woke, Take
  <2>5. ASSUME NEW t \in Thread, WakeSpuriously(t) PROVE TypeOK'
    BY <2>5 DEF WakeSpuriously
  <2>6. CASE UNCHANGED vars
    BY <2>6 DEF vars
  <2> QED
    BY <2>1, <2>2, <2>3, <2>4, <2>5, <2>6 DEF Next, Step
<1> QED
  BY <1>1, <1>2, PTL DEF Spec

-----------------------------------------------------------------------------
(***************************************************************************)
(* No post is lost on a sleeper.                                           *)
(***************************************************************************)

(* The sets of threads are finite, so that a thread more or less in Woken is *)
(* one more or less in its cardinality.                                      *)
LEMMA WokenCount ==
    /\ Cardinality(Woken) \in Nat
    /\ \A t \in Thread :
         /\ Woken' = Woken \cup {t} /\ t \notin Woken
              => Cardinality(Woken') = Cardinality(Woken) + 1
         /\ Woken' = Woken \ {t} /\ t \in Woken
              => Cardinality(Woken') = Cardinality(Woken) - 1
<1>1. IsFiniteSet(Woken)
  BY ThreadAssumption, FS_Subset DEF Woken
<1> QED
  BY <1>1, FS_CardinalityType, FS_AddElement, FS_RemoveElement

(* A unit of the counter that nobody awake is to take finds no sleeper: what  *)
(* a post adds while a thread sleeps is matched by the thread it wakes.       *)
THEOREM PostsReachSleepers == Spec => []NoLostPost
<1>1. Init => NoLostPost
  BY DEF Init, NoLostPost, Asleep
<1>2. TypeOK /\ TypeOK' /\ NoLostPost /\ [Next]_vars => NoLostPost'
  <2> SUFFICES ASSUME TypeOK, TypeOK', NoLostPost, [Next]_vars, Asleep' # {}
               PROVE  box' <= Cardinality(Woken')
    BY DEF NoLostPost
  <2>0. box \in Int /\ box' \in Int /\ Cardinality(Woken) \in Nat /\ pc \in [Thread -> PC]
    BY WokenCount DEF TypeOK
  <2>1. ASSUME NEW t \in Thread, NEW op \in Operation, Call(t, op)
        PROVE  box' <= Cardinality(Woken')
    <3>1. Asleep' = Asleep /\ Woken' = Woken /\ box' = box
      BY <2>0, <2>1 DEF Call, Asleep, Woken, Operation
    <3> QED
      BY <3>1 DEF NoLostPost
  <2>2. ASSUME NEW t \in Thread, Post(t) PROVE box' <= Cardinality(Woken')
    <3>1. CASE Asleep = {}
      BY <2>0, <2>2, <3>1 DEF Post, Asleep
    <3>2. ASSUME NEW s \in Asleep, pc' = [pc EXCEPT ![t] = "idle", ![s] = "woken"]
          PROVE  box' <= Cardinality(Woken')
      <4>1. s # t /\ s \in Thread /\ s \notin Woken /\ t \notin Woken
        BY <2>2, <3>2 DEF Post, Asleep, Woken
      <4>2. Woken' = Woken \cup {s}
        BY <2>0, <3>2, <4>1 DEF Woken
      <4>3. Cardinality(Woken') = Cardinality(Woken) + 1
        BY <4>1, <4>2, WokenCount
      <4>4. box <= Cardinality(Woken) /\ box' = box + 1
        BY <2>2, <3>2 DEF Post, NoLostPost
      <4> QED
        BY <2>0, <4>3, <4>4
    <3> QED
      BY <2>2, <3>1, <3>2 DEF Post
  <2>3. ASSUME NEW t \in Thread, Wait(t) PROVE box' <= Cardinality(Woken')
    <3>1. Woken' = Woken
      BY <2>0, <2>3 DEF Wait, Take, Woken
    <3>2. CASE box = 0
      BY <2>0, <2>3, <3>1, <3>2 DEF Wait
    <3>3. CASE box # 0
      <4>1. box' = box - 1 /\ Asleep' = Asleep
        BY <2>0, <2>3, <3>3 DEF Wait, Take, Asleep
      <4> QED
        BY <2>0, <3>1, <4>1 DEF NoLostPost
    <3> QED
      BY <3>2, <3>3
  <2>4. ASSUME NEW t \in Thread, Woke(t) PROVE box' <= Cardinality(Woken')
    <3>1. Woken' = Woken \ {t} /\ t \in Woken /\ Asleep' = Asleep /\ box' = box - 1
      BY <2>0, <2>4 DEF Woke, Take, Woken, Asleep
    <3>2. Cardinality(Woken') = Cardinality(Woken) - 1
      BY <3>1, WokenCount
    <3> QED
      BY <2>0, <3>1, <3>2 DEF NoLostPost
  <2>5. ASSUME NEW t \in Thread, WakeSpuriously(t) PROVE box' <= Cardinality(Woken')
    <3>1. Woken' = Woken \cup {t} /\ t \notin Woken /\ t \in Asleep /\ box' = box
      BY <2>0, <2>5 DEF WakeSpuriously, Woken, Asleep
    <3>2. Cardinality(Woken') = Cardinality(Woken) + 1
      BY <3>1, WokenCount
    <3> QED
      BY <2>0, <3>1, <3>2 DEF NoLostPost
  <2>6. CASE UNCHANGED vars
    BY <2>6 DEF vars, NoLostPost, Asleep, Woken
  <2> QED
    BY <2>1, <2>2, <2>3, <2>4, <2>5, <2>6 DEF Next, Step
<1> QED
  BY <1>1, <1>2, TypeCorrect, PTL DEF Spec

-----------------------------------------------------------------------------
(***************************************************************************)
(* With one waiting thread and a condition-wait that only returns when it  *)
(* is signalled, each wait has a post of its own.  The invariant says why: *)
(* nobody can take the unit that woke the waiter.                          *)
(***************************************************************************)
OneWaits == \A t, u \in Thread : "wait" \in Does[t] /\ "wait" \in Does[u] => t = u

InWait(t) == pc[t] \in {"wait", "asleep", "woken"}

Conserved == box = Initial + posts - waits

IInv ==
    /\ TypeOK
    /\ Conserved
    /\ \A t \in Thread : InWait(t) => "wait" \in Does[t]
    /\ box >= 0
    /\ \A t \in Thread : pc[t] = "woken" => box >= 1

(* The hazard of the missing second test cannot bite a semaphore on which one *)
(* thread waits, such as that of a thread handle.                             *)
THEOREM OneWaiterBacked ==
    ASSUME OneWaits, ~Spurious
    PROVE  Spec => []Backed
<1>1. Init => IInv
  BY InitialAssumption DEF Init, IInv, TypeOK, PC, Conserved, InWait
<1>2. IInv /\ TypeOK' /\ [Next]_vars => IInv'
  <2> SUFFICES ASSUME IInv, TypeOK', [Next]_vars PROVE IInv'
    OBVIOUS
  <2>0. TypeOK /\ pc \in [Thread -> PC] /\ box \in Int /\ Initial \in Nat
        /\ posts \in Nat /\ waits \in Nat
    BY InitialAssumption DEF IInv, TypeOK
  <2> USE DEF IInv, Conserved, InWait
  <2>1. ASSUME NEW t \in Thread, NEW op \in Operation, Call(t, op) PROVE IInv'
    BY <2>0, <2>1 DEF Call, Operation
  <2>2. ASSUME NEW t \in Thread, Post(t) PROVE IInv'
    BY <2>0, <2>2 DEF Post, Asleep
  <2>3. ASSUME NEW t \in Thread, Wait(t) PROVE IInv'
    <3>1. \A u \in Thread : pc[u] # "woken"
      BY <2>0, <2>3 DEF Wait, OneWaits
    <3>2. CASE box = 0
      BY <2>0, <2>3, <3>1, <3>2 DEF Wait
    <3>3. CASE box # 0
      BY <2>0, <2>3, <3>1, <3>3 DEF Wait, Take
    <3> QED
      BY <3>2, <3>3
  <2>4. ASSUME NEW t \in Thread, Woke(t) PROVE IInv'
    <3>1. \A u \in Thread : u # t => pc[u] # "woken"
      BY <2>0, <2>4 DEF Woke, OneWaits
    <3> QED
      BY <2>0, <2>4, <3>1 DEF Woke, Take
  <2>5. CASE UNCHANGED vars
    BY <2>0, <2>5 DEF vars
  <2> QED
    BY <2>1, <2>2, <2>3, <2>4, <2>5 DEF Next, Step, WakeSpuriously
<1>3. IInv => Backed
  BY InitialAssumption DEF IInv, TypeOK, Conserved, Backed
<1> QED
  BY <1>1, <1>2, <1>3, TypeCorrect, PTL DEF Spec

-----------------------------------------------------------------------------
(***************************************************************************)
(* Futures.  await reads the result after condition-wait without testing   *)
(* ready again.  It finds the result all the same, as long as no thread is *)
(* woken without a signal, for any futures that await each other in any    *)
(* way, and any of them raising.                                           *)
(***************************************************************************)
Awaits == {"await", "asleep", "woken"}

FutureTyped ==
    /\ result \in [Future -> Future \cup {NoResult}]
    /\ ready \in [Future -> BOOLEAN]
    /\ at \in [Future -> {"work", "published", "raised"} \cup Awaits]
    /\ DOMAIN on = Future /\ DOMAIN got = Future
    /\ \A f \in Future : at[f] \in Awaits => on[f] \in Future

\* What a ready future holds, and what a woken thread is promised.
Promise ==
    /\ \A f \in Future : ready[f] => result[f] = f
    /\ ~spurious => \A f \in Future : at[f] = "woken" => ready[on[f]]

\* The inductive invariant
FutureInv == FutureTyped /\ Promise /\ AwaitReturnsResult

\* A thread that returns from its await with the future ready.
LEMMA ReturnsReady ==
    ASSUME FutureInv, NEW f \in Future, at[f] \in Awaits, Returned(f),
           UNCHANGED <<spurious, ready, result>>,
           ~spurious => ready[on[f]]
    PROVE  FutureInv'
<1>1. FutureTyped'
    BY DEF FutureInv, FutureTyped, Returned, Awaits
<1>2. Promise'
    BY DEF FutureInv, FutureTyped, Promise, Returned, Awaits
<1>3. ~spurious => result[on[f]] = on[f]
    BY DEF FutureInv, FutureTyped, Promise
<1>4. got' = [got EXCEPT ![f] = @ \cup {<<on[f], result[on[f]]>>}]
    BY DEF Returned
<1>5. AwaitReturnsResult'
    BY <1>3, <1>4 DEF FutureInv, FutureTyped, AwaitReturnsResult
<1> QED
    BY <1>1, <1>2, <1>5 DEF FutureInv

\* Every step of a future keeps its result, and the promise to who was woken.
LEMMA NextFutureInv == FutureInv /\ [FutureNext]_futureVars => FutureInv'
<1> SUFFICES ASSUME FutureInv, [FutureNext]_futureVars PROVE FutureInv'
    OBVIOUS
<1>1. ASSUME NEW f \in Future, CallAwait(f) PROVE FutureInv'
  <2>1. FutureTyped'
    BY <1>1, FutureAssumption DEF FutureInv, FutureTyped, CallAwait, Awaits
  <2>2. Promise' /\ AwaitReturnsResult'
    BY <1>1 DEF FutureInv, FutureTyped, Promise, AwaitReturnsResult, CallAwait
  <2> QED
    BY <2>1, <2>2 DEF FutureInv
<1>2. ASSUME NEW f \in Future, Await(f) PROVE FutureInv'
  <2>1. CASE ready[on[f]]
    BY <1>2, <2>1, ReturnsReady DEF Await, Awaits
  <2>2. CASE ~ready[on[f]]
    BY <1>2, <2>2 DEF FutureInv, FutureTyped, Promise, AwaitReturnsResult, Await, Awaits
  <2> QED
    BY <2>1, <2>2
<1>3. ASSUME NEW f \in Future, AwaitWoke(f) PROVE FutureInv'
    BY <1>3, ReturnsReady DEF AwaitWoke, Awaits, FutureInv, Promise
<1>4. ASSUME NEW f \in Future, AwaitWakesSpuriously(f) PROVE FutureInv'
    BY <1>4 DEF FutureInv, FutureTyped, Promise, AwaitReturnsResult, AwaitWakesSpuriously, Awaits
<1>5. ASSUME NEW f \in Future, Raise(f) PROVE FutureInv'
    BY <1>5 DEF FutureInv, FutureTyped, Promise, AwaitReturnsResult, Raise, WorkDone, Awaits
<1>6. ASSUME NEW f \in Future, Publish(f) PROVE FutureInv'
  <2>1. at' \in [Future -> {"work", "published", "raised"} \cup Awaits]
    BY <1>6 DEF FutureInv, FutureTyped, Publish, Awaits
  <2>2. \A g \in Future : at'[g] = "woken" => at[g] = "woken" \/ g \in AsleepOn(f)
    BY <1>6 DEF Publish
  <2>3. \A g \in Future : at'[g] \in Awaits => at[g] \in Awaits
    BY <1>6 DEF Publish, AsleepOn, Awaits
  <2>4. FutureTyped'
    BY <1>6, <2>1, <2>3 DEF FutureInv, FutureTyped, Publish
  <2>5. Promise'
    BY <1>6, <2>2 DEF FutureInv, FutureTyped, Promise, Publish, AsleepOn
  <2>6. AwaitReturnsResult'
    BY <1>6 DEF FutureInv, AwaitReturnsResult, Publish
  <2> QED
    BY <2>4, <2>5, <2>6 DEF FutureInv
<1>7. CASE UNCHANGED futureVars
    BY <1>7 DEF FutureInv, FutureTyped, Promise, AwaitReturnsResult, futureVars
<1> QED
    BY <1>1, <1>2, <1>3, <1>4, <1>5, <1>6, <1>7 DEF FutureNext, FutureStep

\* await returns what the work returned, never the initial #f.
THEOREM ResultsAreRight == FutureSpec => []AwaitReturnsResult
<1>1. FutureInit => FutureInv
    BY DEF FutureInit, FutureInv, FutureTyped, Promise, AwaitReturnsResult, Awaits
<1>2. FutureInv => AwaitReturnsResult
    BY DEF FutureInv
<1> QED
    BY <1>1, <1>2, NextFutureInv, PTL DEF FutureSpec
-----------------------------------------------------------------------------
(***************************************************************************)
(* Both barriers are a rendezvous the first time, whether or not some      *)
(* threads come again early; and the Chez barrier lets nobody through      *)
(* early when it is used again.                                            *)
(***************************************************************************)

Before == {"idle", "arrive", "acquire", "count"}
Held == {"asleep", "turnstile"}
Through == {"woken", "open", "leave"}

BarrierTyped ==
    /\ count \in Nat
    /\ place \in [Party -> Before \cup Held \cup Through]
    /\ arrived \in [Party -> Nat]
    /\ passed \in [Party -> Nat]

Present == {t \in Party : arrived[t] > 0}

\* Before the last thread has come: nobody is through, and the counter is the
\* number of threads that are held.
Gathering ==
    /\ \A t \in Party : passed[t] = 0 /\ place[t] \notin Through
    /\ \A t \in Party : place[t] \in Before <=> arrived[t] = 0
    /\ semaphore = 0
    /\ count = Cardinality(Present)

Gathered == \A t \in Party : arrived[t] > 0

\* The inductive invariant
MeetingInv == BarrierTyped /\ (Gathering \/ Gathered)

\* Any step keeps the types, and nobody goes back to not having come.
LEMMA BarrierTypedNext == BarrierTyped /\ [BarrierNext]_barrierVars => BarrierTyped' /\ (Gathered => Gathered')
<1> SUFFICES ASSUME BarrierTyped, [BarrierNext]_barrierVars PROVE BarrierTyped' /\ (Gathered => Gathered')
    OBVIOUS
<1> USE DEF BarrierTyped, Gathered, Before, Held, Through, At, Goto
<1>1. ASSUME NEW t \in Party, Come(t) PROVE BarrierTyped' /\ (Gathered => Gathered')
    BY <1>1 DEF Come
<1>2. ASSUME NEW t \in Party, ChezArrive(t) PROVE BarrierTyped' /\ (Gathered => Gathered')
    BY <1>2 DEF ChezArrive, Counted, WakeAll, Passes, Sleepers
<1>3. ASSUME NEW t \in Party, RacketCount(t) PROVE BarrierTyped' /\ (Gathered => Gathered')
    BY <1>3 DEF RacketCount, Counted
<1>4. ASSUME NEW t \in Party, ChezWoke(t) \/ RacketLeave(t) PROVE BarrierTyped' /\ (Gathered => Gathered')
    BY <1>4 DEF ChezWoke, RacketLeave, Passes
<1>5. ASSUME NEW t \in Party, RacketAcquire(t) \/ RacketOpen(t) \/ RacketEnter(t)
      PROVE  BarrierTyped' /\ (Gathered => Gathered')
    BY <1>5 DEF RacketAcquire, RacketOpen, RacketEnter
<1>6. CASE UNCHANGED barrierVars
    BY <1>6 DEF barrierVars
<1> QED
    BY <1>1, <1>2, <1>3, <1>4, <1>5, <1>6 DEF BarrierNext, BarrierStep

\* A thread that comes for the first time is one more.
LEMMA OneMore ==
    ASSUME BarrierTyped, Gathering, NEW t \in Party, place[t] \in Before, Counted(t)
    PROVE  /\ count' = Cardinality(Present')
           /\ count' = NumThreads => Gathered'
<1>1. Present' = Present \cup {t} /\ t \notin Present
    BY DEF BarrierTyped, Gathering, Counted, Present
<1>2. IsFiniteSet(Present)
    BY PartyAssumption, FS_Subset DEF Present
<1>3. count' = Cardinality(Present')
    BY <1>1, <1>2, FS_AddElement DEF Gathering, Counted
<1>4. Present' \subseteq Party
    BY DEF Present
<1>5. Cardinality(Present') = Cardinality(Party) => Present' = Party
    BY <1>4, PartyAssumption, FS_Subset
<1> QED
    BY <1>3, <1>5 DEF NumThreads, Gathered, Present

\* It waits for the others if it is not the last.
LEMMA StaysHeld ==
    ASSUME BarrierTyped, Gathering, NEW t \in Party, place[t] \in Before, Counted(t),
           NEW there \in Held, Goto(t, there), UNCHANGED <<semaphore, passed>>
    PROVE  Gathering'
<1>1. \A u \in Party : passed'[u] = 0 /\ place'[u] \notin Through
    BY DEF BarrierTyped, Gathering, Goto, Held, Through
<1>2. \A u \in Party : place'[u] \in Before <=> arrived'[u] = 0
    BY DEF BarrierTyped, Gathering, Goto, Counted, Held, Before
<1> QED
    BY <1>1, <1>2, OneMore DEF Gathering

\* Every step at a barrier keeps the first meeting in order.
LEMMA NextMeetingInv == MeetingInv /\ [BarrierNext]_barrierVars => MeetingInv'
<1> SUFFICES ASSUME BarrierTyped, Gathering, BarrierTyped', [BarrierNext]_barrierVars PROVE Gathering' \/ Gathered'
    BY BarrierTypedNext DEF MeetingInv
<1> USE DEF BarrierTyped, Gathering, Before, Held, Through, At, Goto
<1>1. ASSUME NEW t \in Party, Come(t) PROVE Gathering'
    BY <1>1 DEF Come, Present
<1>2. ASSUME NEW t \in Party, ChezArrive(t) PROVE Gathering' \/ Gathered'
  <2>1. CASE count' = NumThreads
    BY <1>2, <2>1, OneMore DEF ChezArrive
  <2>2. CASE count' # NumThreads
    BY <1>2, <2>2, StaysHeld DEF ChezArrive
  <2> QED
    BY <2>1, <2>2
<1>3. ASSUME NEW t \in Party, RacketCount(t) PROVE Gathering' \/ Gathered'
  <2>1. CASE count' = NumThreads
    BY <1>3, <2>1, OneMore DEF RacketCount
  <2>2. count' = count + 1
    BY <1>3 DEF RacketCount, Counted
  <2>3. CASE count' # NumThreads
    BY <1>3, <2>2, <2>3, StaysHeld DEF RacketCount
  <2> QED
    BY <2>1, <2>3
<1>4. ASSUME NEW t \in Party, ChezWoke(t) \/ RacketLeave(t) \/ RacketOpen(t) \/ RacketEnter(t)
      PROVE  FALSE
    BY <1>4 DEF ChezWoke, RacketLeave, RacketOpen, RacketEnter
<1>5. ASSUME NEW t \in Party, RacketAcquire(t) PROVE Gathering'
    BY <1>5 DEF RacketAcquire, Present
<1>6. CASE UNCHANGED barrierVars
    BY <1>6 DEF barrierVars, Present
<1> QED
    BY <1>1, <1>2, <1>3, <1>4, <1>5, <1>6 DEF BarrierNext, BarrierStep

\* No thread leaves a barrier before every thread has come to it.
THEOREM FirstMeeting == BarrierSpec => []Rendezvous
<1>1. BarrierInit => MeetingInv
  <2> SUFFICES ASSUME BarrierInit PROVE BarrierTyped /\ Gathering
    BY DEF MeetingInv
  <2>1. Present = {}
    BY DEF BarrierInit, Present
  <2> QED
    BY <2>1, FS_EmptySet DEF BarrierInit, BarrierTyped, Gathering, Before, Held, Through
<1>2. MeetingInv => Rendezvous
    BY DEF MeetingInv, BarrierTyped, Gathering, Gathered, Rendezvous
<1> QED
    BY <1>1, <1>2, NextMeetingInv, PTL DEF BarrierSpec

-----------------------------------------------------------------------------
\* The Chez barrier after its first use: the counter is past the number of
\* threads, so that the next to come sleep.
ChezPlace == {"idle", "arrive", "asleep", "woken"}

PassedOnce ==
    /\ \A t \in Party : place[t] \in ChezPlace /\ passed[t] <= 1 /\ (place[t] = "woken" => passed[t] = 0)
    /\ Gathering \/ count >= NumThreads

ChezBarrierInv == MeetingInv /\ (runTime = "chez" => PassedOnce)

\* On Chez every step keeps the counter ahead of the threads that are through.
LEMMA NextChezBarrierInv == ChezBarrierInv /\ [BarrierNext]_barrierVars => ChezBarrierInv'
<1> SUFFICES ASSUME MeetingInv, PassedOnce, runTime = "chez", [BarrierNext]_barrierVars PROVE PassedOnce'
  <2>1. [BarrierNext]_barrierVars => runTime' = runTime
    BY DEF BarrierNext, BarrierStep, Come, ChezArrive, ChezWoke, RacketAcquire, RacketCount, RacketOpen,
           RacketEnter, RacketLeave, barrierVars
  <2> QED
    BY <2>1, NextMeetingInv DEF ChezBarrierInv
<1>0. BarrierTyped /\ (Gathering \/ Gathered)
    BY DEF MeetingInv
<1>1. NumThreads \in Nat
    BY PartyAssumption, FS_CardinalityType DEF NumThreads
<1>2. ASSUME NEW t \in Party, Come(t) PROVE PassedOnce'
  <2>1. place' = [place EXCEPT ![t] = "arrive"] /\ place[t] = "idle"
        /\ UNCHANGED <<count, semaphore, arrived, passed>>
    BY <1>2 DEF Come, At, Goto
  <2>2. Gathering => Gathering'
    BY <1>0, <2>1 DEF Gathering, BarrierTyped, Before, Through, Present
  <2> QED
    BY <1>0, <2>1, <2>2 DEF PassedOnce, ChezPlace, BarrierTyped
<1>3. ASSUME NEW t \in Party, ChezArrive(t) PROVE PassedOnce'
  <2>1. count' = count + 1 /\ place[t] = "arrive"
    BY <1>3 DEF ChezArrive, Counted
  <2>2. CASE count' = NumThreads
    <3>1. Gathering
      BY <1>0, <1>1, <2>1, <2>2 DEF PassedOnce, BarrierTyped
    <3>2. passed' = [passed EXCEPT ![t] = @ + 1] /\ WakeAll(t)
      BY <1>3, <2>2 DEF ChezArrive, Passes
    <3> QED
      BY <1>0, <1>1, <2>2, <3>1, <3>2 DEF PassedOnce, Gathering, WakeAll, ChezPlace, BarrierTyped, Sleepers
  <2>3. CASE count' # NumThreads
    <3>1. Goto(t, "asleep") /\ passed' = passed /\ semaphore' = semaphore /\ Counted(t)
      BY <1>3, <2>3 DEF ChezArrive
    <3>2. Gathering => Gathering'
      BY <1>0, <2>1, <3>1, StaysHeld DEF Before, Held
    <3>3. count >= NumThreads => count' >= NumThreads
      BY <1>0, <1>1, <2>1 DEF BarrierTyped
    <3> QED
      BY <1>0, <3>1, <3>2, <3>3 DEF PassedOnce, Goto, ChezPlace, BarrierTyped
  <2> QED
    BY <2>2, <2>3
<1>4. ASSUME NEW t \in Party, ChezWoke(t) PROVE PassedOnce'
  <2>1. ~Gathering
    BY <1>4 DEF ChezWoke, At, Gathering, Through
  <2>2. count' = count /\ passed' = [passed EXCEPT ![t] = @ + 1] /\ place[t] = "woken"
        /\ place' = [place EXCEPT ![t] = "idle"]
    BY <1>4 DEF ChezWoke, At, Goto, Passes
  <2> QED
    BY <1>0, <2>1, <2>2 DEF PassedOnce, ChezPlace, BarrierTyped
<1>5. ASSUME NEW t \in Party, RacketAcquire(t) \/ RacketCount(t) \/ RacketOpen(t) \/ RacketEnter(t)
                               \/ RacketLeave(t)
      PROVE  FALSE
    BY <1>5 DEF RacketAcquire, RacketCount, RacketOpen, RacketEnter, RacketLeave, At, PassedOnce, ChezPlace
<1>6. CASE UNCHANGED barrierVars
    BY <1>6 DEF barrierVars, PassedOnce, Gathering, Present
<1> QED
    BY <1>2, <1>3, <1>4, <1>5, <1>6 DEF BarrierNext, BarrierStep

\* The barrier of Chez is never reset, and still no thread gets through it
\* more often than every thread has come to it.
THEOREM NobodyEarly == BarrierSpec => []NeverEarly
<1>1. BarrierInit => ChezBarrierInv
  <2> SUFFICES ASSUME BarrierInit PROVE BarrierTyped /\ Gathering /\ (runTime = "chez" => PassedOnce)
    BY DEF ChezBarrierInv, MeetingInv
  <2>1. Present = {}
    BY DEF BarrierInit, Present
  <2>2. BarrierTyped /\ Gathering
    BY <2>1, FS_EmptySet DEF BarrierInit, BarrierTyped, Gathering, Before, Held, Through
  <2> QED
    BY <2>2 DEF BarrierInit, PassedOnce, ChezPlace
<1>2. ChezBarrierInv => NeverEarly
    BY DEF ChezBarrierInv, MeetingInv, PassedOnce, BarrierTyped, Gathering, Gathered, NeverEarly
<1> QED
    BY <1>1, <1>2, NextChezBarrierInv, PTL DEF BarrierSpec

-----------------------------------------------------------------------------
(***************************************************************************)
(* Collected signals are neither lost nor, with one handler, returned      *)
(* twice.                                                                  *)
(***************************************************************************)

(* A set of signal numbers that is not empty has a lowest: the scan of the    *)
(* snapshot finds a bit, and abort() after it is never reached.               *)
LEMMA LowestIn ==
    ASSUME NEW bits \in SUBSET Signum, bits # {}
    PROVE  Lowest(bits) \in bits
<1>1. bits \subseteq Nat
  BY SignumAssumption
<1>2. PICK s \in bits : \A u \in bits : ~ (<<u, s>> \in OpToRel(<, Nat))
  BY <1>1, WFMin, NatLessThanWellFounded
<1>3. \A u \in bits : s <= u
  <2>1. \A x, y \in Nat : x < y => <<x, y>> \in OpToRel(<, Nat)
    BY Zenon DEF OpToRel
  <2>2. \A u \in bits : ~ (u < s)
    BY <1>1, <1>2, <2>1, Zenon
  <2> QED
    BY <1>1, <2>2
<1> QED
  BY <1>3 DEF Lowest

(* Every variable keeps its type, and a thread that is to clear a bit has     *)
(* loaded one.                                                                *)
SignalTyped == SignalTypeOK /\ \A t \in Handler : phase[t] = "clear" => snapshot[t] # {}

\* The types of the state hold throughout.
LEMMA SignalTypedCorrect == SignalSpec => []SignalTyped
<1>1. SignalInit => SignalTyped
  BY DEF SignalInit, SignalTyped, SignalTypeOK
<1>2. SignalTyped /\ [SignalNext]_signalVars => SignalTyped'
  <2> SUFFICES ASSUME SignalTyped, [SignalNext]_signalVars PROVE SignalTyped'
    OBVIOUS
  <2> USE DEF SignalTyped, SignalTypeOK
  <2>1. ASSUME NEW s \in Signum, Deliver(s) PROVE SignalTyped'
    BY <2>1 DEF Deliver
  <2>2. ASSUME NEW s \in Signum, NEW action \in {"default", "ignore", "collect"},
               Sigaction(s, action)
        PROVE  SignalTyped'
    BY <2>2 DEF Sigaction
  <2>3. ASSUME NEW t \in Handler, Load(t) PROVE SignalTyped'
    BY <2>3 DEF Load
  <2>4. ASSUME NEW t \in Handler, Clear(t) PROVE SignalTyped'
    <3>1. Lowest(snapshot[t]) \in Signum
      BY <2>4, LowestIn DEF Clear
    <3> QED
      BY <2>4, <3>1 DEF Clear, Return
  <2>5. CASE UNCHANGED signalVars
    BY <2>5 DEF signalVars
  <2> QED
    BY <2>1, <2>2, <2>3, <2>4, <2>5 DEF SignalNext
<1> QED
  BY <1>1, <1>2, PTL DEF SignalSpec

(* Every variable keeps its type. *)
THEOREM SignalTypeCorrect == SignalSpec => []SignalTypeOK
<1>1. SignalTyped => SignalTypeOK
  BY DEF SignalTyped
<1> QED
  BY <1>1, SignalTypedCorrect, PTL

-----------------------------------------------------------------------------
(* The atomic and clears the bit of the signal that is returned and no other, *)
(* so a delivery between the load and the and is not lost: for any number of  *)
(* handlers.                                                                  *)
THEOREM NothingForgotten == SignalSpec => []NotForgotten
<1>1. SignalInit => NotForgotten
  BY DEF SignalInit, NotForgotten
<1>2. NotForgotten /\ [SignalNext]_signalVars => NotForgotten'
  <2> SUFFICES ASSUME NotForgotten, [SignalNext]_signalVars PROVE NotForgotten'
    OBVIOUS
  <2> USE DEF NotForgotten
  <2>1. ASSUME NEW s \in Signum, Deliver(s) PROVE NotForgotten'
    BY <2>1 DEF Deliver
  <2>2. ASSUME NEW s \in Signum, NEW action \in {"default", "ignore", "collect"},
               Sigaction(s, action)
        PROVE  NotForgotten'
    BY <2>2 DEF Sigaction
  <2>3. ASSUME NEW t \in Handler, Load(t) PROVE NotForgotten'
    BY <2>3 DEF Load
  <2>4. ASSUME NEW t \in Handler, Clear(t) PROVE NotForgotten'
    BY <2>4 DEF Clear, Return
  <2>5. CASE UNCHANGED signalVars
    BY <2>5 DEF signalVars
  <2> QED
    BY <2>1, <2>2, <2>3, <2>4, <2>5 DEF SignalNext
<1> QED
  BY <1>1, <1>2, PTL DEF SignalSpec

-----------------------------------------------------------------------------
(* With one handler the snapshot cannot grow stale: what it saw is still set  *)
(* when it clears a bit, so each bit is returned once for each time it was    *)
(* set.                                                                       *)
OneHandler == \A t, u \in Handler : t = u

Bit(s) == IF s \in signals THEN 1 ELSE 0

OnceInv ==
    /\ \A s \in Signum : Bit(s) <= unanswered[s]
    /\ \A t \in Handler : phase[t] = "clear" => snapshot[t] \subseteq signals

\* Where one thread handles signals no delivery is returned twice.
THEOREM OneHandlerOnce ==
    ASSUME OneHandler
    PROVE  SignalSpec => []HandledOnce
<1>1. SignalInit => OnceInv
  BY DEF SignalInit, OnceInv, Bit
<1>2. SignalTyped /\ SignalTyped' /\ OnceInv /\ [SignalNext]_signalVars => OnceInv'
  <2> SUFFICES ASSUME SignalTyped, SignalTyped', OnceInv, [SignalNext]_signalVars PROVE OnceInv'
    OBVIOUS
  <2> USE DEF OnceInv, SignalTyped, SignalTypeOK, Bit
  <2>1. ASSUME NEW s \in Signum, Deliver(s) PROVE OnceInv'
    BY <2>1, UnansweredAssumption DEF Deliver
  <2>2. ASSUME NEW s \in Signum, NEW action \in {"default", "ignore", "collect"},
               Sigaction(s, action)
        PROVE  OnceInv'
    BY <2>2 DEF Sigaction
  <2>3. ASSUME NEW t \in Handler, Load(t) PROVE OnceInv'
    BY <2>3 DEF Load
  <2>4. ASSUME NEW t \in Handler, Clear(t) PROVE OnceInv'
    <3> DEFINE s == Lowest(snapshot[t])
    <3>1. s \in signals /\ s \in Signum
      BY <2>4, LowestIn DEF Clear
    <3>2. /\ signals' = signals \ {s}
          /\ unanswered' = [unanswered EXCEPT ![s] = @ - 1]
          /\ phase' = [phase EXCEPT ![t] = "idle"]
      BY <2>4 DEF Clear, Return
    <3> HIDE DEF s
    <3>3. \A u \in Signum : (IF u \in signals' THEN 1 ELSE 0) <= unanswered'[u]
      BY <3>1, <3>2
    <3>4. \A u \in Handler : phase'[u] # "clear"
      BY <3>2 DEF OneHandler
    <3> QED
      BY <3>3, <3>4
  <2>5. CASE UNCHANGED signalVars
    BY <2>5 DEF signalVars
  <2> QED
    BY <2>1, <2>2, <2>3, <2>4, <2>5 DEF SignalNext
<1>3. SignalTyped /\ OnceInv => HandledOnce
  <2> SUFFICES ASSUME SignalTyped, OnceInv, NEW s \in Signum PROVE unanswered[s] >= 0
    BY DEF HandledOnce
  <2> QED
    BY DEF SignalTyped, SignalTypeOK, OnceInv, Bit
<1> QED
  BY <1>1, <1>2, <1>3, SignalTypedCorrect, PTL DEF SignalSpec
=============================================================================
