------------------------------ MODULE Barrier ------------------------------
(***************************************************************************)
(* The barriers of the Chez Scheme and the Racket run times: what stands   *)
(* behind barrierWait of libs/base/System/Concurrency.idr.  Chez has the   *)
(* number of arrivals, a mutex and a condition variable, and what runs     *)
(* with the mutex held is one step.  Racket has the number under a mutex,  *)
(* and a semaphore used as a turnstile, which the last thread opens and    *)
(* each thread that goes through opens for the next.  A thread does not    *)
(* return from condition-wait unless it is woken.                          *)
(***************************************************************************)
EXTENDS Integers, FiniteSets

CONSTANTS
    Party,     \* the threads that meet
    Rounds      \* bound: how many times each thread comes to the barrier

ASSUME PartyAssumption == IsFiniteSet(Party)
ASSUME RoundsAssumption == Rounds \in Nat

NumThreads == Cardinality(Party)

VARIABLES
    runTime,    \* "chez" or "racket"
    count,      \* barrier-count-box
    mutex,      \* barrier-mutex of Racket: a semaphore
    semaphore,  \* barrier-semaphore of Racket: the turnstile
    place,
    arrived,    \* arrived[t]: the times t has been counted
    passed      \* passed[t]: the times t has returned

barrierVars == <<runTime, count, mutex, semaphore, place, arrived, passed>>

Goto(t, there) == place' = [place EXCEPT ![t] = there]
At(t, here, there) == place[t] = here /\ Goto(t, there)
Passes(t) == passed' = [passed EXCEPT ![t] = @ + 1]
Sleepers == {t \in Party : place[t] = "asleep"}

BarrierInit ==
    /\ runTime \in {"chez", "racket"}
    /\ count = 0 /\ mutex = 1 /\ semaphore = 0
    /\ place = [t \in Party |-> "idle"]
    /\ arrived = [t \in Party |-> 0]
    /\ passed = [t \in Party |-> 0]

Come(t) ==
    /\ passed[t] < Rounds
    /\ At(t, "idle", IF runTime = "chez" THEN "arrive" ELSE "acquire")
    /\ UNCHANGED <<runTime, count, mutex, semaphore, arrived, passed>>

Counted(t) ==
    /\ count' = count + 1
    /\ arrived' = [arrived EXCEPT ![t] = @ + 1]

-----------------------------------------------------------------------------
\* MUTANT condition-signal instead of condition-broadcast
WakeOne(t) ==
    \/ Sleepers = {} /\ Goto(t, "idle")
    \/ \E u \in Sleepers : place' = [place EXCEPT ![t] = "idle", ![u] = "woken"]

\* condition-broadcast, and the return of the thread that called it
WakeAll(t) ==
    place' = [u \in Party |-> IF u = t THEN "idle" ELSE IF u \in Sleepers THEN "woken" ELSE place[u]]

\* MUTANT every arrival after the last wakes all
ChezArriveOpen(t) ==
    /\ place[t] = "arrive"
    /\ Counted(t)
    /\ IF count' >= NumThreads THEN WakeAll(t) /\ Passes(t)
                               ELSE Goto(t, "asleep") /\ UNCHANGED passed
    /\ UNCHANGED <<runTime, mutex, semaphore>>

ChezArrive(t) ==
    /\ place[t] = "arrive"
    /\ Counted(t)
    /\ IF count' = NumThreads THEN WakeAll(t) /\ Passes(t)
                              ELSE Goto(t, "asleep") /\ UNCHANGED passed
    /\ UNCHANGED <<runTime, mutex, semaphore>>

ChezWoke(t) ==
    /\ At(t, "woken", "idle")
    /\ Passes(t)
    /\ UNCHANGED <<runTime, count, mutex, semaphore, arrived>>

-----------------------------------------------------------------------------
RacketAcquire(t) ==
    /\ At(t, "acquire", "count")
    /\ mutex > 0 /\ mutex' = mutex - 1
    /\ UNCHANGED <<runTime, count, semaphore, arrived, passed>>

\* MUTANT the old count is compared
RacketCountOffByOne(t) ==
    /\ At(t, "count", IF count + 2 = NumThreads THEN "open" ELSE "turnstile")
    /\ Counted(t)
    /\ mutex' = mutex + 1
    /\ UNCHANGED <<runTime, semaphore, passed>>

\* The counter is raised and the mutex released; the new count decides.
RacketCount(t) ==
    /\ At(t, "count", IF count + 1 = NumThreads THEN "open" ELSE "turnstile")
    /\ Counted(t)
    /\ mutex' = mutex + 1
    /\ UNCHANGED <<runTime, semaphore, passed>>

RacketOpen(t) ==
    /\ At(t, "open", "turnstile")
    /\ semaphore' = semaphore + 1
    /\ UNCHANGED <<runTime, count, mutex, arrived, passed>>

RacketEnter(t) ==
    /\ At(t, "turnstile", "leave")
    /\ semaphore > 0 /\ semaphore' = semaphore - 1
    /\ UNCHANGED <<runTime, count, mutex, arrived, passed>>

RacketLeave(t) ==
    /\ At(t, "leave", "idle")
    /\ semaphore' = semaphore + 1
    /\ Passes(t)
    /\ UNCHANGED <<runTime, count, mutex, arrived>>

-----------------------------------------------------------------------------
BarrierStep(t) ==
    \/ Come(t)
    \/ ChezArrive(t) \/ ChezWoke(t)
    \/ RacketAcquire(t) \/ RacketCount(t) \/ RacketOpen(t) \/ RacketEnter(t) \/ RacketLeave(t)

BarrierNext == \E t \in Party : BarrierStep(t)

BarrierSpec == BarrierInit /\ [][BarrierNext]_barrierVars

\* Every thread goes on, and Racket's semaphores are fair.
FairBarrierSpec == BarrierSpec /\ \A t \in Party : SF_barrierVars(BarrierStep(t))

(***************************************************************************)
(* Properties                                                              *)
(***************************************************************************)
\* No thread leaves the barrier before every thread has come to it, even when
\* some come to it again.  (Only the first time: neither barrier is reset.)
Rendezvous == \A t, u \in Party : passed[t] > 0 => arrived[u] > 0

\* A Chez barrier that is used again lets nobody through before all have come
\* again: its counter has gone past the number of threads, and they sleep.
NeverEarly ==
    runTime = "chez" => \A t, u \in Party : passed[t] <= arrived[u]

\* Threads that all come to the barrier all leave it, the first time.
EverybodyPasses == <>(\A t \in Party : passed[t] > 0)
=============================================================================
