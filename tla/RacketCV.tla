------------------------------ MODULE RacketCV ------------------------------
(***************************************************************************)
(* The condition variable of the Racket run time (support/racket/          *)
(* support.rkt), built from three semaphores and a counter of waiters, and *)
(* the mutex it is used with, a semaphore too.  One step per semaphore     *)
(* operation; what a thread does with waiters while it has waitersLock is  *)
(* part of the step that takes the lock.                                   *)
(***************************************************************************)
EXTENDS Integers, FiniteSets, Sequences

CONSTANTS
    Thread,     \* threads that share the condition variable
    Scripts     \* bound: what the threads may do, each a sequence of calls

Operation == {"wait", "signal", "broadcast"}

ASSUME ScriptAssumption ==
    /\ IsFiniteSet(Thread)
    /\ Scripts \subseteq [Thread -> Seq(Operation)]

VARIABLES
    sem,        \* the four semaphores: "counting" permits for registered waiters,
                \* "lock" for waiters, "handshake" of waiters that have got
                \* through, and "mutex", the one given to cv-wait
    waiters,    \* cv-waiters
    pc,
    i,          \* the argument of the broadcast helpers
    script,     \* the operations that each thread calls
    calls,      \* calls[t]: how many calls t has started
    due         \* history: the threads that were waiting when the signal or
                \* broadcast in progress took the lock, and still do

Semaphore == {"counting", "lock", "handshake", "mutex"}

data == <<waiters, i, due>>
vars == <<sem, data, pc, script, calls>>

PC == {"idle",
       "acquire", "register", "release", "pass", "shake", "reacquire", "leave",
       "signalLock", "signalPost", "signalShake", "signalUnlock",
       "castLock", "castPost", "castShake", "castUnlock"}

At(t, here, next) ==
    pc[t] = here /\ pc' = [pc EXCEPT ![t] = next] /\ UNCHANGED <<script, calls>>

\* semaphore-wait and semaphore-post
P(s) == sem[s] > 0 /\ sem' = [sem EXCEPT ![s] = @ - 1]
PostTo(s) == sem' = [sem EXCEPT ![s] = @ + 1]

\* Threads that cv-wait has registered and the counting semaphore not yet let
\* through.
Waiting == {t \in Thread : pc[t] \in {"release", "pass"}}

Init ==
    /\ sem = [s \in Semaphore |-> IF s \in {"lock", "mutex"} THEN 1 ELSE 0]
    /\ waiters = 0 /\ due = {}
    /\ pc = [t \in Thread |-> "idle"]
    /\ i = [t \in Thread |-> 0]
    /\ script \in Scripts
    /\ calls = [t \in Thread |-> 0]

FirstOf == [op \in Operation |->
    CASE op = "wait" -> "acquire" [] op = "signal" -> "signalLock" [] op = "broadcast" -> "castLock"]

Call(t) ==
    /\ pc[t] = "idle" /\ calls[t] < Len(script[t])
    /\ calls' = [calls EXCEPT ![t] = @ + 1]
    /\ pc' = [pc EXCEPT ![t] = FirstOf[script[t][calls'[t]]]]
    /\ UNCHANGED <<sem, data, script>>

(***************************************************************************)
(* blodwen-mutex-acquire, blodwen-cv-wait, blodwen-mutex-release           *)
(***************************************************************************)
\* The caller of cv-wait has the mutex.
Acquire(t) == At(t, "acquire", "register") /\ P("mutex") /\ UNCHANGED data

Register(t) ==
    /\ At(t, "register", "release")
    /\ sem["lock"] > 0     \* taken and given back in this step
    /\ waiters' = waiters + 1
    /\ UNCHANGED <<sem, i, due>>

\* blodwen-mutex-release is an error when the semaphore can still be taken;
\* NeverReleasedFree says it cannot.
Release(t) == At(t, "release", "pass") /\ PostTo("mutex") /\ UNCHANGED data

Pass(t) ==
    /\ At(t, "pass", "shake")
    /\ P("counting")
    /\ due' = due \ {t}
    /\ UNCHANGED <<waiters, i>>

Shake(t) == At(t, "shake", "reacquire") /\ PostTo("handshake") /\ UNCHANGED data

\* MUTANT cv-wait returns without the mutex
ReacquireNot(t) == At(t, "reacquire", "leave") /\ UNCHANGED <<sem, data>>

Reacquire(t) == At(t, "reacquire", "leave") /\ P("mutex") /\ UNCHANGED data

Leave(t) == At(t, "leave", "idle") /\ PostTo("mutex") /\ UNCHANGED data

(***************************************************************************)
(* blodwen-cv-signal                                                       *)
(***************************************************************************)
\* MUTANT waiters is not decremented
SignalLockOnly(t) ==
    /\ At(t, "signalLock", IF waiters > 0 THEN "signalPost" ELSE "signalUnlock")
    /\ P("lock")
    /\ due' = Waiting
    /\ UNCHANGED <<waiters, i>>

SignalLock(t) ==
    /\ At(t, "signalLock", IF waiters > 0 THEN "signalPost" ELSE "signalUnlock")
    /\ P("lock")
    /\ waiters' = IF waiters > 0 THEN waiters - 1 ELSE waiters
    /\ due' = Waiting
    /\ UNCHANGED i

\* MUTANT no handshake: the lock is given back while the permit is unclaimed
SignalPostGoes(t) == At(t, "signalPost", "signalUnlock") /\ PostTo("counting") /\ UNCHANGED data

SignalPost(t) == At(t, "signalPost", "signalShake") /\ PostTo("counting") /\ UNCHANGED data

SignalShake(t) == At(t, "signalShake", "signalUnlock") /\ P("handshake") /\ UNCHANGED data

Unlock(t, here) ==
    /\ At(t, here, "idle")
    /\ PostTo("lock")
    /\ due' = {}
    /\ UNCHANGED <<waiters, i>>

SignalUnlock(t) == Unlock(t, "signalUnlock")

(***************************************************************************)
(* blodwen-cv-broadcast: the helpers count down their own argument, which  *)
(* is waiters for both.                                                    *)
(***************************************************************************)
CastLock(t) ==
    /\ At(t, "castLock", "castPost")
    /\ P("lock")
    /\ i' = [i EXCEPT ![t] = waiters]
    /\ due' = Waiting
    /\ UNCHANGED waiters

CountDown(t) == i' = [i EXCEPT ![t] = @ - 1]

CastPost(t) ==
    /\ \/ i[t] = 0 /\ At(t, "castPost", "castShake") /\ i' = [i EXCEPT ![t] = waiters] /\ UNCHANGED sem
       \/ i[t] # 0 /\ At(t, "castPost", "castPost") /\ CountDown(t) /\ PostTo("counting")
    /\ UNCHANGED <<waiters, due>>

\* MUTANT the second helper counts down to one
CastShakeOneLess(t) ==
    /\ \/ i[t] <= 1 /\ At(t, "castShake", "castUnlock") /\ UNCHANGED <<sem, i>>
       \/ i[t] > 1 /\ At(t, "castShake", "castShake") /\ CountDown(t) /\ P("handshake")
    /\ UNCHANGED <<waiters, due>>

CastShake(t) ==
    /\ \/ i[t] = 0 /\ At(t, "castShake", "castUnlock") /\ UNCHANGED <<sem, i>>
       \/ i[t] # 0 /\ At(t, "castShake", "castShake") /\ CountDown(t) /\ P("handshake")
    /\ UNCHANGED <<waiters, due>>

CastUnlock(t) == Unlock(t, "castUnlock")

Step(t) ==
    \/ Acquire(t) \/ Register(t) \/ Release(t) \/ Pass(t) \/ Shake(t)
    \/ Reacquire(t) \/ Leave(t)
    \/ SignalLock(t) \/ SignalPost(t) \/ SignalShake(t) \/ SignalUnlock(t)
    \/ CastLock(t) \/ CastPost(t) \/ CastShake(t) \/ CastUnlock(t)

Next == \E t \in Thread : Call(t) \/ Step(t)

Spec == Init /\ [][Next]_vars

\* Racket's semaphores are fair: a thread that waits for one that is posted
\* again and again gets it.
FairSpec == Spec /\ \A t \in Thread : SF_vars(Step(t))

(***************************************************************************)
(* Properties                                                              *)
(***************************************************************************)
TypeOK ==
    /\ sem \in [Semaphore -> 0..Cardinality(Thread)]
    /\ sem["lock"] <= 1 /\ sem["mutex"] <= 1
    /\ waiters \in 0..Cardinality(Thread)
    /\ pc \in [Thread -> PC]
    /\ i \in [Thread -> 0..Cardinality(Thread)]
    /\ calls \in [Thread -> Nat]
    /\ due \subseteq Thread

Notifying == {"signalPost", "signalShake", "signalUnlock",
              "castPost", "castShake", "castUnlock"}

BroadcastCalled == \E t \in Thread : \E k \in 1..calls[t] : script[t][k] = "broadcast"

\* While no signal is under way, waiters counts the threads that wait: else a
\* signal is lost, or is sent to nobody.  A broadcast does not count them out.
WaitersCounted ==
    sem["lock"] = 1 /\ ~BroadcastCalled => waiters = Cardinality(Waiting)

\* A permit is out only while its signal or broadcast holds the lock, and
\* there is a thread for each that was already waiting when it began: a thread
\* that comes later cannot steal the wakeup (the reason for the handshake).
NoStolenWakeup ==
    sem["counting"] <= Cardinality(due \cap Waiting)

\* A thread has the mutex from its acquire to its release, and one only has it;
\* so blodwen-mutex-release never finds it free.
HasMutex(t) == pc[t] \in {"register", "release", "leave"}
NeverReleasedFree ==
    /\ \A t, u \in Thread : HasMutex(t) /\ HasMutex(u) => t = u
    /\ \A t \in Thread : HasMutex(t) => sem["mutex"] = 0

\* A broadcast wakes every thread that waits when it begins, and no permit or
\* handshake is left over when it ends.
BroadcastWakesAll ==
    \A t \in Thread :
        pc[t] = "castUnlock" => due \cap Waiting = {} /\ sem["counting"] = 0 /\ sem["handshake"] = 0

\* A thread that a broadcast finds waiting returns from its wait; and signal and
\* broadcast, which wait for no condition, return too.  (The scripts have no
\* signal after a broadcast: it would block, see BroadcastCalled above.)
CallsReturn ==
    /\ \A t \in Thread :
         t \in due /\ (\E u \in Thread : pc[u] = "castPost") ~> pc[t] = "idle"
    /\ \A t \in Thread : pc[t] \in Notifying ~> pc[t] = "idle"
=============================================================================
