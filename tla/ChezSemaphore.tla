--------------------------- MODULE ChezSemaphore ---------------------------
(***************************************************************************)
(* The semaphore of the Chez Scheme run time (support/chez/support.ss): a  *)
(* box with the counter, a mutex and a condition variable.  What runs with *)
(* the mutex held is one step; a thread that sleeps in condition-wait has  *)
(* released the mutex and, once woken, takes it again as any other does.   *)
(***************************************************************************)
EXTENDS Integers, FiniteSets

CONSTANTS
    Thread,     \* threads that share the semaphore
    Does,       \* Does[t]: the operations t calls
    Quota,      \* bound: how many calls t makes in its life
    Initial,    \* init, the first value of the counter
    Spurious    \* TRUE: condition-wait may return without a signal

Operation == {"post", "wait"}

ASSUME ThreadAssumption == IsFiniteSet(Thread)
ASSUME ScriptAssumption ==
    /\ Does \in [Thread -> SUBSET Operation]
    /\ Quota \in [Thread -> Nat]
ASSUME InitialAssumption == Initial \in Nat
ASSUME SpuriousAssumption == Spurious \in BOOLEAN

VARIABLES
    box,        \* semaphore-box
    pc,         \* each thread's program counter
    calls,      \* calls[t]: how many calls t has started
    posts,      \* history: calls of post that have raised the counter
    waits       \* history: calls of wait that have lowered it

vars == <<box, pc, calls, posts, waits>>

PC == {"idle", "post", "wait", "asleep", "woken"}

Asleep == {t \in Thread : pc[t] = "asleep"}
Woken == {t \in Thread : pc[t] = "woken"}

Init ==
    /\ box = Initial
    /\ pc = [t \in Thread |-> "idle"]
    /\ calls = [t \in Thread |-> 0]
    /\ posts = 0 /\ waits = 0

Call(t, op) ==
    /\ pc[t] = "idle" /\ op \in Does[t] /\ calls[t] < Quota[t]
    /\ pc' = [pc EXCEPT ![t] = op]
    /\ calls' = [calls EXCEPT ![t] = @ + 1]
    /\ UNCHANGED <<box, posts, waits>>

\* MUTANT no thread is signalled
PostSilently(t) ==
    /\ pc[t] = "post"
    /\ box' = box + 1 /\ posts' = posts + 1
    /\ pc' = [pc EXCEPT ![t] = "idle"]
    /\ UNCHANGED <<calls, waits>>

\* blodwen-semaphore-post: condition-signal wakes one sleeper, if there is one.
Post(t) ==
    /\ pc[t] = "post"
    /\ box' = box + 1 /\ posts' = posts + 1
    /\ \/ Asleep = {} /\ pc' = [pc EXCEPT ![t] = "idle"]
       \/ \E s \in Asleep : pc' = [pc EXCEPT ![t] = "idle", ![s] = "woken"]
    /\ UNCHANGED <<calls, waits>>

Take(t) ==
    /\ box' = box - 1 /\ waits' = waits + 1
    /\ pc' = [pc EXCEPT ![t] = "idle"]

\* blodwen-semaphore-wait, up to condition-wait
Wait(t) ==
    /\ pc[t] = "wait"
    /\ IF box = 0
       THEN pc' = [pc EXCEPT ![t] = "asleep"] /\ UNCHANGED <<box, waits>>
       ELSE Take(t)
    /\ UNCHANGED <<calls, posts>>

\* ... and from its return: the counter is not tested again.
Woke(t) ==
    /\ pc[t] = "woken"
    /\ Take(t)
    /\ UNCHANGED <<calls, posts>>

WakeSpuriously(t) ==
    /\ Spurious /\ pc[t] = "asleep"
    /\ pc' = [pc EXCEPT ![t] = "woken"]
    /\ UNCHANGED <<box, calls, posts, waits>>

Step(t) == Post(t) \/ Wait(t) \/ Woke(t)

Next ==
    \E t \in Thread :
        \/ \E op \in Operation : Call(t, op)
        \/ Step(t)
        \/ WakeSpuriously(t)

Spec == Init /\ [][Next]_vars

\* A thread that has called an operation goes on with it, and makes all the
\* calls it is to make.
FairSpec ==
    Spec /\ \A t \in Thread : WF_vars(Step(t)) /\ WF_vars(\E op \in Operation : Call(t, op))

(***************************************************************************)
(* Properties                                                              *)
(***************************************************************************)
TypeOK ==
    /\ box \in Int
    /\ pc \in [Thread -> PC]
    /\ calls \in [Thread -> Nat]
    /\ posts \in Nat /\ waits \in Nat

\* No more waits return than there were posts, and the counter is never below
\* zero: each return of blodwen-semaphore-wait has a unit of its own.
Backed == waits <= Initial + posts

\* A thread sleeps on only while every unit of the counter has been promised to
\* a thread that is awake: no post is lost on a sleeper.
NoLostPost == Asleep # {} => box <= Cardinality(Woken)

\* When there are as many posts as waits, every wait returns.
EveryWaitReturns == <>[](\A t \in Thread : pc[t] = "idle" /\ calls[t] = Quota[t])
=============================================================================
