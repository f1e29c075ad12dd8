----------------------------- MODULE ChezFuture -----------------------------
(***************************************************************************)
(* The futures of the Chez Scheme run time (support/chez/support.ss).  The *)
(* work of a future may await others, as that of map, <*> and >>= of       *)
(* libs/contrib/System/Future.idr does; main is a future nobody awaits.    *)
(* What runs with the mutex of a future held is one step.                  *)
(***************************************************************************)
EXTENDS Integers, FiniteSets

CONSTANTS
    Future,
    Needs,      \* Needs[f]: the futures that the work of f awaits
    Raises      \* futures whose work raises an exception after its awaits

ASSUME FutureAssumption ==
    /\ Needs \in [Future -> SUBSET Future]
    /\ Raises \subseteq Future

NoResult == <<"#f">>    \* what future-internal-result holds at first
NoFuture == <<"none">>

VARIABLES
    spurious,   \* TRUE: condition-wait may return without a signal here
    ready,      \* future-internal-ready
    result,     \* future-internal-result: of f, when its work returned, f
    at,         \* where the thread of each future is
    on,         \* the future it awaits
    got         \* got[f]: what its awaits returned, <<future, result>>

futureVars == <<spurious, ready, result, at, on, got>>

Awaited(f) == {pair[1] : pair \in got[f]}
AsleepOn(g) == {f \in Future : at[f] = "asleep" /\ on[f] = g}

FutureInit ==
    /\ spurious \in BOOLEAN
    /\ ready = [f \in Future |-> FALSE]
    /\ result = [f \in Future |-> NoResult]
    /\ at = [f \in Future |-> "work"]
    /\ on = [f \in Future |-> NoFuture]
    /\ got = [f \in Future |-> {}]

CallAwait(f) ==
    /\ at[f] = "work"
    /\ \E g \in Needs[f] \ Awaited(f) : on' = [on EXCEPT ![f] = g]
    /\ at' = [at EXCEPT ![f] = "await"]
    /\ UNCHANGED <<spurious, ready, result, got>>

Returned(f) ==
    /\ got' = [got EXCEPT ![f] = @ \cup {<<on[f], result[on[f]]>>}]
    /\ at' = [at EXCEPT ![f] = "work"]
    /\ on' = [on EXCEPT ![f] = NoFuture]

\* MUTANT the result is read whether it is there or not
AwaitUntested(f) ==
    /\ at[f] = "await"
    /\ Returned(f)
    /\ UNCHANGED <<spurious, ready, result>>

\* blodwen-await-future, up to condition-wait
Await(f) ==
    /\ at[f] = "await"
    /\ IF ready[on[f]] THEN Returned(f)
       ELSE at' = [at EXCEPT ![f] = "asleep"] /\ UNCHANGED <<on, got>>
    /\ UNCHANGED <<spurious, ready, result>>

\* ... and from its return: ready is not tested again.
AwaitWoke(f) ==
    /\ at[f] = "woken"
    /\ Returned(f)
    /\ UNCHANGED <<spurious, ready, result>>

AwaitWakesSpuriously(f) ==
    /\ spurious /\ at[f] = "asleep"
    /\ at' = [at EXCEPT ![f] = "woken"]
    /\ UNCHANGED <<spurious, ready, result, on, got>>

WorkDone(f) == at[f] = "work" /\ Awaited(f) = Needs[f]

\* An exception ends the thread: the future never becomes ready.
Raise(f) ==
    /\ WorkDone(f) /\ f \in Raises
    /\ at' = [at EXCEPT ![f] = "raised"]
    /\ UNCHANGED <<spurious, ready, result, on, got>>

\* MUTANT condition-signal instead of condition-broadcast
PublishSignals(f) ==
    /\ WorkDone(f) /\ f \notin Raises
    /\ result' = [result EXCEPT ![f] = f]
    /\ ready' = [ready EXCEPT ![f] = TRUE]
    /\ \/ AsleepOn(f) = {} /\ at' = [at EXCEPT ![f] = "published"]
       \/ \E g \in AsleepOn(f) : at' = [at EXCEPT ![f] = "published", ![g] = "woken"]
    /\ UNCHANGED <<spurious, on, got>>

\* The worker of blodwen-make-future, once its work has returned
Publish(f) ==
    /\ WorkDone(f) /\ f \notin Raises
    /\ result' = [result EXCEPT ![f] = f]
    /\ ready' = [ready EXCEPT ![f] = TRUE]
    /\ at' = [g \in Future |-> IF g = f THEN "published"
                               ELSE IF g \in AsleepOn(f) THEN "woken" ELSE at[g]]
    /\ UNCHANGED <<spurious, on, got>>

FutureStep(f) == CallAwait(f) \/ Await(f) \/ AwaitWoke(f) \/ Raise(f) \/ Publish(f)

FutureNext == \E f \in Future : FutureStep(f) \/ AwaitWakesSpuriously(f)

FutureSpec == FutureInit /\ [][FutureNext]_futureVars

\* The threads of the futures are all scheduled.
FairFutureSpec == FutureSpec /\ \A f \in Future : WF_futureVars(FutureStep(f))

(***************************************************************************)
(* Properties                                                              *)
(***************************************************************************)
\* await returns the result of the work, never the initial #f, where no thread
\* is woken without a signal.
AwaitReturnsResult ==
    ~spurious => \A f \in Future : \A pair \in got[f] : pair[2] = pair[1]

\* Futures whose result takes one that raises, directly or not.
Spoilt ==
    LET spoils[n \in 0..Cardinality(Future)] ==
            IF n = 0 THEN Raises
            ELSE {f \in Future : f \in spoils[n - 1] \/ Needs[f] \cap spoils[n - 1] # {}}
    IN  spoils[Cardinality(Future)]

\* A raised exception stops the futures that need the result, and those only:
\* every other becomes ready, with all who await it served.
OthersFinish == <>[](\A f \in Future \ Spoilt : at[f] = "published")
=============================================================================
