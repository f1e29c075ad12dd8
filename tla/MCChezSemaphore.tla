-------------------------- MODULE MCChezSemaphore --------------------------
(* An instance of ChezSemaphore: several posters with several waiters.       *)
EXTENDS ChezSemaphore

CONSTANTS p1, p2, w1, w2, w3

Poster == {p1, p2}
Threads(waiters) == Poster \cup waiters
Script(waiters) == [t \in Threads(waiters) |-> IF t \in Poster THEN {"post"} ELSE {"wait"}]

ManyWaiters == Threads({w1, w2, w3})
ManyDoes == Script({w1, w2, w3})
ManyQuota == [t \in ManyWaiters |-> IF t \in Poster THEN 3 ELSE 2]
=============================================================================
