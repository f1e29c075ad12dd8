----------------------------- MODULE MCRacketCV -----------------------------
(* Instances of RacketCV: threads that wait again and again with two that    *)
(* signal, or with one that signals and at last broadcasts.                  *)
EXTENDS RacketCV

CONSTANTS w1, w2, w3, n1, n2

Waiter == {w1, w2, w3}
Threads == {w1, w2, w3, n1, n2}

Signals == [t \in Threads |-> IF t \in {w1, w2} THEN <<"wait", "wait">>
                             ELSE IF t = w3 THEN <<>> ELSE <<"signal", "signal">>]
Broadcast == [t \in Threads |-> IF t \in Waiter THEN <<"wait">>
                               ELSE IF t = n1 THEN <<"signal", "broadcast">> ELSE <<>>]

Ordered == {Signals, Broadcast}
=============================================================================
