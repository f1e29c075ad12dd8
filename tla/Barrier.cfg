SPECIFICATION FairBarrierSpec
CONSTANTS
    t1 = t1
    t2 = t2
    t3 = t3
    t4 = t4
    Party <- Threads
    Rounds = 2
INVARIANTS
    Rendezvous
    NeverEarly
PROPERTY
    EverybodyPasses
\* The threads come to the barrier a last time, and may not leave it then.
CHECK_DEADLOCK FALSE
