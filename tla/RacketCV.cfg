SPECIFICATION FairSpec
CONSTANTS
    w1 = w1
    w2 = w2
    w3 = w3
    n1 = n1
    n2 = n2
    Thread <- Threads
    Scripts <- Ordered
INVARIANTS
    WaitersCounted
    NoStolenWakeup
    NeverReleasedFree
    BroadcastWakesAll
PROPERTIES
    CallsReturn
\* The threads have a last call, and a waiter may never be signalled.
CHECK_DEADLOCK FALSE
