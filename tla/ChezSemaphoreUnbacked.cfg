SPECIFICATION Spec
CONSTANTS
    p1 = p1
    p2 = p2
    w1 = w1
    w2 = w2
    w3 = w3
    Thread <- ManyWaiters
    Does <- ManyDoes
    Quota <- ManyQuota
    Initial = 0
    Spurious = FALSE
INVARIANTS
    Backed
\* The threads have a last call.
CHECK_DEADLOCK FALSE
