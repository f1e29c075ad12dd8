CONSTANTS
    p1 = p1
    p2 = p2
    c1 = c1
    c2 = c2
    n = n
    Thread = {p1, p2, c1, c2, n}
    Does <- MCDoes
    Quota <- MCQuota
    NullMsgs <- MCNullMsgs
    Timeout = 2
    Spurious = TRUE
SPECIFICATION FairSpec
INVARIANTS
    ExactlyOnce
    BoxesAgree
    NoLostWakeup
PROPERTIES
    ImplementsChannel
    MaybeGetTakes
    Termination
