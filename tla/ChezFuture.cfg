SPECIFICATION FairFutureSpec
CONSTANTS
    main = main
    left = left
    right = right
    base = base
    bad = bad
    Future <- Futures
    Needs <- NeedsOf
    Raises = {bad}
INVARIANT
    AwaitReturnsResult
PROPERTY
    OthersFinish
\* Every thread ends.
CHECK_DEADLOCK FALSE
