SPECIFICATION FairSignalSpec
CONSTANTS
    Signum <- Signals3
    Handler = {"loop"}
    MaxUnanswered = 2
INVARIANTS
    HandledOnce
    NotForgotten
PROPERTY
    EverySignalHandled
