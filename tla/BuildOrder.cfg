SPECIFICATION FairOrderSpec
CONSTANTS
    Module = {"A", "B", "C", "D"}
    Projects <- Small
INVARIANTS
    OrderRight
    RefusedForCause
PROPERTY
    Answered
\* The traversals end.
CHECK_DEADLOCK FALSE
