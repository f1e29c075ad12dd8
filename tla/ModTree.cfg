SPECIFICATION Spec
CONSTANTS
    Module = {"A", "B", "C"}
    Imports <- Tree
    Reexports <- PublicImports
    Edits <- EditsOf
    FirstText <- First
    Goal <- Goals
    Order <- Chain
    MaxEdits = 1
    MaxBuilds = 3
    MaxCrashes = 1
CHECK_DEADLOCK FALSE
INVARIANTS
    LoadedIsCurrent
    ImportsAgree
    FailsForCause
    TotalityHonoured
PROPERTIES
    Stable
