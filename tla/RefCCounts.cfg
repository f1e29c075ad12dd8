\* Every program and every start.
SPECIFICATION Spec
CONSTANTS
    MaxCells = 16
    RcMax = 65535
    Name <- MCName
    MaxExtractFunArgs = 1
    Term <- AllTerms
    FreeVariables <- freeVariables
    UsedConstructors <- usedConstructors
    Defs <- MCDefs
    NullCons <- MCNullCons
    Starts <- MCStarts
INVARIANTS
    ExactCount
    ResultCorrect
    SharedIntact
