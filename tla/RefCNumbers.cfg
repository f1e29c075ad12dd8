SPECIFICATION Spec
CONSTANTS
    Width <- W
    Literals <- L
    IntegerMax = 300
    ShiftMax = 6
    CodePoint <- C
    CharSigned = TRUE
INVARIANTS
    FoldAgrees
    RemainderCongruent
    CaseAgrees
