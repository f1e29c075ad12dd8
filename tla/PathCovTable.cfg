SPECIFICATION Spec
CONSTANTS
    none = none
    short = short
    long = long
    p1 = p1
    p2 = p2
    big = big
    Label <- Labels
    PathId <- Paths
    NoLabel = none
    Cut <- CutOf
    Oversized <- TooLong
    Hash <- HashOf
    Bytes <- BytesOf
    Capacity = 3
    ArenaBytes = 7
    DumpBytes = 22
    MarkBytes = 14
    Reserve = 16
INVARIANTS
    NoSilentLoss
    CountIsExact
    ReportComplete
