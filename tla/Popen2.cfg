SPECIFICATION FairSpec
CONSTANTS
    Child = {"c1", "c2"}
    MaxFd = 10
    Cap = 1
    MaxSend <- Sends
    MaxSay <- Says
    MaxPrint = 1
    StdOpen = {{0, 1}, {0}}
INVARIANTS
    ChildWired
    FdsReturned
    WrittenOnce
    OutputComplete
PROPERTIES
    AllEnd
