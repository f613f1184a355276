SPECIFICATION FairSpec
CONSTANTS
    Nodes = {"web01"}
    Buffer = 2
    MaxOthers = 1
    MaxLines = 2
    MaxFaults = 1
INVARIANTS
    LoggedOnce
    EnteredIsLogged
PROPERTIES
    LoopEnds
    EndGetsOn
    CloseReturns
CHECK_DEADLOCK FALSE
