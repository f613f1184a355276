SPECIFICATION FairSpec
CONSTANTS
    Checkpoints = {"link-up"}
    Buffer = 2
    MaxOthers = 1
    MaxFaults = 1
    MaxStates = 3
    MaxClock = 2
INVARIANTS
    PassedKeepsResults
    FirstPassIsEarliest
    SweepsSerialized
PROPERTIES
    RepairedPasses
    LoopEnds
    CloseReturns
CONSTRAINT
    Scope
CHECK_DEADLOCK FALSE
