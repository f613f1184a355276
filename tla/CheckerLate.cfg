SPECIFICATION FairSpec
CONSTANTS
    Checkpoints = {"link-up"}
    Buffer = 2
    MaxOthers = 0
    MaxFaults = 0
    MaxStates = 3
    MaxClock = 2
PROPERTIES
    LoopEndsAlways
CHECK_DEADLOCK FALSE
