SPECIFICATION FairSpec
CONSTANTS
    Calls = {1, 2}
    OutboxLimit = 2
    MaxFrames = 1
INVARIANTS
    HeldStreamLearns
    ToldOnce
PROPERTIES
    CallReturns
CHECK_DEADLOCK FALSE
