SPECIFICATION Spec
CONSTANTS
    Calls = {1}
    OutboxLimit = 2
    MaxFrames = 1
INVARIANTS
    AbandonedIsReleased
CHECK_DEADLOCK FALSE
