SPECIFICATION Spec
CONSTANTS
    Conns = {1, 2}
    Attempts = {1}
    SlowClose = FALSE
    Revokes = FALSE
    MaxFaults = 0
INVARIANTS
    OneLiveConnection
CHECK_DEADLOCK FALSE
