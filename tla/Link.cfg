SPECIFICATION FairSpec
CONSTANTS
    Conns = {1, 2}
    Attempts = {1, 2}
    SlowClose = TRUE
    Revokes = TRUE
    MaxFaults = 1
INVARIANTS
    LatestIsLive
    EndedSandboxHasOwner
    RunningKeepsSandbox
PROPERTIES
    EndedSandboxGoes
CONSTRAINT
    Scope
CHECK_DEADLOCK FALSE
