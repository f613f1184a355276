SPECIFICATION FairSpec
CONSTANTS
    a1 = a1
    a2 = a2
    a3 = a3
    a4 = a4
    Attempts = {a1}
    Labs = {"checked"}
    Owner <- OneUser
    Lab <- CheckedLab
    Env <- LabEnv
    Retries <- LabRetries
    Local = {"local"}
    Remote = {"edge"}
    Capabilities <- AllCapable
    Capacity <- CapacityOne
    Rank <- Alphabetical
    AdminDeletes = FALSE
    MaxConns = 1
    MaxCalls = 2
    MaxFaults = 0
    MaxBreaks = 1
INVARIANTS
    TypeOK
    Watched
    SandboxAccounted
    RunningHasSandbox
PROPERTIES
    IdleIsReclaimed
    ProvisioningSettles
    EndedSandboxGoes
CHECK_DEADLOCK FALSE
