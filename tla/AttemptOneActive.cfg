SPECIFICATION Spec
CONSTANTS
    a1 = a1
    a2 = a2
    a3 = a3
    a4 = a4
    Attempts = {a1, a2}
    Labs = {"plain"}
    Owner <- OneUser
    Lab <- PlainLab
    Env <- LabEnv
    Retries <- LabRetries
    Local = {"local"}
    Remote = {}
    Capabilities <- AllCapable
    Capacity <- CapacityTwo
    Rank <- Alphabetical
    AdminDeletes = FALSE
    MaxConns = 0
    MaxCalls = 1
    MaxFaults = 0
    MaxBreaks = 0
INVARIANTS
    OneActivePerUser
CHECK_DEADLOCK FALSE
