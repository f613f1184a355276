SPECIFICATION Spec
CONSTANTS
    a1 = a1
    a2 = a2
    a3 = a3
    a4 = a4
    Attempts = {a1, a2, a3, a4}
    Labs = {"checked", "plain"}
    Owner <- TwoUsers
    Lab <- OneChecked
    Env <- LabEnv
    Retries <- LabRetries
    Local = {}
    Remote = {"edge"}
    Capabilities <- AllCapable
    Capacity <- CapacityOne
    Rank <- Alphabetical
    AdminDeletes = TRUE
    MaxConns = 0
    MaxCalls = 2
    MaxFaults = 1
    MaxBreaks = 2
CONSTRAINT Scope
INVARIANTS
    OneAlivePerUser
    WithinCapacity
PROPERTIES
    ImplementsLifecycle
CHECK_DEADLOCK FALSE
