SPECIFICATION Spec
CONSTANTS
    MaxCalls = 2
    Requests <- RequestsDef
    Routes = {"chat"}
    Tenants = {"t1", "t2"}
    Configs <- ConfigsDef
    Close <- CloseDef
    Near = {}
    PurgeOptions <- PurgeDef
    None = None
    Slots = 1
    Peers = 1
    MaxJobs = 1
    MaxLate = 1
    MaxFaults = 1
INVARIANTS AnswerFits PurgedStaysGone AcceptedIsLockedOut
CHECK_DEADLOCK FALSE
