SPECIFICATION Spec
CONSTANTS
    MaxCalls = 2
    Requests <- TwoRoutes
    Routes = {"chat", "batch"}
    Tenants = {"t1", "t2"}
    Configs <- TwoTTLs
    Close <- CloseDef
    Near = {}
    PurgeOptions <- PurgeBatch
    None = None
    Slots = 1
    Peers = 1
    MaxJobs = 1
    MaxLate = 0
    MaxFaults = 0
PROPERTY PurgeKeepsToScope
CHECK_DEADLOCK FALSE
