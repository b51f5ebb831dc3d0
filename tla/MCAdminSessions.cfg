SPECIFICATION Spec
CONSTANTS
    Root = root
    Users = {root, bob}
    Role <- RoleDef
    RootToken = s0
    Tokens = {s0, s1}
    NoToken = NoToken
    RootProfile = p0
    Profiles = {p0}
    Clients = {c1, c2}
    MaxLoginAttempts = 1
    IPCeiling = 1
    SessionAbsTimeout = 1
    SessionIdleTimeout = 1
    LockoutDuration = 1
    MaxTime = 1
    MaxRequests = 3
    MaxEdits = 2
    MaxErrors = 1
INVARIANTS RevokedForGood StaleSessionsSwept SessionsIndexed LockoutHolds
SYMMETRY ClientSymmetry
CHECK_DEADLOCK FALSE
