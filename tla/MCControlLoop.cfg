SPECIFICATION Spec
CONSTANTS
    Unset = Unset
    Instances = {i1}
    Env <- EnvDef
    Files <- FilesDef
    Content <- ContentDef
    Leftovers <- LeftoversDef
    Applied = {80}
    MaxEdits = 1
    MaxApplies = 1
    MaxErrors = 1
    MaxRestarts = 1
INVARIANTS RuntimeCurrent RuntimeSound
PROPERTY RollbackReaches
CHECK_DEADLOCK FALSE
