SPECIFICATION HealthSpec
CONSTANTS
    Replicas = {r1, r2}
    Metrics = {tps}
    LowIsBad = {tps}
    ErrorRate = err
    Scale = 1
    Limits <- LimitsDef
    AlphaNum = 1
    AlphaDen = 2
    MinSamples = 1
    Breaches = 2
    Recover = 1
    MaxCount = 1
    Cap = 1
    Secret <- SecretDef
    Skew = 0
    RedisTTL = 1
    Plans <- PlansDef
    MaxChanges = 1
    MaxPackets = 1
INVARIANTS NoRumour
PROPERTY EchoDies
