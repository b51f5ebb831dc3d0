SPECIFICATION ServingSpec
CONSTANTS
    MaxCalls = 2
    Streamed = {1}
    Wires <- WiresDef
    ChanCap = 1
    Capacity = 1
    BatchSize = 2
INVARIANTS StoredIsComplete 
PROPERTY StreamsEnd
CHECK_DEADLOCK FALSE
