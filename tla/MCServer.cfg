SPECIFICATION ServerSpec
CONSTANTS
    Tasks = {r1, r2, r3}
    Ids = {i1}
    Capacity = 1
    MaxQueue = 1
    MaxTokens = 1
    KeepAlive = FALSE
    MayFail = FALSE
INVARIANTS
    EngineLoadBounded
    EverySlotExplained
    EngineOutlivesRequests
SYMMETRY Symmetry
CHECK_DEADLOCK FALSE
