SPECIFICATION PathFairSpec
CONSTANTS
    Requests = {r1, r2}
    Ids = {i1, i2}
    MaxTokens = 3
    KeepAlive = TRUE
    MayFail = TRUE
INVARIANTS
    EngineLoadHeldByLeases
    AccountedOnce
    BackpressureAndDelivery
    CutShortByNamesake
PROPERTIES
    StartedStreamsEnd
CHECK_DEADLOCK FALSE
