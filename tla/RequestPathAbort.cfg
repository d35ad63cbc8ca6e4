SPECIFICATION PathSpec
CONSTANTS
    Requests = {r1, r2}
    Ids = {i1, i2}
    MaxTokens = 2
    KeepAlive = TRUE
    MayFail = FALSE
INVARIANT AbortStaysHome
CHECK_DEADLOCK FALSE
