SPECIFICATION AdmissionFairSpec
CONSTANTS
    Tasks = {r1, r2, r3, r4}
    Capacity = 2
    MaxQueue = 1
INVARIANTS
    AdmissionTypeOK
    BooksBalance
    VerdictsCounted
    LimitsHold
    ClosedQueueEmpty
    DrainOutlivesRunning
PROPERTIES
    NoNewOwnerAfterClose
    EveryQueuedRequestAnswered
    CloseEnds
