SPECIFICATION FairSpec
CONSTANTS
    Tasks = {t1, t2, t3, t4}
    Capacity = 2
INVARIANTS
    TypeOK
    PermitsConserved
    NoIdlePermit
    DequeMatchesFutures
PROPERTIES
    ArrivalOrder
    ImplementsFifoPermits
    NoStarvation
