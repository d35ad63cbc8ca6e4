SPECIFICATION SweepFairSpec
CONSTANTS
    Tasks = {1, 2, 3, 4, 5}
    Capacity = 1
    MaxQueue = 2
    MaxTokens = 2
INVARIANTS
    LoadIsSlotsAndAbandoned
    ReportOfPhaseAtRest
    UnofferedArrivals
    SurvivorsFit
PROPERTY PhaseSettles
CHECK_DEADLOCK FALSE
