SPECIFICATION StreamSpec
CONSTANTS
    MaxText = 4
    MaxBacklog = 2
    MaxCancels = 3
INVARIANTS
    DeltasAddUp
    NothingLeftRunning
    UncancelledFreed
CHECK_DEADLOCK FALSE
