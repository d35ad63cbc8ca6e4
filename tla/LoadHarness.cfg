SPECIFICATION HarnessFairSpec
CONSTANTS
    Workers = {w1, w2, w3}
    Budget = 4
    Bound = 4
    Levels = 2
INVARIANTS
    RequestsAccounted
    BudgetShared
    ReportComplete
    ExitCodeTells
PROPERTIES
    PhaseEnds
CHECK_DEADLOCK FALSE
