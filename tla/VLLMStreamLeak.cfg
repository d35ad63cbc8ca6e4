SPECIFICATION StreamSpec
CONSTANTS
    MaxText = 4
    MaxBacklog = 2
    MaxCancels = 2
INVARIANT FinallyReleases
CHECK_DEADLOCK FALSE
