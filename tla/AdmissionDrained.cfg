SPECIFICATION AdmissionSpec
CONSTANTS
    Tasks = {r1, r2}
    Capacity = 1
    MaxQueue = 1
INVARIANT DrainedMeansIdle
