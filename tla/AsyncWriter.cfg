\* The asynchronous writer, used by two tasks.
CONSTANTS
    Tasks = {t1, t2}
    MaxBatch = 2
    ServerMax = 3
    MaxPuts = 3
    MaxFaults = 0
SPECIFICATION Spec
INVARIANT ClosedMeansStored
CHECK_DEADLOCK FALSE
