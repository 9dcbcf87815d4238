\* The synchronous writer, through lost requests and answers.
CONSTANTS
    Tasks = {t1}
    MaxBatch = 2
    ServerMax = 3
    MaxPuts = 5
    MaxFaults = 3
SPECIFICATION Spec
INVARIANTS TypeOK NothingLost StoredInOrder OnlyDoubtfulTwice ClosedMeansStored
CHECK_DEADLOCK FALSE
