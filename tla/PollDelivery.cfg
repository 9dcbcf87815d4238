\* One listener that polls a stream which is trimmed, expires and is deleted.
CONSTANTS
    MaxLen = 1
    BatchSizes = {1, 2}
    Removals = {"expire", "delete"}
    ClockSteps = {0, 1}
    MaxEvents = 3
    Listeners = {l1}
    Retries = 1
    Limit = 2
    Starts = {"beginning", "resume", "latest"}
    MaxFaults = 2
SPECIFICATION FairSpec
INVARIANTS TypeOK GapIsTrue
PROPERTIES ImplementsFeed EventuallyDelivered
CHECK_DEADLOCK FALSE
