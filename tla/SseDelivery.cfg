\* One listener, every fault, a stream that is trimmed, expires and is deleted.
CONSTANTS
    MaxLen = 1
    BatchSizes = {1, 2}
    Removals = {"expire", "delete"}
    ClockSteps = {0}
    MaxEvents = 3
    Listeners = {l1}
    Retries = 1
    Limit = 2
    Starts = {"beginning", "resume", "latest"}
    WireCap = 2
    MaxFaults = 2
SPECIFICATION FairSpec
INVARIANTS TypeOK GapIsTrue
PROPERTIES ImplementsFeed SilentLossNeedsARace EventuallyDelivered
CHECK_DEADLOCK FALSE
