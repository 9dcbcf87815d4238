\* A stream that only MAXLEN trims: is every skip announced by a gap?
CONSTANTS
    MaxLen = 1
    BatchSizes = {1}
    Removals = {}
    ClockSteps = {1}
    MaxEvents = 3
    Listeners = {l1}
    Retries = 1
    Limit = 2
    Starts = {"beginning", "resume"}
    WireCap = 1
    MaxFaults = 0
SPECIFICATION FairSpec
PROPERTY TrimIsSignalled
CHECK_DEADLOCK FALSE
