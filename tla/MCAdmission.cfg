\* Five workloads of four requests each.
CONSTANTS
    r1 = r1
    r2 = r2
    r3 = r3
    r4 = r4
    p1 = p1
    p2 = p2
    None = None
    Requests <- MCRequests
    Workloads <- MCWorkloads
    Processes = {p1, p2}
    Clients = {"ip"}
    Principals = {"ann", "bob"}
    Streams = {"t:1", "u:1"}
    Environment <- MCEnvironment
    MaxEventBytes = 4
    MaxBatch = 3
    MaxRequests = 2
    MaxWrites = 1
    MaxFailures = 1
    RateWindow = 2
    Regulated = {"t:1"}
    Limit <- MCLimit
    PolicyBatch = 2
    PolicyBytes = 2
    Window = 1
    TtlBuffer = 2
    Skew <- MCSkew
    MaxDelay = 1
    Horizon = 2
SPECIFICATION Spec
INVARIANTS TypeOK QuotaHolds RejectionHasCause RateBound TurnedAwayHasCause RefusalsCounted
CHECK_DEADLOCK FALSE
