\* SSE connections and long polls whose ttl leaves room for the skew of the clocks,
\* slow calls and a client that keeps event_stream waiting.
CONSTANTS
    c1 = c1
    c2 = c2
    c3 = c3
    c4 = c4
    c5 = c5
    c6 = c6
    c7 = c7
    c8 = c8
    c9 = c9
    p1 = p1
    p2 = p2
    Connections = {c1, c2, c3, c4, c5, c6, c7, c8, c9}
    Workloads <- MCWorkloads
    Processes = {p1, p2}
    Streams = {"s1", "s2", "s3"}
    Keys <- MCKeys
    ProcessOf <- MCProcessOf
    StreamOf <- MCStreamOf
    KindOf <- MCKindOf
    KeysOf <- MCKeysOf
    LimitOf <- MCLimitOf
    Ttl <- MCTtl
    MaxTotal = 2
    MaxPerStream = 1
    ReadTimeout = 1
    PollTimeout = 2
    TtlBuffer = 1
    Skew <- MCSkew
    Delay = 1
    Suspension = 1
SPECIFICATION Spec
INVARIANTS TypeOK LocalCountsExact LeaseHeld
PROPERTY AdmittedWithinLimits
