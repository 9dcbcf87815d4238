\* A planned rotation in the order of README.md:224-227: the gateway signs first.
CONSTANTS
    p1 = p1
    p2 = p2
    u1 = u1
    u2 = u2
    j1 = j1
    j2 = j2
    ann = ann
    writer = writer
    Old = Old
    New = New
    None = None
    Unset = Unset
    Queued = Queued
    Fields = {"status", "progress"}
    Jobs = {j1, j2}
    Updates <- MCUpdates
    JobOf <- MCJobOf
    Sets <- MCSets
    Processes <- MCProcesses
    Entries <- MCEntries
    Customers = {ann}
    JobsOf <- MCJobsOf
    Lifetime = 1
    Leeway = 1
    Skew <- MCSkew
    Plans = {"minting first"}
    MaxTickets = 1
    Horizon = 4
SPECIFICATION Spec
INVARIANT NoValidTicketRefused
CHECK_DEADLOCK FALSE
