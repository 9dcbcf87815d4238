\* A rotation of the read-ticket secret while a job is updated and read.
CONSTANTS
    p1 = p1
    p2 = p2
    u1 = u1
    u2 = u2
    j1 = j1
    j2 = j2
    ann = ann
    writer = writer
    Old = Old
    New = New
    None = None
    Unset = Unset
    Queued = Queued
    Fields = {"status", "progress"}
    Jobs = {j1, j2}
    Updates <- MCUpdates
    JobOf <- MCJobOf
    Sets <- MCSets
    Processes <- MCProcesses
    Entries <- MCEntries
    Customers = {ann}
    JobsOf <- MCJobsOf
    Lifetime = 1
    Leeway = 1
    Skew <- MCSkew
    Plans = {"minting first", "verifiers first", "emergency"}
    MaxTickets = 1
    Horizon = 4
SPECIFICATION Spec
INVARIANTS TypeOK NoUpdateLost LastEventIsSnapshot PlannedRotationKeepsTickets
    RetiredSecretReadsNothing
CHECK_DEADLOCK FALSE
