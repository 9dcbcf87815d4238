\* Is the client's retry budget one for each reconnect attempt?
CONSTANTS
    MaxLen = 2
    BatchSizes = {1}
    Removals = {}
    ClockSteps = {1}
    MaxEvents = 2
    Listeners = {l1}
    Retries = 2
    Limit = 1
    Starts = {"beginning"}
    WireCap = 1
    MaxFaults = 3
SPECIFICATION FairSpec
PROPERTY BudgetPerReconnect
CHECK_DEADLOCK FALSE
