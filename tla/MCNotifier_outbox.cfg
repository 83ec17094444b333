SPECIFICATION FairSpec
CONSTANTS
    a = a
    b = b
    Torn = Torn
    NoAlert = NoAlert
    Alerts = {a, b}
    QueueSize = 1
    OutboxMax = 2
    Retries = 2
    Readings = {1, 2}
    MaxRecords = 3
    MaxFaults = 1
    DiskFails = TRUE
INVARIANTS
    Kept
PROPERTIES
    KeepsThePromise
    ReplayTries
CHECK_DEADLOCK FALSE
