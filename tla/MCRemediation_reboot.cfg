CONSTANTS
    s1 = s1
    Services = {s1}
    Unknown = unknown
    None = None
    Torn = Torn
    Limits <- MCLimits
    RingSize = 2
    MaintenanceTime = 2
    Requests <- MCRequests
    MaxTime = 3
    MaxFaults = 1
    DiskFails = FALSE
SPECIFICATION Spec
CHECK_DEADLOCK FALSE
INVARIANT EndedStaysEnded
