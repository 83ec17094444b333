SPECIFICATION BuildSpec
CONSTANTS
    Count = 3
    MaxDeps = 2
CHECK_DEADLOCK FALSE
INVARIANTS
    DependenciesFirst
    RejectsCycles
    BlockedByARootCause
