SPECIFICATION Spec
CONSTANTS
    Scheduled = {"backup", "summary"}
    Days <- MCDays
    At <- MCAt
    BackupDays = {0, 1}
    BackupAt = 3
    DayLength = 12
    Window = 5
    StartupDelay = 1
    RecoveryInterval = 2
    DiskInterval = 7
    WatchdogInterval = 1
    WatchdogSec = 2
    Stale = 2
    ProbeStale = 9
    RecvTimeout = 1
    StartTimeout = 2
    None = None
    Triggers = {"recovery", "unawaited", "shutdown"}
    ClockSteps <- MCClockSteps
    MaxBusy = 2
    MaxTime = 11
    MaxInputs = 1
    MaxFaults = 1
CHECK_DEADLOCK FALSE
INVARIANTS
    InTime
    HealthIsHonest
    CycleIsFresh
PROPERTIES
    SparesTheLiving
