SPECIFICATION Spec
CONSTANTS
    Services = {1, 2}
    Parents <- Chain
    DockerUnits = {2}
    DockerDaemon = {1}
    BackupStop = {2}
    Severity <- Mixed
    Interval = 1
    RestartCooldown = 3
    MaxRestarts = 2
    Window = 3
    Cooldown = 4
    RingSize = 2
    MaintenanceTime = 1
    Operator = TRUE
INVARIANTS
    TypeOK
    QuietWhileOpen
PROPERTIES
    BreakerTrips
    NeverForgotten
