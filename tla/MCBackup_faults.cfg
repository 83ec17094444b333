SPECIFICATION Spec
CONSTANTS
    s1 = s1
    s2 = s2
    Services = {s1, s2}
    StopServices = {s1, s2}
    DockerServices = {s1, s2}
    DockerDaemon = {}
    Repo = Repo
    NoHolder = NoHolder
    NoCmd = NoCmd
    Verify = TRUE
    OldPhases <- FreshFile
    SpawnMayFail = TRUE
    DiskMayFail = TRUE
    MaxDay = 1
    MaxCrashes = 1
SYMMETRY Symmetry
INVARIANTS
    Restorable
    NobodyLeftBehind
    OnlyDockerIntrudes
PROPERTIES
    KeepsTheLoan
