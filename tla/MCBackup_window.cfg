SPECIFICATION Spec
CONSTANTS
    s1 = s1
    s2 = s2
    Services = {s1}
    StopServices = {s1}
    DockerServices = {}
    DockerDaemon = {}
    Repo = Repo
    NoHolder = NoHolder
    NoCmd = NoCmd
    Verify = TRUE
    OldPhases <- FreshFile
    SpawnMayFail = FALSE
    DiskMayFail = FALSE
    MaxDay = 1
    MaxCrashes = 1
INVARIANTS
    CrashForgetsNobody
