SPECIFICATION FairSpec
CONSTANTS
    s1 = s1
    s2 = s2
    Services = {s1, s2}
    StopServices = {s1}
    DockerServices = {s1}
    DockerDaemon = {s2}
    Repo = Repo
    NoHolder = NoHolder
    NoCmd = NoCmd
    Verify = FALSE
    OldPhases <- LegacyFiles
    SpawnMayFail = FALSE
    DiskMayFail = FALSE
    MaxDay = 2
    MaxCrashes = 1
INVARIANTS
    ResticIsAwaited
    RunHoldsItsLeases
    RepoLeasedDuringRun
    NoStaleLock
PROPERTIES
    OncePerDayAndProcess
    RunEnds
    OwedIsGivenBack
