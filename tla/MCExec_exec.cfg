SPECIFICATION FairSpec
CONSTANTS
    s1 = s1
    s2 = s2
    w1 = w1
    Services = {s1, s2}
    Cmd = Cmd
    Workers = {w1}
    Configs <- MCConfigs
    Jobs = {1}
    MaxOdd = 1
INVARIANTS
    OneResultEach
PROPERTIES
    HealthyIsTrue
    OwnGroupOnly
    CallsEnd
