CONSTANTS
    r1 = r1
    r2 = r2
    Invocations <- MCInvocations
    MayAsk <- MCMayAsk
    Tokens = {t1, t2}
    MaxFaults = 1
    None = None
SPECIFICATION FairSpec
CHECK_DEADLOCK FALSE
INVARIANTS
    ToldTheTruth
    RefusedIsUntouched
    TokenWorks
PROPERTIES
    ServerComesBack
    Heard
