SPECIFICATION FairSpec
CONSTANTS
    None = None
    Torn = Torn
    Tokens = {t1, t2, t3, t4, t5, t6}
    MaxSetups = 3
    MaxErrors = 2
    MaxFaults = 2
INVARIANTS
    ReviewSurvives
    TokensAgree
PROPERTIES
    Starts
CHECK_DEADLOCK FALSE
