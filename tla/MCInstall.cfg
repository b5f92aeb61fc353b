CONSTANTS
    Apis = {0, 19, 21, 24, 25}
    FailCodes = {0, 1}
    Total = 3
SPECIFICATION FairSpec
INVARIANTS
    ResultIsTrue
    InstalledIsWhole
    SessionSettled
PROPERTY InstallEnds
CHECK_DEADLOCK FALSE
