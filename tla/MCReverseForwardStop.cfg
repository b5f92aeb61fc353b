\* One session, started and stopped.
CONSTANTS
    Srcs = {"addr"}
    MaxSessions = 1
    MaxConns = 1
    AcceptErrors = FALSE
SPECIFICATION FairSpec
PROPERTY StopStops
CHECK_DEADLOCK FALSE
