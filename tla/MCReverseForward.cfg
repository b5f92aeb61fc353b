\* Two sessions for one address or a picked port, one connection each.
CONSTANTS
    Srcs = {"addr", "any"}
    MaxSessions = 2
    MaxConns = 1
    AcceptErrors = TRUE
SPECIFICATION ProgressSpec
INVARIANTS TypeOK MapsAreLive LiveIsMapped OwnConnection
PROPERTY SessionsWindUp
CHECK_DEADLOCK FALSE
