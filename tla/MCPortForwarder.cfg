\* Two sources, two sessions, a connection to each listener.
CONSTANTS
    Srcs = {"a", "b"}
    MaxSessions = 2
    MaxConns = 1
SPECIFICATION FairSpec
INVARIANTS NoLeakedListener ListIsTrue
PROPERTY SessionWindsUp
CHECK_DEADLOCK FALSE
