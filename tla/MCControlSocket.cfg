\* Two connections; the user of one reads, the other's writes and closes it.
CONSTANTS
    MaxConns = 2
    Readers = {1}
    Writers = {2}
    Leavers = {2}
SPECIFICATION FairSpec
INVARIANTS CloseTold NoneLeftBehind
PROPERTY ClosesWhenAsked
CHECK_DEADLOCK FALSE
