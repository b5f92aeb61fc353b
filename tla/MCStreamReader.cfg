\* Messages that are empty, fit or overflow the slices, through a channel that fills.
CONSTANTS
    MsgSizes = {0, 1, 3}
    BufSizes = {1, 2, 4}
    ChanCap = 2
    MaxMsgs = 3
SPECIFICATION FairSpec
INVARIANTS
    ErrorIsLast
PROPERTIES
    StreamSpec
    ReadsToEnd
CHECK_DEADLOCK FALSE
