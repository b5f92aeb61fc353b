CONSTANTS
    WriteSizes = {1, 3}
    BufSizes = {1, 2}
    Garbage = {0, 1, 2}
    MaxBytes <- OneSided
    PipeCap = 2
SPECIFICATION FairSpec
INVARIANTS
    EofMeansEnd
PROPERTIES
    StreamSpec
    CloseCompletes
CHECK_DEADLOCK FALSE
