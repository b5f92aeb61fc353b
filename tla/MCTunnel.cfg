CONSTANTS
    MaxChunks <- OneEach
    Window <- NarrowWide
SPECIFICATION FairSpec
INVARIANTS
    TypeOK
    NoSpuriousError
PROPERTIES
    StreamSpec
    TunnelEnds
    EndReachesPeer
CHECK_DEADLOCK FALSE
