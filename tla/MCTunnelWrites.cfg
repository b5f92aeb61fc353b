CONSTANTS
    MaxChunks <- OneEach
    Window <- NarrowWide
SPECIFICATION Spec
INVARIANT WritesAlone
CHECK_DEADLOCK FALSE
