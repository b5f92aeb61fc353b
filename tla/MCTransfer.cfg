\* Enough entries for a stream to be cut between two of them, at either pipe.
CONSTANTS
    Modes = {"push", "pull"}
    Clients = {"go", "java"}
    N = 3
    Window = 2
SPECIFICATION FairSpec
INVARIANTS
    TypeOK
    SuccessIsComplete
    NoSpuriousError
PROPERTIES
    TransferEnds
CHECK_DEADLOCK FALSE
