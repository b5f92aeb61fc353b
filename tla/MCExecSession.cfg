CONSTANTS
    Clients = {"go", "java"}
    ExitCodes <- Codes
    Mod = 65536
    Window = 1
    MaxOut <- OutChunks
    MaxIn = 1
SPECIFICATION FairSpec
INVARIANTS
    TypeOK
    ResultIsComplete
    StdinIsWhole
    CloseSendAlone
PROPERTIES
    ExecEnds
CHECK_DEADLOCK FALSE
