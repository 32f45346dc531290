SPECIFICATION FairSpec
CONSTANTS
    Executor = {0, 1, 2}
    Asks <- OneServer
    Op = {"RLOAD", "RC_GET", "PVT_RESET"}
    MaxRequests = 1
    Depth = 1
    LoadChunks = 2
INVARIANTS
    TypeOK
    AnswersWhole
PROPERTIES
    ImplementsTermination
    AllClose
