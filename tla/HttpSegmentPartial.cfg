SPECIFICATION Spec
CONSTANTS
    INITIAL_BLOCK_SIZE = 8
    MAX_BLOCK_SIZE = 16
    SizeMod = 256
    MaxString = 127
    Lines <- MCLines
    Headers <- MCHeaders
    KeepAlive = "keep-alive"
    Close = "close"
    Form = "form"
    Json = "json"
    CodeOf <- MCCode
    Username <- MCUsername
    Password <- MCPassword
    Named <- MCNamed
    Files <- MCFiles
    Menu <- MCShortMenu
    MaxRequests = 2
    Segmented = TRUE
    Pipelined = FALSE
CHECK_DEADLOCK FALSE
INVARIANTS
    HandledAsSent
