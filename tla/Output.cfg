SPECIFICATION Spec
CONSTANTS
    suspendBufMax = 3
    lpwSizeThreshold = 4
    MaxLogged = 6
    MaxChunks = 4
    Lens = {1, 2}
    Chunks <- SomeChunks
INVARIANTS NothingLost LpwAccounted
CHECK_DEADLOCK FALSE
