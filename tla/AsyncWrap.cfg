SPECIFICATION Spec
CONSTANTS
    readSN = readSN
    getIO = getIO
    Commands = {readSN, getIO}
    ZeroCmd = readSN
    MAX_TRANSACTIONS = 2
    IdMod = 3
    TimeoutUs = 0
    MAX_CONSECUTIVE_ERRORS = 1
    ERROR_BACKOFF_TIME = 1
    MaxRequests = 3
    Strays <- NoStrays
INVARIANTS
    TypeOK
    MisdeliveryNeedsWrap
    ThirdSendNeedsWrap
    ErrorsBounded
PROPERTY
    KeepsPromise
