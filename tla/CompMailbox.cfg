SPECIFICATION CompFairSpec
CONSTANTS
    readSN = readSN
    getIO = getIO
    Commands = {readSN}
    ZeroCmd = readSN
    MAX_TRANSACTIONS = 2
    IdMod = 8
    TimeoutUs = 0
    MAX_CONSECUTIVE_ERRORS = 1
    ERROR_BACKOFF_TIME = 1
    MaxRequests = 2
    Strays <- NoStrays
PROPERTIES
    ImplementsMailbox
    PendingResolved
