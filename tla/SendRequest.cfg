SPECIFICATION FairSendSpec
CONSTANTS
    IdMod = 4
    MaxWaits = 2
    MaxCalls = 4
    Faulty = TRUE
    BigParts = 2
    FastWaits = 2
    BigWaits = 2
    NetworkMod = 4
    NetworkCalls = 2
    sendRetries = 0
    readRetries = 1
    selectRetries = 2
    Strays <- AsyncAnswers
INVARIANTS RequestTypeOK OwnAnswer TransmissionsBounded FailsOnlyBehind
PROPERTY Returns
CHECK_DEADLOCK FALSE
