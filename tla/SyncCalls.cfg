SPECIFICATION Spec
CONSTANTS
    Identities <- MC_Identities
    Searches <- MC_Searches
    CallsOn <- MC_CallsOn
    MaxFailures = 1
    MaxReads = 2
    MaxLost = 1
INVARIANT TypeOK
INVARIANT RightDevice
INVARIANT NeverOverclaims
INVARIANT ArraysHoldCounts
INVARIANT CounterTablesAgree
INVARIANT OkMeansDone
INVARIANT ArgumentsReach
INVARIANT ReadModifyWrite
INVARIANT EditsSurviveReads
INVARIANT FunctionsInOrder
CHECK_DEADLOCK FALSE
