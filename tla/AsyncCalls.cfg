SPECIFICATION Spec
CONSTANTS
    Devices <- MC_Devices
    MaxFaults = 1
INVARIANT TypeOK
INVARIANT SettledMeansDone
INVARIANT AnswersLand
INVARIANT ReadModifyWrite
INVARIANT EditsSurviveReads
INVARIANT FunctionsInOrder
CHECK_DEADLOCK FALSE
