SPECIFICATION Spec
CONSTANTS
    NumAxes = 4
    BufBytes = 4
    CountMod = 6
    MaxPulses = 1
    StepUnits = 2
    StepWidth = 1
    AxisCounts <- MCAxisCounts
    Commands <- MCCommands
    MaxFills = 2
    MaxSends = 2
    MaxFaults = 0
PROPERTY AcceptedNotResent
CHECK_DEADLOCK FALSE
