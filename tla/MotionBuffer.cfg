SPECIFICATION Spec
CONSTANTS
    NumAxes = 4
    BufBytes = 4
    CountMod = 6
    MaxPulses = 1
    StepUnits = 2
    StepWidth = 1
    AxisCounts <- MCAxisCounts
    Commands <- MCCommands
    MaxFills = 3
    MaxSends = 3
    MaxFaults = 1
INVARIANTS TypeOK StepsConserved CountStaysInRange EachEntryOnce
CHECK_DEADLOCK FALSE
