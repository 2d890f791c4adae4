SPECIFICATION FairPulseSpec
CONSTANTS
    MAX_ASYNC_COMMANDS = 2
    Command <- MCCommand
    NoCommand <- MCNoCommand
    MaxCommands = 4
    Axes <- MCAxes
    Positions <- MCPositions
    InitialPosition = 0
    Outputs <- MCOutputs
    InitialOutput = "off"
    MAX_COMMANDS_PER_CYCLE = 2
    MaxErrors = 1
    MaxEvents = 4
INVARIANTS TypeOK OldestFirst LastCommandKept
PROPERTY QueueDrained
CHECK_DEADLOCK FALSE
