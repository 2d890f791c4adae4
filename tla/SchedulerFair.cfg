SPECIFICATION Spec
CONSTANTS
    MAX_ASYNC_TASKS = 3
    TaskNames <- TheNames
    Plans <- Competing
    PrimeOffsets <- NoOffsets
    LoadMonitor = "load_monitor"
    iLoadStatus = TRUE
    Loads = {0, 60, 100}
    ToggledTasks <- Toggle1
    MachineOnCalls <- AllCalls
    Budgeted = TRUE
    MaxNow = 5
INVARIANTS
    TypeOK
    OvertakenAtMostOnce
PROPERTY NoBurst
CHECK_DEADLOCK FALSE
