SPECIFICATION Spec
CONSTANTS
    MAX_ASYNC_TASKS = 3
    TaskNames <- TheNames
    Plans <- ThreeTasks
    PrimeOffsets <- NoOffsets
    LoadMonitor = "load_monitor"
    iLoadStatus = TRUE
    Loads = {0, 60}
    ToggledTasks <- NoCalls
    MachineOnCalls <- NoCalls
    Budgeted = FALSE
    MaxNow = 12
INVARIANT LoadRefreshed
