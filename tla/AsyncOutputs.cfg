SPECIFICATION Spec
CONSTANTS
    Devices <- MC_Devices
    MaxFaults = 0
INVARIANT OutputsReach
CHECK_DEADLOCK FALSE
