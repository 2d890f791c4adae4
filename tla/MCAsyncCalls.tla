---------------------------- MODULE MCAsyncCalls ----------------------------
(* Small instances of AsyncCalls: a network device of each generation.      *)
EXTENDS AsyncSteps, DeviceTypes

Info(type, major, minor) ==
    [counts |-> Counts(type),
     flags |-> Capabilities(type, FALSE) \cup PulseEngine(type, major, minor, FALSE),
     mask |-> DeviceMask(type, {})]

MC_Devices == {Info("56E", 33, 10), Info("57E", 68, 0), Info("57CNC", 68, 0)}
=============================================================================
