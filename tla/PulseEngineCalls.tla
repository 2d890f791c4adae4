-------------------------- MODULE PulseEngineCalls --------------------------
(***************************************************************************)
(* The synchronous calls of the pulse engine v2, PoKeysLibPulseEngine_v2.c *)
(* None of them looks at info.iPulseEnginev2.  An answer that carries the  *)
(* engine's status overwrites fields that PK_PEv2_PulseEngineSetup() sends.*)
(***************************************************************************)
EXTENDS Requests

\* PK_PEv2_DecodeStatus(): what a status answer overwrites.
StatusFields ==
    {"SoftLimitStatus", "AxisEnabledStatesMask", "LimitOverride", "PulseEngineEnabled",
     "PulseEngineActivated", "PulseEngineState", "ChargePumpEnabled", "PulseGeneratorType",
     "LimitStatusP", "LimitStatusN", "HomeStatus", "AxesState", "CurrentPosition", "PEv2info",
     "EmergencySwitchPolarity", "ErrorInputStatus", "MiscInputStatus"}

\* An answer without the test byte stops the engine in the structure.
PK_PEv2_StatusGet(d) ==
    Dropping({"PulseEngineActivated", "PulseEngineEnabled"}, Get(StatusFields))
PK_PEv2_Status2Get(d) ==
    Get({"DedicatedLimitNInputs", "DedicatedLimitPInputs", "DedicatedHomeInputs"})

SetupFields == {"PulseEngineEnabled", "ChargePumpEnabled", "PulseGeneratorType",
                "PulseEngineBufferSize", "EmergencySwitchPolarity", "AxisEnabledStatesMask"}
PK_PEv2_PulseEngineSetup(d) == Set(SetupFields)

PK_PEv2_AdditionalParametersGet(d) == Get({"EmergencyInputPin"})
PK_PEv2_AdditionalParametersSet(d) == Set({"EmergencyInputPin"})

\* The axis is PEv2.param1.
AxisFields ==
    {"AxesConfig", "AxesSwitchConfig", "PinHomeSwitch", "PinLimitMSwitch", "PinLimitPSwitch",
     "HomingSpeed", "HomingReturnSpeed", "MPGjogEncoder", "MaxSpeed", "MaxAcceleration",
     "MaxDecceleration", "SoftLimitMinimum", "SoftLimitMaximum", "MPGjogMultiplier",
     "AxisEnableOutputPins", "InvertAxisEnable", "FilterLimitMSwitch", "FilterLimitPSwitch",
     "FilterHomeSwitch", "HomingAlgorithm", "HomeBackOffDistance", "MPGjogDivider",
     "AxisSignalOptions"}
\* The structure has one such field, exchanged with the configuration of every axis.
SharedByAxes == Items({"FilterProbeInput"}, 0)
\* Byte 44 of the configuration: sent as zero, and not read.
MPG1xMode(axes) == {"MPG1xMode"} \X axes
PK_PEv2_AxisConfigurationGet(d, param1) ==
    Require(param1 < 8, "PK_ERR_PARAMETER")
    \o ExchangeItems({}, Items(AxisFields, param1) \cup SharedByAxes)
PK_PEv2_AxisConfigurationSet(d, param1) ==
    Require(param1 < 8, "PK_ERR_PARAMETER")
    \o Zeroing(MPG1xMode({param1}), ExchangeItems(Items(AxisFields, param1) \cup SharedByAxes, {}))

\* param2 is the mask of the axes.
PK_PEv2_PositionSet(d, param2) ==
    Require(param2 # 0, "PK_ERR_PARAMETER") \o Set({"PositionSetup"})
PK_PEv2_PulseEngineStateSet(d) ==
    Set({"PulseEngineStateSetup", "LimitOverrideSetup", "AxisEnabledMask"})
PK_PEv2_PulseEngineMove(d) == Set({"ReferencePositionSpeed"})
PK_PEv2_PulseEngineMovePV(d) == Set({"ReferencePositionSpeed", "ReferenceVelocityPV", "param2"})

PK_PEv2_ExternalOutputsGet(d) == Get({"ExternalRelayOutputs", "ExternalOCOutputs"})
PK_PEv2_ExternalOutputsSet(d) == Set({"ExternalRelayOutputs", "ExternalOCOutputs"})

\* One request of 56 bytes; the large variants send one of eight parts.
BufferFill ==
    Exchange({"newMotionBufferEntries", "PulseEngineEnabled", "MotionBuffer"},
             StatusFields \cup {"motionBufferEntriesAccepted"})
PK_PEv2_BufferFill(d)         == BufferFill
PK_PEv2_BufferFill_16(d)      == BufferFill
PK_PEv2_BufferFillLarge(d)    == BufferFill
PK_PEv2_BufferFillLarge_16(d) == BufferFill
PK_PEv2_BufferClear(d)        == Command
PK_PEv2_PulseEngineReboot(d)  == Command

PK_PEv2_HomingStart(d)  == Set({"HomingStartMaskSetup", "HomeOffsets"})
PK_PEv2_HomingFinish(d) == Set({"PulseEngineStateSetup"})

PK_PEv2_ProbingStart(d) ==
    Set({"ProbeStartMaskSetup", "ProbeMaxPosition", "ProbeSpeed", "ProbeInput",
         "ProbeInputPolarity"})
PK_PEv2_ProbingHybridStart(d)  == Set({"ProbeInput", "ProbeInputPolarity"})
PK_PEv2_ProbingFinish(d)       == Get({"ProbePosition", "ProbeStatus"})
PK_PEv2_ProbingFinishSimple(d) == Get({"ProbePosition"})

PK_PEv2_ThreadingPrepareForTrigger(d) == Command
PK_PEv2_ThreadingForceTriggerReady(d) == Command
PK_PEv2_ThreadingTrigger(d)           == Command
PK_PEv2_ThreadingRelease(d)           == Command
PK_PEv2_ThreadingCancel(d)            == Command
PK_PEv2_ThreadingStatusGet(d) ==
    Get({"TriggerPreparing", "TriggerPrepared", "TriggerPending", "TriggerActive",
         "SpindleSpeedEstimate", "SpindlePositionError", "SpindleRPM", "TriggerIngnoredAxisMask",
         "spindleIndexCounter", "DebugValues"})
ThreadingArguments == {"sensorMode", "ticksPerRevolution", "tagetSpindleRPM", "filterGainSpeed",
                       "filterGainPosition"}
PK_PEv2_ThreadingSetup(d) ==
    Takes(ThreadingArguments) \o Set(ThreadingArguments \cup {"TriggerIngnoredAxisMask"})

BacklashFields == {"BacklashWidth", "BacklashAcceleration", "BacklashCompensationEnabled",
                   "BacklashCompensationMaxSpeed"}
PK_PEv2_BacklashCompensationSettings_Get(d) == Get(BacklashFields \cup {"BacklashRegister"})
PK_PEv2_BacklashCompensationSettings_Set(d) == Set(BacklashFields)

PK_PEv2_SyncedPWMSetup(d) ==
    LET arguments == {"enabled", "srcAxis", "dstPWMChannel"} IN Takes(arguments) \o Set(arguments)
PK_PEv2_SyncOutputsSetup(d) == Set({"SyncFastOutputsAxisID", "SyncFastOutputsMapping"})

\* The answers to the PoStep settings are stored in place of what was set.
PoStepFields == {"DriverType", "AddressI2C", "UpdateConfig", "EnablePoStepCommunication"}
PoStepCurrents == {"Current_FS", "Current_Idle", "Current_Overheat"}
PoStepModes == {"DriverMode", "StepMode", "TemperatureLimit"}
PK_PoStep_ConfigurationGet(d) == Get(PoStepFields)
PK_PoStep_ConfigurationSet(d) == Exchange(PoStepFields, PoStepFields)
PK_PoStep_StatusGet(d) ==
    Get({"SupplyVoltage", "Temperature", "InputStatus", "DriverStatus", "FaultStatus",
         "UpdateState"})
PK_PoStep_DriverConfigurationGet(d) == Get(PoStepCurrents) \o Get(PoStepModes)
PK_PoStep_DriverConfigurationSet(d) ==
    Exchange(PoStepCurrents, PoStepCurrents) \o Exchange(PoStepModes, PoStepModes)

InternalDriverFields == {"InternalDriverStepConfig", "InternalDriverCurrentConfig"}
PK_PEv2_InternalDriversConfigurationGet(d) == Get(InternalDriverFields)
PK_PEv2_InternalDriversConfigurationSet(d) == Set(InternalDriverFields)
=============================================================================
