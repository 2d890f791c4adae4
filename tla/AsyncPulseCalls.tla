--------------------------- MODULE AsyncPulseCalls ---------------------------
(***************************************************************************)
(* The asynchronous calls of the pulse engine v2 and of its HAL tasks,     *)
(* PoKeysLibPulseEngine_v2Async.c.                                         *)
(***************************************************************************)
EXTENDS PulseEngineCalls, AsyncRequests

\* What the parsers store.
PK_PEv2_StatusParse(d)  == PK_PEv2_StatusGet(d)
PK_PEv2_Status2Parse(d) == PK_PEv2_Status2Get(d)
PK_PEv2_AdditionalParamsParse(d) == PK_PEv2_AdditionalParametersGet(d)
PK_PEv2_StatusAndHALParse(d) == PK_PEv2_StatusParse(d)

PK_PEv2_StatusGetAsync(d)  == PK_PEv2_StatusParse(d)
PK_PEv2_Status2GetAsync(d) == PK_PEv2_Status2Parse(d)
PK_PEv2_PulseEngineSetupAsync(d) == PK_PEv2_PulseEngineSetup(d)
PK_PEv2_AdditionalParametersGetAsync(d) == PK_PEv2_AdditionalParamsParse(d)
PK_PEv2_AdditionalParametersSetAsync(d) == PK_PEv2_AdditionalParametersSet(d)

\* The caller names the axis in PEv2.param1 and calls: the request carries it,
\* and the answer is stored for the axis that param1 names when it arrives.
PK_PEv2_AxisConfigParse(param1) ==
    AtCurrentAxis(ExchangeItems({}, Items(AxisFields, param1) \cup SharedByAxes))
PK_PEv2_AxisConfigurationGetAsync(d, param1) ==
    SelectAxis(param1) \o Require(param1 < 8, "PK_ERR_PARAMETER")
    \o PK_PEv2_AxisConfigParse(param1)
PK_PEv2_AxisConfigurationSetAsync(d, param1) ==
    SelectAxis(param1) \o PK_PEv2_AxisConfigurationSet(d, param1)

\* A negative velocity is converted to an unsigned integer.
PK_PEv2_PulseEngineMovePVAsync(d) ==
    Unsure({"ReferenceVelocityPV"}, PK_PEv2_PulseEngineMovePV(d))
\* The mask of the axes is sent in the data and not among the parameters.
PK_PEv2_HomingStartAsync(d) == SetGarbled({"param2"})
\* So are the outputs.
PK_PEv2_ExternalOutputsSetAsync(d) ==
    SetGarbled({"ExternalRelayOutputs", "ExternalOCOutputs"})
PK_PEv2_BufferFillAsync(d)    == BufferFill
PK_PEv2_BufferFill_16Async(d) == BufferFill
PK_PEv2_BufferClearAsync(d)   == Command

\* The HAL tasks: the status also goes to HAL pins; positions, velocities and
\* outputs come from them.
PK_PEv2_StatusUpdateHALAsync(d) == PK_PEv2_StatusAndHALParse(d)
PK_PEv2_MovePVFromHALAsync(d) ==
    Assign({"ReferencePositionSpeed", "ReferenceVelocityPV", "param2"}, "pin")
    \o PK_PEv2_PulseEngineMovePVAsync(d)
PK_PEv2_ExternalOutputsFromHALAsync(d) ==
    Assign({"ExternalRelayOutputs", "ExternalOCOutputs"}, "pin")
    \o PK_PEv2_ExternalOutputsSetAsync(d)
=============================================================================
