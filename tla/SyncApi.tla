------------------------------ MODULE SyncApi ------------------------------
(***************************************************************************)
(* The functions of the synchronous API, by the files that define them,    *)
(* and which of them read the settings that others write.                  *)
(***************************************************************************)
EXTENDS IOCalls, PulseEngineCalls, PeripheralCalls, BusCalls, PoILCalls

\* The numbers stand for the parameters the calls are explored with: pins,
\* axes, sizes and numbers of items that need more than one request.
IOTable(d) ==
    [PinConfigurationGet |-> PK_PinConfigurationGet(d),
     PinConfigurationSet |-> PK_PinConfigurationSet(d),
     DigitalIOSet |-> PK_DigitalIOSet(d), DigitalIOGet |-> PK_DigitalIOGet(d),
     DigitalIOSetGet |-> PK_DigitalIOSetGet(d),
     DigitalIOSetSingle |-> PK_DigitalIOSetSingle(d, 16),
     DigitalIOGetSingle |-> PK_DigitalIOGetSingle(d, 16),
     AnalogIOGet |-> PK_AnalogIOGet(d), AnalogRCFilterGet |-> PK_AnalogRCFilterGet(d),
     AnalogRCFilterSet |-> PK_AnalogRCFilterSet(d),
     DigitalCounterGet |-> PK_DigitalCounterGet(d),
     DigitalCounterClear |-> PK_DigitalCounterClear(d),
     PWMConfigurationSet |-> PK_PWMConfigurationSet(d), PWMUpdate |-> PK_PWMUpdate(d),
     PWMConfigurationGet |-> PK_PWMConfigurationGet(d),
     PWMConfigurationSetDirectly |-> PK_PWMConfigurationSetDirectly(d),
     PWMUpdateDirectly |-> PK_PWMUpdateDirectly(d), SL_PWM_SetPeriod |-> PK_SL_PWM_SetPeriod(d),
     SL_PWM_SetChannelEnabled |-> PK_SL_PWM_SetChannelEnabled(d),
     PoExtBusSet |-> PK_PoExtBusSet(d), PoExtBusGet |-> PK_PoExtBusGet(d)]
EncodersTable(d) ==
    [EncoderConfigurationGet |-> PK_EncoderConfigurationGet(d),
     EncoderConfigurationSet |-> PK_EncoderConfigurationSet(d),
     EncoderValuesGet |-> PK_EncoderValuesGet(d), EncoderValuesSet |-> PK_EncoderValuesSet(d)]
MatrixKBTable(d) ==
    [MatrixKBConfigurationGet |-> PK_MatrixKBConfigurationGet(d),
     MatrixKBConfigurationSet |-> PK_MatrixKBConfigurationSet(d),
     MatrixKBStatusGet |-> PK_MatrixKBStatusGet(d)]
PulseTable(d) ==
    [StatusGet |-> PK_PEv2_StatusGet(d), Status2Get |-> PK_PEv2_Status2Get(d),
     PulseEngineSetup |-> PK_PEv2_PulseEngineSetup(d),
     AdditionalParametersGet |-> PK_PEv2_AdditionalParametersGet(d),
     AdditionalParametersSet |-> PK_PEv2_AdditionalParametersSet(d),
     AxisConfigurationGet |-> PK_PEv2_AxisConfigurationGet(d, 0),
     OtherAxisConfigurationGet |-> PK_PEv2_AxisConfigurationGet(d, 1),
     AxisConfigurationSet |-> PK_PEv2_AxisConfigurationSet(d, 0),
     NoAxisConfigurationSet |-> PK_PEv2_AxisConfigurationSet(d, 8),
     PositionSet |-> PK_PEv2_PositionSet(d, 1), NoPositionSet |-> PK_PEv2_PositionSet(d, 0),
     PulseEngineStateSet |-> PK_PEv2_PulseEngineStateSet(d),
     PulseEngineMove |-> PK_PEv2_PulseEngineMove(d),
     PulseEngineMovePV |-> PK_PEv2_PulseEngineMovePV(d),
     ExternalOutputsGet |-> PK_PEv2_ExternalOutputsGet(d),
     ExternalOutputsSet |-> PK_PEv2_ExternalOutputsSet(d),
     BufferFill |-> PK_PEv2_BufferFill(d), BufferFill_16 |-> PK_PEv2_BufferFill_16(d),
     BufferFillLarge |-> PK_PEv2_BufferFillLarge(d),
     BufferFillLarge_16 |-> PK_PEv2_BufferFillLarge_16(d),
     BufferClear |-> PK_PEv2_BufferClear(d), Reboot |-> PK_PEv2_PulseEngineReboot(d),
     HomingStart |-> PK_PEv2_HomingStart(d), HomingFinish |-> PK_PEv2_HomingFinish(d),
     ProbingStart |-> PK_PEv2_ProbingStart(d),
     ProbingHybridStart |-> PK_PEv2_ProbingHybridStart(d),
     ProbingFinish |-> PK_PEv2_ProbingFinish(d),
     ProbingFinishSimple |-> PK_PEv2_ProbingFinishSimple(d),
     ThreadingPrepareForTrigger |-> PK_PEv2_ThreadingPrepareForTrigger(d),
     ThreadingForceTriggerReady |-> PK_PEv2_ThreadingForceTriggerReady(d),
     ThreadingTrigger |-> PK_PEv2_ThreadingTrigger(d),
     ThreadingRelease |-> PK_PEv2_ThreadingRelease(d),
     ThreadingCancel |-> PK_PEv2_ThreadingCancel(d),
     ThreadingStatusGet |-> PK_PEv2_ThreadingStatusGet(d),
     ThreadingSetup |-> PK_PEv2_ThreadingSetup(d),
     BacklashGet |-> PK_PEv2_BacklashCompensationSettings_Get(d),
     BacklashSet |-> PK_PEv2_BacklashCompensationSettings_Set(d),
     SyncedPWMSetup |-> PK_PEv2_SyncedPWMSetup(d), SyncOutputsSetup |-> PK_PEv2_SyncOutputsSetup(d),
     PoStepGet |-> PK_PoStep_ConfigurationGet(d), PoStepSet |-> PK_PoStep_ConfigurationSet(d),
     PoStepStatusGet |-> PK_PoStep_StatusGet(d),
     PoStepDriverGet |-> PK_PoStep_DriverConfigurationGet(d),
     PoStepDriverSet |-> PK_PoStep_DriverConfigurationSet(d),
     InternalDriversGet |-> PK_PEv2_InternalDriversConfigurationGet(d),
     InternalDriversSet |-> PK_PEv2_InternalDriversConfigurationSet(d)]
DisplayTable(d) ==
    [LCDConfigurationGet |-> PK_LCDConfigurationGet(d),
     LCDConfigurationSet |-> PK_LCDConfigurationSet(d), LCDUpdate |-> PK_LCDUpdate(d),
     LCDSetCustomCharacters |-> PK_LCDSetCustomCharacters(d),
     LCDChangeMode |-> PK_LCDChangeMode(d), LCDInit |-> PK_LCDInit(d), LCDClear |-> PK_LCDClear(d),
     LCDMoveCursor |-> PK_LCDMoveCursor(d), LCDPrint |-> PK_LCDPrint(d),
     LCDPutChar |-> PK_LCDPutChar(d), LCDEntryModeSet |-> PK_LCDEntryModeSet(d),
     LCDDisplayOnOffControl |-> PK_LCDDisplayOnOffControl(d),
     MatrixLEDConfigurationGet |-> PK_MatrixLEDConfigurationGet(d),
     MatrixLEDConfigurationSet |-> PK_MatrixLEDConfigurationSet(d),
     MatrixLEDUpdate |-> PK_MatrixLEDUpdate(d),
     WS2812_Update |-> PK_WS2812_Update(d),
     WS2812_SendLEDdataEx |-> PK_WS2812_SendLEDdataEx(d, 18),
     WS2812_SendLEDdata |-> PK_WS2812_SendLEDdata(d, 20)]
SettingsTable(d) ==
    [RTCGet |-> PK_RTCGet(d), RTCSet |-> PK_RTCSet(d),
     FailsafeSettingsGet |-> PK_FailsafeSettingsGet(d),
     FailsafeSettingsSet |-> PK_FailsafeSettingsSet(d),
     SecurityStatusGet |-> PK_SecurityStatusGet(d), UserAuthorise |-> PK_UserAuthorise(d),
     UserPasswordSet |-> PK_UserPasswordSet(d), COSMSettingsGet |-> PK_COSMSettingsGet(d),
     COSMSettingsSet |-> PK_COSMSettingsSet(d), DeviceNameSet |-> PK_DeviceNameSet(d),
     NetworkConfigurationSet |-> PK_NetworkConfigurationSet(d),
     DeviceActivation |-> PK_DeviceActivation(d),
     DeviceActivationClear |-> PK_DeviceActivationClear(d),
     SaveConfiguration |-> PK_SaveConfiguration(d), ClearConfiguration |-> PK_ClearConfiguration(d),
     GetDebugValues |-> PK_GetDebugValues(d),
     SetFastUSBEnableStatus |-> PK_SetFastUSBEnableStatus(d),
     GetFastUSBEnableStatus |-> PK_GetFastUSBEnableStatus(d), ReadDeviceLog |-> PK_ReadDeviceLog(d)]
ModulesTable(d) ==
    [EasySensorsSetupGet |-> PK_EasySensorsSetupGet(d, 2),
     EasySensorsSetupSet |-> PK_EasySensorsSetupSet(d, 2),
     EasySensorsValueGetAll |-> PK_EasySensorsValueGetAll(d, 14),
     PoNETGetPoNETStatus |-> PK_PoNETGetPoNETStatus(d),
     PoNETGetModuleSettings |-> PK_PoNETGetModuleSettings(d),
     PoNETGetModuleStatusRequest |-> PK_PoNETGetModuleStatusRequest(d),
     PoNETGetModuleStatus |-> PK_PoNETGetModuleStatus(d),
     PoNETSetModuleStatus |-> PK_PoNETSetModuleStatus(d),
     PoNETSetModulePWM |-> PK_PoNETSetModulePWM(d),
     PoNETGetModuleLightRequest |-> PK_PoNETGetModuleLightRequest(d),
     PoNETGetModuleLight |-> PK_PoNETGetModuleLight(d), PK57i_Update |-> PK57i_Update(d)]
BusTable(d) ==
    [I2CSetStatus |-> PK_I2CSetStatus(d), I2CGetStatus |-> PK_I2CGetStatus(d),
     I2CWriteStart |-> PK_I2CWriteStart(d), I2CWriteAndReadStart |-> PK_I2CWriteAndReadStart(d),
     I2CWriteStatusGet |-> PK_I2CWriteStatusGet(d), I2CReadStart |-> PK_I2CReadStart(d),
     I2CReadStatusGet |-> PK_I2CReadStatusGet(d), I2CBusScanStart |-> PK_I2CBusScanStart(d),
     I2CBusScanGetResults |-> PK_I2CBusScanGetResults(d),
     OneWireStatusSet |-> PK_1WireStatusSet(d), OneWireStatusGet |-> PK_1WireStatusGet(d),
     OneWireWriteReadStart |-> PK_1WireWriteReadStart(d),
     OneWireWriteReadStartEx |-> PK_1WireWriteReadStartEx(d),
     OneWireReadStatusGet |-> PK_1WireReadStatusGet(d),
     OneWireBusScanStart |-> PK_1WireBusScanStart(d),
     OneWireBusScanGetResults |-> PK_1WireBusScanGetResults(d),
     OneWireBusScanContinue |-> PK_1WireBusScanContinue(d),
     OneWireBusScanStop |-> PK_1WireBusScanStop(d), SPIConfigure |-> PK_SPIConfigure(d),
     SPIWrite |-> PK_SPIWrite(d), SPIRead |-> PK_SPIRead(d), UARTConfigure |-> PK_UARTConfigure(d),
     UARTWrite |-> PK_UARTWrite(d, 100), UARTRead |-> PK_UARTRead(d),
     CANConfigure |-> PK_CANConfigure(d), CANRegisterFilter |-> PK_CANRegisterFilter(d),
     CANWrite |-> PK_CANWrite(d), CANRead |-> PK_CANRead(d), CANFlush |-> PK_CANFlush(d)]
PoILTable(d) ==
    [GetState |-> PK_PoILGetState(d), SetCoreState |-> PK_PoILSetCoreState(d),
     SetMasterEnable |-> PK_PoILSetMasterEnable(d), ResetCore |-> PK_PoILResetCore(d),
     SetDebugMode |-> PK_PoILSetDebugMode(d), ReadMemory |-> PK_PoILReadMemory(d, 100),
     WriteCode |-> PK_PoILWriteMemory(d, 0, 256), WriteData |-> PK_PoILWriteMemory(d, 1, 100),
     ReadSharedSlot |-> PK_PoILReadSharedSlot(d, 20),
     WriteSharedSlot |-> PK_PoILWriteSharedSlot(d, 20), EraseMemory |-> PK_PoILEraseMemory(d),
     ChunkReadMemory |-> PK_PoILChunkReadMemory(d),
     ChunkReadMemoryInternalAddress |-> PK_PoILChunkReadMemoryInternalAddress(d),
     TaskStatus |-> PK_PoILTaskStatus(d, 8)]

\* What the API has no other value than zero for: what it sends of them erases
\* what the device has.  (The calls name axes 0 and 1, and 8, which is none.)
Erased == OtherPins \cup MPG1xMode({0, 1, 8})

Table(group, d) ==
    CASE group = "IO" -> IOTable(d)              [] group = "Encoders" -> EncodersTable(d)
      [] group = "MatrixKB" -> MatrixKBTable(d)  [] group = "Pulse" -> PulseTable(d)
      [] group = "Display" -> DisplayTable(d)    [] group = "Settings" -> SettingsTable(d)
      [] group = "Modules" -> ModulesTable(d)    [] group = "Bus" -> BusTable(d)
      [] group = "PoIL" -> PoILTable(d)
Groups == {"IO", "Encoders", "MatrixKB", "Pulse", "Display", "Settings", "Modules", "Bus", "PoIL"}

\* The functions that read settings and the ones that write them.
ReadsFor ==
    [PinConfigurationSet |-> "PinConfigurationGet", AnalogRCFilterSet |-> "AnalogRCFilterGet",
     PWMConfigurationSet |-> "PWMConfigurationGet", PWMUpdate |-> "PWMConfigurationGet",
     PWMUpdateDirectly |-> "PWMConfigurationGet",
     SL_PWM_SetChannelEnabled |-> "PWMConfigurationGet", PoExtBusSet |-> "PoExtBusGet",
     EncoderConfigurationSet |-> "EncoderConfigurationGet", EncoderValuesSet |-> "EncoderValuesGet",
     MatrixKBConfigurationSet |-> "MatrixKBConfigurationGet",
     AdditionalParametersSet |-> "AdditionalParametersGet",
     AxisConfigurationSet |-> "AxisConfigurationGet", ExternalOutputsSet |-> "ExternalOutputsGet",
     BacklashSet |-> "BacklashGet", PoStepSet |-> "PoStepGet", PoStepDriverSet |-> "PoStepDriverGet",
     InternalDriversSet |-> "InternalDriversGet", LCDConfigurationSet |-> "LCDConfigurationGet",
     MatrixLEDConfigurationSet |-> "MatrixLEDConfigurationGet", RTCSet |-> "RTCGet",
     FailsafeSettingsSet |-> "FailsafeSettingsGet", COSMSettingsSet |-> "COSMSettingsGet",
     EasySensorsSetupSet |-> "EasySensorsSetupGet"]
=============================================================================
