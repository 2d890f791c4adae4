------------------------------ MODULE AsyncApi ------------------------------
(***************************************************************************)
(* The functions of the asynchronous API, by what they are for, and which  *)
(* of them read the settings that others write.  The numbers stand for     *)
(* the parameters the calls are explored with.                             *)
(***************************************************************************)
EXTENDS AsyncPeripheralCalls

IOTable(d) ==
    [PinConfigurationGet |-> PK_PinConfigurationGetAsync(d),
     PinConfigurationSet |-> PK_PinConfigurationSetAsync(d),
     DigitalIOSet |-> PK_DigitalIOSetAsync(d), DigitalIOGet |-> PK_DigitalIOGetAsync(d),
     DigitalIOSetGet |-> PK_DigitalIOSetGetAsync(d),
     DigitalOutputSetSingle |-> PK_DigitalOutputSetSingleAsync(d, 16),
     DigitalInputGetSingle |-> PK_DigitalInputGetSingleAsync(d, 16),
     NoDigitalInputGetSingle |-> PK_DigitalInputGetSingleAsync(d, 60),
     DigitalOutputToggle |-> PK_DigitalOutputToggleAsync(d, 16),
     DigitalOutputSetMultiple |-> PK_DigitalOutputSetMultipleAsync(d, 2),
     AnalogIOGet |-> PK_AnalogIOGetAsync(d), AnalogRCFilterGet |-> PK_AnalogRCFilterGetAsync(d),
     AnalogRCFilterSet |-> PK_AnalogRCFilterSetAsync(d),
     DigitalCounterGet |-> PK_DigitalCounterGetAsync(d),
     DigitalCounterGetSelected |-> PK_DigitalCounterGetSelectedAsync(d),
     DigitalCounterClear |-> PK_DigitalCounterClearAsync(d),
     PoExtBusSet |-> PK_PoExtBusSetAsync(d), PoExtBusGet |-> PK_PoExtBusGetAsync(d)]
PWMTable(d) ==
    [PWMConfigurationSet |-> PK_PWMConfigurationSetAsync(d),
     PWMConfigurationGet |-> PK_PWMConfigurationGetAsync(d), PWMUpdate |-> PK_PWMUpdateAsync(d),
     PWMConfigurationSetDirectly |-> PK_PWMConfigurationSetDirectlyAsync(d),
     PWMUpdateDirectly |-> PK_PWMUpdateDirectlyAsync(d),
     PWMSetSingleChannel |-> PK_PWMSetSingleChannelAsync(d, 1),
     PWMGetPinAssignments |-> PK_PWMGetPinAssignmentsAsync(d),
     PWMUpdateSelectedChannels |-> PK_PWMUpdateSelectedChannelsAsync(d)]
EncodersTable(d) ==
    [EncoderConfigurationGet |-> PK_EncoderConfigurationGetAsync(d),
     EncoderConfigurationSet |-> PK_EncoderConfigurationSetAsync(d),
     EncoderValuesGet |-> PK_EncoderValuesGetAsync(d),
     EncoderValuesSet |-> PK_EncoderValuesSetAsync(d),
     EncoderSingleReset |-> PK_EncoderSingleResetAsync(d, 3),
     EncoderAllReset |-> PK_EncoderAllResetAsync(d)]
MatrixKBTable(d) ==
    [MatrixKBConfigurationGet |-> PK_MatrixKBConfigurationGetAsync(d),
     MatrixKBConfigurationSet |-> PK_MatrixKBConfigurationSetAsync(d),
     MatrixKBStatusGet |-> PK_MatrixKBStatusGetAsync(d)]
PulseTable(d) ==
    [StatusGet |-> PK_PEv2_StatusGetAsync(d), Status2Get |-> PK_PEv2_Status2GetAsync(d),
     PulseEngineSetup |-> PK_PEv2_PulseEngineSetupAsync(d),
     AdditionalParametersGet |-> PK_PEv2_AdditionalParametersGetAsync(d),
     AdditionalParametersSet |-> PK_PEv2_AdditionalParametersSetAsync(d),
     AxisConfigurationGet |-> PK_PEv2_AxisConfigurationGetAsync(d, 0),
     OtherAxisConfigurationGet |-> PK_PEv2_AxisConfigurationGetAsync(d, 1),
     NoAxisConfigurationGet |-> PK_PEv2_AxisConfigurationGetAsync(d, 8),
     AxisConfigurationSet |-> PK_PEv2_AxisConfigurationSetAsync(d, 0),
     PulseEngineMovePV |-> PK_PEv2_PulseEngineMovePVAsync(d),
     HomingStart |-> PK_PEv2_HomingStartAsync(d),
     ExternalOutputsSet |-> PK_PEv2_ExternalOutputsSetAsync(d),
     BufferFill |-> PK_PEv2_BufferFillAsync(d), BufferFill_16 |-> PK_PEv2_BufferFill_16Async(d),
     BufferClear |-> PK_PEv2_BufferClearAsync(d),
     StatusUpdateHAL |-> PK_PEv2_StatusUpdateHALAsync(d),
     MovePVFromHAL |-> PK_PEv2_MovePVFromHALAsync(d),
     ExternalOutputsFromHAL |-> PK_PEv2_ExternalOutputsFromHALAsync(d)]
DisplayTable(d) ==
    [LCDConfigurationGet |-> PK_LCDConfigurationGetAsync(d),
     LCDConfigurationSet |-> PK_LCDConfigurationSetAsync(d), LCDUpdate |-> PK_LCDUpdateAsync(d),
     LCDSetCustomCharacters |-> PK_LCDSetCustomCharactersAsync(d),
     MatrixLEDConfigurationGet |-> PK_MatrixLEDConfigurationGetAsync(d),
     MatrixLEDConfigurationSet |-> PK_MatrixLEDConfigurationSetAsync(d),
     MatrixLEDUpdate |-> PK_MatrixLEDUpdateAsync(d),
     WS2812_Update |-> PK_WS2812_UpdateAsync(d),
     WS2812_SendLEDdata |-> PK_WS2812_SendLEDdataAsync(d, 20)]
SettingsTable(d) ==
    [RTCGet |-> PK_RTCGetAsync(d), FailsafeSettingsGet |-> PK_FailsafeSettingsGetAsync(d),
     FailsafeSettingsSet |-> PK_FailsafeSettingsSetAsync(d),
     SecurityStatusGet |-> PK_SecurityStatusGetAsync(d), UserAuthorise |-> PK_UserAuthoriseAsync(d),
     UserPasswordSet |-> PK_UserPasswordSetAsync(d), COSMSettingsGet |-> PK_COSMSettingsGetAsync(d),
     COSMSettingsSet |-> PK_COSMSettingsSetAsync(d),
     EasySensorsSetupGet |-> PK_EasySensorsSetupGetAsync(d, 2),
     EasySensorsSetupSet |-> PK_EasySensorsSetupSetAsync(d, 2),
     EasySensorsValueGetAll |-> PK_EasySensorsValueGetAllAsync(d, 14)]
BusTable(d) ==
    [I2CSetStatus |-> PK_I2CSetStatusAsync(d), I2CGetStatus |-> PK_I2CGetStatusAsync(d),
     I2CWriteStart |-> PK_I2CWriteStartAsync(d),
     I2CWriteAndReadStart |-> PK_I2CWriteAndReadStartAsync(d),
     I2CWriteStatusGet |-> PK_I2CWriteStatusGetAsync(d), I2CReadStart |-> PK_I2CReadStartAsync(d),
     I2CReadStatusGet |-> PK_I2CReadStatusGetAsync(d),
     I2CBusScanStart |-> PK_I2CBusScanStartAsync(d),
     I2CBusScanGetResults |-> PK_I2CBusScanGetResultsAsync(d),
     OneWireStatusSet |-> PK_1WireStatusSetAsync(d), OneWireStatusGet |-> PK_1WireStatusGetAsync(d),
     OneWireWriteReadStart |-> PK_1WireWriteReadStartAsync(d),
     OneWireWriteReadStartEx |-> PK_1WireWriteReadStartExAsync(d),
     OneWireReadStatusGet |-> PK_1WireReadStatusGetAsync(d),
     OneWireBusScanStart |-> PK_1WireBusScanStartAsync(d),
     OneWireBusScanGetResults |-> PK_1WireBusScanGetResultsAsync(d),
     OneWireBusScanContinue |-> PK_1WireBusScanContinueAsync(d),
     OneWireBusScanStop |-> PK_1WireBusScanStopAsync(d), SPIConfigure |-> PK_SPIConfigureAsync(d),
     SPIWrite |-> PK_SPIWriteAsync(d), SPIRead |-> PK_SPIReadAsync(d),
     SPITransfer |-> PK_SPITransferAsync(d), UARTConfigure |-> PK_UARTConfigureAsync(d),
     UARTWrite |-> PK_UARTWriteAsync(d, 100), UARTRead |-> PK_UARTReadAsync(d),
     CANConfigure |-> PK_CANConfigureAsync(d), CANRegisterFilter |-> PK_CANRegisterFilterAsync(d),
     CANWrite |-> PK_CANWriteAsync(d), CANRead |-> PK_CANReadAsync(d),
     CANFlush |-> PK_CANFlushAsync(d)]
PoNETTable(d) ==
    [GetPoNETStatus |-> PK_PoNETGetPoNETStatusAsync(d),
     GetModuleSettings |-> PK_PoNETGetModuleSettingsAsync(d),
     GetModuleStatusRequest |-> PK_PoNETGetModuleStatusRequestAsync(d),
     GetModuleStatus |-> PK_PoNETGetModuleStatusAsync(d),
     SetModuleStatus |-> PK_PoNETSetModuleStatusAsync(d),
     SetModulePWM |-> PK_PoNETSetModulePWMAsync(d),
     GetModuleLightRequest |-> PK_PoNETGetModuleLightRequestAsync(d),
     GetModuleLight |-> PK_PoNETGetModuleLightAsync(d),
     UpdateCycle |-> PK_PoNETKbd48CNCUpdateCycleAsync(d),
     LEDSetPattern |-> PK_PoNETKbd48CNCLEDSetPatternAsync(d),
     BrightnessSet |-> PK_PoNETKbd48CNCBrightnessSetAsync(d),
     DeviceDiscovery |-> PK_PoNETDeviceDiscoveryAsync(d),
     ModuleReinitialize |-> PK_PoNETModuleReinitializeAsync(d),
     GetButtonState |-> PK_PoNETKbd48CNCGetButtonStateAsync(d),
     SetLEDState |-> PK_PoNETKbd48CNCSetLEDStateAsync(d),
     SetMultipleLEDs |-> PK_PoNETKbd48CNCSetMultipleLEDsAsync(d)]
DeviceTable(d) ==
    [DeviceDataGet |-> PK_DeviceDataGetAsync(d), AliveCheck |-> PK_DeviceAliveCheckAsync(d),
     LoadStatus |-> PK_DeviceLoadStatusAsync(d), ErrorStatus |-> PK_DeviceErrorStatusAsync(d),
     ErrorReset |-> PK_DeviceErrorResetAsync(d), StatusFull |-> PK_DeviceStatusFullAsync(d),
     PK57i_Update |-> PK57i_UpdateAsync(d), SystemStatusGetAll |-> PK_SystemStatusGetAllAsync(d),
     IOUpdateCycle |-> PK_IOUpdateCycleAsync(d), EmergencyStopAll |-> PK_EmergencyStopAllAsync(d),
     CommunicationTest |-> PK_CommunicationTestAsync(d, 2)]

\* What the API has no other value than zero for: what it sends of them erases
\* what the device has.  (The calls that send name axis 0.)
Erased == OtherPins \cup MPG1xMode({0})

Table(group, d) ==
    CASE group = "IO" -> IOTable(d)              [] group = "PWM" -> PWMTable(d)
      [] group = "Encoders" -> EncodersTable(d)  [] group = "MatrixKB" -> MatrixKBTable(d)
      [] group = "Pulse" -> PulseTable(d)        [] group = "Display" -> DisplayTable(d)
      [] group = "Settings" -> SettingsTable(d)  [] group = "Bus" -> BusTable(d)
      [] group = "PoNET" -> PoNETTable(d)        [] group = "Device" -> DeviceTable(d)
Groups == {"IO", "PWM", "Encoders", "MatrixKB", "Pulse", "Display", "Settings", "Bus", "PoNET",
           "Device"}

\* The functions that read settings and the ones that write them.
ReadsFor ==
    [PinConfigurationSet |-> "PinConfigurationGet", AnalogRCFilterSet |-> "AnalogRCFilterGet",
     PoExtBusSet |-> "PoExtBusGet", EncoderConfigurationSet |-> "EncoderConfigurationGet",
     EncoderValuesSet |-> "EncoderValuesGet",
     MatrixKBConfigurationSet |-> "MatrixKBConfigurationGet",
     AdditionalParametersSet |-> "AdditionalParametersGet",
     AxisConfigurationSet |-> "AxisConfigurationGet", LCDConfigurationSet |-> "LCDConfigurationGet",
     MatrixLEDConfigurationSet |-> "MatrixLEDConfigurationGet",
     FailsafeSettingsSet |-> "FailsafeSettingsGet", COSMSettingsSet |-> "COSMSettingsGet",
     EasySensorsSetupSet |-> "EasySensorsSetupGet"]
=============================================================================
