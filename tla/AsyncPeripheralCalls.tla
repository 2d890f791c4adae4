------------------------ MODULE AsyncPeripheralCalls ------------------------
(***************************************************************************)
(* The asynchronous calls for displays, buses, sensors, PoNET modules, the *)
(* device itself, and those that combine others: PoKeysLibLCDAsync.c,      *)
(* PoKeysLibMatrixLEDAsync.c, PoKeysLibWS2812Async.c, PoKeysLibRTCAsync.c, *)
(* PoKeysLibFailsafeAsync.c, PoKeysLibCOSMAsync.c,                         *)
(* PoKeysLibSecurityAsync.c, PoKeysLibEasySensorsAsync.c, the files of the *)
(* buses, PoKeysLibPoNETAsync.c, PoKeysLibPoNETAsyncEnhanced.c,            *)
(* PoKeysLibDeviceDataAsync.c, PoKeysLibDeviceStatusAsync.c,               *)
(* PoKeysLibDevicePoKeys57IndustrialAsync.c and PoKeysLibAdvancedRTAsync.c.*)
(* A function that does what its synchronous namesake does, request by     *)
(* request, is defined by it; d is as in PeripheralCalls.                  *)
(***************************************************************************)
EXTENDS PeripheralCalls, BusCalls, AsyncIOCalls, AsyncPulseCalls

(***************************************************************************)
(* Displays and LEDs.                                                      *)
(***************************************************************************)
PK_LCDConfigurationGetAsync(d)    == PK_LCDConfigurationGet(d)
PK_LCDConfigurationSetAsync(d)    == PK_LCDConfigurationSet(d)
PK_LCDUpdateAsync(d)              == PK_LCDUpdate(d)
PK_LCDSetCustomCharactersAsync(d) == PK_LCDSetCustomCharacters(d)

PK_MatrixLEDConfigurationGetAsync(d) == Capable(d, "iMatrixLED") \o Get(MatrixLEDFields)
PK_MatrixLEDConfigurationSetAsync(d) == Capable(d, "iMatrixLED") \o Set(MatrixLEDFields)
\* info.iMatrixLED is a flag and is taken for the number of displays: the
\* second is never updated.
PK_MatrixLEDUpdateAsync(d) ==
    Capable(d, "iMatrixLED") \o SendFlagged(1, {"MatrixLED.data"}, "MatrixLED.RefreshFlag")

PK_WS2812_UpdateAsync(d) == PK_WS2812_Update(d)
\* Sent past the mailbox, by PK_SendEthRequestNoResponseAsync().
PK_WS2812_SendLEDdataAsync(d, LEDcount) == PK_WS2812_SendLEDdata(d, LEDcount)

(***************************************************************************)
(* Clock, failsafe, security, COSM.                                        *)
(***************************************************************************)
\* An answer that is no date and time is refused.
PK_RTCGetAsync(d) == Refusable(PK_RTCGet(d))
PK_FailsafeSettingsGetAsync(d) == PK_FailsafeSettingsGet(d)
PK_FailsafeSettingsSetAsync(d) == PK_FailsafeSettingsSet(d)
PK_SecurityStatusGetAsync(d) == PK_SecurityStatusGet(d)
PK_UserAuthoriseAsync(d)     == PK_UserAuthorise(d)
PK_UserPasswordSetAsync(d)   == PK_UserPasswordSet(d)
PK_COSMSettingsGetAsync(d)   == PK_COSMSettingsGet(d)
PK_COSMSettingsSetAsync(d)   == PK_COSMSettingsSet(d)

(***************************************************************************)
(* Sensors and buses.  Where an answer goes is remembered by request       *)
(* number, together with the request.                                      *)
(***************************************************************************)
PK_EasySensorsSetupGetAsync(d, n)    == PK_EasySensorsSetupGet(d, n)
PK_EasySensorsSetupSetAsync(d, n)    == PK_EasySensorsSetupSet(d, n)
PK_EasySensorsValueGetAllAsync(d, n) == PK_EasySensorsValueGetAll(d, n)

PK_I2C_StatusParse(d)     == PK_I2CGetStatus(d)
\* What is longer than 32 (or 16) bytes is cut off, not refused.
PK_I2C_ReadStatusParse    == Get({"status", "iReadBytes", "buffer"})
PK_I2C_BusScanParse(d)    == PK_I2CBusScanGetResults(d)
PK_I2CSetStatusAsync(d)         == PK_I2CSetStatus(d)
PK_I2CGetStatusAsync(d)         == PK_I2C_StatusParse(d)
PK_I2CWriteStartAsync(d)        == PK_I2CWriteStart(d)
PK_I2CWriteAndReadStartAsync(d) == PK_I2CWriteAndReadStart(d)
PK_I2CWriteStatusGetAsync(d)    == PK_I2CWriteStatusGet(d)
PK_I2CReadStartAsync(d)         == PK_I2CReadStart(d)
PK_I2CReadStatusGetAsync(d)     == PK_I2C_ReadStatusParse
PK_I2CBusScanStartAsync(d)      == PK_I2CBusScanStart(d)
PK_I2CBusScanGetResultsAsync(d) == PK_I2C_BusScanParse(d)

PK_1Wire_StatusParse(d)  == PK_1WireStatusGet(d)
PK_1Wire_ReadStatusParse == Get({"readStatus", "ReadCount", "data"})
PK_1Wire_BusScanParse(d) == PK_1WireBusScanGetResults(d)
PK_1WireStatusSetAsync(d)         == PK_1WireStatusSet(d)
PK_1WireStatusGetAsync(d)         == PK_1Wire_StatusParse(d)
PK_1WireWriteReadStartAsync(d)    == PK_1WireWriteReadStart(d)
PK_1WireWriteReadStartExAsync(d)  == PK_1WireWriteReadStartEx(d)
PK_1WireReadStatusGetAsync(d)     == PK_1Wire_ReadStatusParse
PK_1WireBusScanStartAsync(d)      == PK_1WireBusScanStart(d)
PK_1WireBusScanGetResultsAsync(d) == PK_1Wire_BusScanParse(d)
PK_1WireBusScanContinueAsync(d)   == Command
PK_1WireBusScanStopAsync(d)       == Command

\* The numbers of the write, read and transfer operations are not those of the
\* synchronous functions; nothing is read by the transfer.
PK_SPIConfigureAsync(d) == PK_SPIConfigure(d)
PK_SPIWriteAsync(d) == Takes({"buffer", "pinCS"}) \o SetGarbled({"buffer", "pinCS"})
PK_SPIReadAsync(d)  == Misreading({"buffer"}, Get({"buffer"}))
PK_SPITransferAsync(d) == Takes({"txBuffer", "pinCS"}) \o SetGarbled({"txBuffer", "pinCS"})

PK_UARTConfigureAsync(d) == PK_UARTConfigure(d)
\* How many bytes the device has taken is not looked at.
PK_UARTWriteAsync(d, dataWriteLen) ==
    LET chunks == (dataWriteLen + 54) \div 55
    IN  TakesParts({"dataPtr"}, 1..chunks) \o EachPart(chunks, {"dataPtr"}, {})
PK_UARTReadAsync(d) == PK_UARTRead(d)

PK_CANConfigureAsync(d)      == PK_CANConfigure(d)
PK_CANRegisterFilterAsync(d) == PK_CANRegisterFilter(d)
PK_CANWriteAsync(d)          == PK_CANWrite(d)
PK_CANReadAsync(d)           == PK_CANRead(d)
PK_CANFlushAsync(d)          == Command

(***************************************************************************)
(* PoNET modules.                                                          *)
(***************************************************************************)
PK_PoNETGetPoNETStatusAsync(d)           == PK_PoNETGetPoNETStatus(d)
PK_PoNETGetModuleSettingsAsync(d)        == PK_PoNETGetModuleSettings(d)
PK_PoNETGetModuleStatusRequestAsync(d)   == Command
PK_PoNETGetModuleStatusAsync(d)          == PK_PoNETGetModuleStatus(d)
PK_PoNETSetModuleStatusAsync(d)          == PK_PoNETSetModuleStatus(d)
PK_PoNETSetModulePWMAsync(d)             == PK_PoNETSetModulePWM(d)
PK_PoNETGetModuleLightRequestAsync(d)    == Command
PK_PoNETGetModuleLightAsync(d)           == PK_PoNETGetModuleLight(d)

PK_PoNETKbd48CNCUpdateCycleAsync(d) ==
    PK_PoNETGetModuleSettingsAsync(d)
    \o PK_PoNETGetModuleLightRequestAsync(d) \o PK_PoNETGetModuleLightAsync(d)
    \o PK_PoNETGetModuleStatusRequestAsync(d) \o PK_PoNETGetModuleStatusAsync(d)
    \o PK_PoNETSetModuleStatusAsync(d) \o PK_PoNETSetModulePWMAsync(d)
PK_PoNETKbd48CNCLEDSetPatternAsync(d) ==
    Takes({"statusOut"}) \o PK_PoNETSetModuleStatusAsync(d)
PK_PoNETKbd48CNCBrightnessSetAsync(d) == Takes({"PWMduty"}) \o PK_PoNETSetModulePWMAsync(d)
PK_PoNETDeviceDiscoveryAsync(d)    == Command
PK_PoNETModuleReinitializeAsync(d) == Command
\* The button is looked up in what an earlier answer has left.
PK_PoNETKbd48CNCGetButtonStateAsync(d) ==
    PK_PoNETGetModuleStatusAsync(d) \o Assign({"pressed"}, "stale")
PK_PoNETKbd48CNCSetLEDStateAsync(d)     == PK_PoNETKbd48CNCLEDSetPatternAsync(d)
PK_PoNETKbd48CNCSetMultipleLEDsAsync(d) == PK_PoNETKbd48CNCLEDSetPatternAsync(d)

(***************************************************************************)
(* The device, and calls that combine others.                              *)
(***************************************************************************)
PK_Parse_DeviceData ==
    Get({"FirmwareVersion", "SerialNumber", "HWtype", "ProductID", "DeviceName", "BuildDate"})
PK_Parse_UserID == Get({"UserID", "DeviceLockStatus"})
PK_Parse_NetworkInfo ==
    Get({"DHCP", "IPAddressSetup", "IPAddressCurrent", "TCPtimeout", "DefaultGateway",
         "Subnetmask", "AdditionalNetworkOptions"})
PK_Parse_DeviceName == Get({"DeviceName"})
PK_DeviceDataGetAsync(d) ==
    Skipping(PK_Parse_DeviceData \o PK_Parse_UserID \o PK_Parse_NetworkInfo
             \o PK_Parse_DeviceName)

PK_Parse_DeviceAlive == Get({"connectionStatus"})
PK_Parse_LoadStatus  == Get({"CPUload", "USBload", "NetworkLoad", "Temperature"})
PK_Parse_ErrorStatus == Get({"errorFlags", "communicationErrors", "lastError"})
PK_DeviceAliveCheckAsync(d)  == PK_Parse_DeviceAlive
PK_DeviceLoadStatusAsync(d)  == Capable(d, "iLoadStatus") \o PK_Parse_LoadStatus
PK_DeviceErrorStatusAsync(d) == PK_Parse_ErrorStatus
PK_DeviceErrorResetAsync(d)  == Command
PK_DeviceStatusFullAsync(d) ==
    PK_DeviceAliveCheckAsync(d)
    \o When(Has(d, "iLoadStatus"), PK_DeviceLoadStatusAsync(d))
    \o PK_DeviceErrorStatusAsync(d)

PK57i_UpdateAsync(d) ==
    Takes({"resetFaults"})
    \o Exchange({"digitalOutputsEnable", "digitalOutputs", "analogOutputs", "resetFaults"},
                {"digitalOutputsFault", "analogOutputsFault", "digitalInputs", "analogInputs"})

PK_DigitalOutputSetMultipleAsync(d, count) ==
    Require(count \in 1..32, "PK_ERR_GENERIC")
    \o Takes({"DigitalValueSet"}) \o PK_DigitalIOSetGetAsync(d)
PK_DigitalCounterGetSelectedAsync(d) ==
    Require(Has(d, "iDigitalCounters"), "PK_ERR_NOT_SUPPORTED")
    \o Misreading({"DigitalCounterValue"}, ExchangePart(1, {}, {"DigitalCounterValue"}))
PK_PWMUpdateSelectedChannelsAsync(d) ==
    Takes({"PWMduty"}) \o SetGarbled({"channelMask", "PWMduty", "PWMperiod"})
PK_SystemStatusGetAllAsync(d) == PK_DeviceStatusFullAsync(d) \o PK_DeviceDataGetAsync(d)
\* Explored with a PWM channel that is enabled.
PK_IOUpdateCycleAsync(d) ==
    PK_DigitalIOSetGetAsync(d)
    \o When(Has(d, "iAnalogInputs"), PK_AnalogIOGetAsync(d))
    \o PK_PWMUpdateAsync(d)
    \o When(Has(d, "iDigitalCounters"), PK_DigitalCounterGetAsync(d))
    \o PK_EncoderValuesGetAsync(d)
\* The engine itself is only asked for its status, and PK_PWMUpdateAsync() takes
\* the channels from the HAL pins again.
PK_EmergencyStopAllAsync(d) ==
    When(Has(d, "iPulseEnginev2"),
         Assign({"PulseEngineState"}, "zero") \o PK_PEv2_StatusGetAsync(d))
    \o Assign({"PWMenabledChannels", "PWMduty"}, "zero") \o PK_PWMUpdateAsync(d)
    \o Assign({"DigitalValueSet"}, "zero") \o PK_DigitalIOSetGetAsync(d)
PK_CommunicationTestAsync(d, testCount) ==
    Require(testCount \in 1..10, "PK_ERR_GENERIC")
    \o FlattenSeq([i \in 1..testCount |-> PK_DeviceAliveCheckAsync(d)])
=============================================================================
