-------------------------- MODULE PeripheralCalls --------------------------
(***************************************************************************)
(* The synchronous calls for displays, the clock, sensors, PoNET modules   *)
(* and the settings of the device: PoKeysLibLCD.c, PoKeysLibMatrixLED.c,   *)
(* PoKeysLibRTC.c, PoKeysLibCOSM.c, PoKeysLibFailsafe.c,                   *)
(* PoKeysLibSecurity.c, PoKeysLibWS2812.c, PoKeysLibEasySensors.c,         *)
(* PoKeysLibPoNET.c and the single requests of PoKeysLibDeviceData.c.      *)
(* d.flags are the capabilities PK_DeviceDataGet() found.                  *)
(***************************************************************************)
EXTENDS Requests

Capable(d, capability) == Require(capability \in d.flags, "PK_ERR_NOT_SUPPORTED")

(***************************************************************************)
(* PoKeysLibLCD.c                                                          *)
(***************************************************************************)
LCDFields == {"LCD.Configuration", "LCD.Rows", "LCD.Columns"}
PK_LCDConfigurationGet(d) == Capable(d, "iLCD") \o Get(LCDFields)
\* The display is initialised and cleared after its configuration was sent.
PK_LCDConfigurationSet(d) == Capable(d, "iLCD") \o Set(LCDFields) \o Command \o Command

\* Only the rows whose refresh flag is set are sent.
PK_LCDUpdate(d) ==
    Capable(d, "iLCD")
    \o FlattenSeq([n \in 1..4 |-> SendFlagged(n, {"LCD.lines"}, "LCD.RowRefreshFlags")])
PK_LCDSetCustomCharacters(d) == Capable(d, "iLCD") \o EachPart(8, {"LCD.customCharacters"}, {})

PK_LCDChangeMode(d) == Capable(d, "iLCD") \o SetArguments({"mode"})
PK_LCDInit(d)       == Capable(d, "iLCD") \o Command
PK_LCDClear(d)      == Capable(d, "iLCD") \o Command
PK_LCDMoveCursor(d) == Capable(d, "iLCD") \o SetArguments({"row", "column"})
\* Twenty characters at most: a longer text is cut off.
PK_LCDPrint(d)      == Capable(d, "iLCD") \o SetArguments({"text"})
PK_LCDPutChar(d)    == Capable(d, "iLCD") \o SetArguments({"character"})
PK_LCDEntryModeSet(d) ==
    Capable(d, "iLCD") \o SetArguments({"cursorMoveDirection", "displayShift"})
PK_LCDDisplayOnOffControl(d) ==
    Capable(d, "iLCD") \o SetArguments({"displayOnOff", "cursorOnOff", "cursorBlinking"})

(***************************************************************************)
(* PoKeysLibMatrixLED.c: two displays.                                     *)
(***************************************************************************)
HasMatrixLED(d) == Require("iMatrixLED" \in d.flags, "PK_ERR_GENERIC")
MatrixLEDFields == {"MatrixLED.displayEnabled", "MatrixLED.rows", "MatrixLED.columns"}
PK_MatrixLEDConfigurationSet(d) == HasMatrixLED(d) \o Set(MatrixLEDFields)
PK_MatrixLEDConfigurationGet(d) == HasMatrixLED(d) \o Get(MatrixLEDFields)
PK_MatrixLEDUpdate(d) ==
    HasMatrixLED(d)
    \o FlattenSeq([i \in 1..2 |-> SendFlagged(i, {"MatrixLED.data"}, "MatrixLED.RefreshFlag")])

(***************************************************************************)
(* PoKeysLibRTC.c, PoKeysLibFailsafe.c, PoKeysLibSecurity.c                *)
(***************************************************************************)
RTCFields == {"SEC", "MIN", "HOUR", "DOW", "DOM", "MONTH", "DOY", "YEAR"}
PK_RTCGet(d) == Get(RTCFields)
PK_RTCSet(d) == Set(RTCFields)

FailsafeFields == {"bFailSafeEnabled", "bFailSafePeripherals", "bFailSafeIO",
                   "bFailSafePoExtBus", "bFailSafePWM"}
PK_FailsafeSettingsGet(d) == Get(FailsafeFields)
PK_FailsafeSettingsSet(d) == Set(FailsafeFields)

PK_SecurityStatusGet(d) == Get({"level", "seed"})
PK_UserAuthorise(d)     == Takes({"level", "hash"}) \o Exchange({"level", "hash"}, {"status"})
PK_UserPasswordSet(d)   == SetArguments({"defaultLevel", "password"})

(***************************************************************************)
(* PoKeysLibCOSM.c: the headers go in five pages; the description is sent, *)
(* never read.                                                             *)
(***************************************************************************)
COSMFields == {"updateRate", "serverIP", "requestType", "serverPort"}
PK_COSMSettingsGet(d) ==
    Get(COSMFields \cup {"lastStatusCode"}) \o EachPart(5, {}, {"requestHeaders"})
PK_COSMSettingsSet(d) ==
    Set(COSMFields \cup {"protocolDescription"}) \o EachPart(5, {"requestHeaders"}, {})

(***************************************************************************)
(* PoKeysLibWS2812.c: the data are sent without waiting for an answer, and *)
(* SendRequest_NoResponse() never returns PK_OK.                           *)
(***************************************************************************)
PK_WS2812_Update(d) == SetArguments({"LEDcount", "updateFlag"})
LEDdataEx(LEDcount, chunk) ==
    Require(LEDcount <= 18, "PK_ERR_PARAMETER")
    \o Silent(ExchangePart(chunk, {"LEDdata"}, {}))
PK_WS2812_SendLEDdataEx(d, LEDcount) == Takes({"LEDdata"}) \o LEDdataEx(LEDcount, 0)
\* Eighteen at a time; no request for no data.
PK_WS2812_SendLEDdata(d, LEDcount) ==
    TakesParts({"LEDdata"}, 1..((LEDcount + 17) \div 18))
    \o FlattenSeq([chunk \in 1..((LEDcount + 17) \div 18) |->
                       LEDdataEx(IF 18 * chunk <= LEDcount THEN 18 ELSE LEDcount % 18, chunk)])

(***************************************************************************)
(* PoKeysLibEasySensors.c: n sensors, one request each, or thirteen values *)
(* in one.                                                                 *)
(***************************************************************************)
EasySensorFields == {"sensorType", "sensorReadingID", "sensorRefreshPeriod",
                     "sensorFailsafeConfig", "sensorID"}
PK_EasySensorsSetupGet(d, n) == Capable(d, "iEasySensors") \o EachPart(n, {}, EasySensorFields)
PK_EasySensorsSetupSet(d, n) == Capable(d, "iEasySensors") \o EachPart(n, EasySensorFields, {})
PK_EasySensorsValueGetAll(d, n) ==
    Capable(d, "iEasySensors")
    \o EachPart((n + 12) \div 13, {}, {"sensorValue", "sensorOKstatus"})

(***************************************************************************)
(* PoKeysLibPoNET.c: the module is PoNETmodule.moduleID.  The device       *)
(* collects a module's data after a request of its own, and refuses to     *)
(* hand them out before.                                                   *)
(***************************************************************************)
PK_PoNETGetPoNETStatus(d) == Get({"PoNETstatus"})
PK_PoNETGetModuleSettings(d) ==
    Get({"i2cAddress", "moduleType", "moduleSize", "moduleOptions"})
PK_PoNETGetModuleStatusRequest(d) == Command
PK_PoNETGetModuleStatus(d) == Refusable(Get({"statusIn"}))
PK_PoNETSetModuleStatus(d) == Set({"statusOut"})
PK_PoNETSetModulePWM(d)    == Set({"PWMduty"})
PK_PoNETGetModuleLightRequest(d) == Command
PK_PoNETGetModuleLight(d) == Refusable(Get({"lightValue"}))

(***************************************************************************)
(* PoKeysLibDeviceData.c: settings of the device itself.                   *)
(***************************************************************************)
PK_DeviceNameSet(d) == Set({"DeviceName"})
PK_NetworkConfigurationSet(d) ==
    Set({"DHCP", "IPAddressSetup", "IPAddressCurrent", "TCPtimeout", "DefaultGateway",
         "Subnetmask", "AdditionalNetworkOptions"})
PK_DeviceActivation(d)      == Exchange({"ActivationCode"}, {"ActivatedOptions"})
PK_DeviceActivationClear(d) == Get({"ActivatedOptions"})
PK_SaveConfiguration(d)     == Command
PK_ClearConfiguration(d)    == Command
PK_GetDebugValues(d)        == EachPart(4, {}, {"buffer"})
PK_SetFastUSBEnableStatus(d) == SetArguments({"newState"})
PK_GetFastUSBEnableStatus(d) == Get({"state"})
PK_ReadDeviceLog(d)         == Get({"logBuffer", "logEntries"})
=============================================================================
