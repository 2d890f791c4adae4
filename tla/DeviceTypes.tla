---------------------------- MODULE DeviceTypes ----------------------------
(***************************************************************************)
(* What PoKeysLibDeviceData.c and PoKeysLibIO.c know of each device type:  *)
(* how the type follows from what the device reports, the numbers of its   *)
(* pins, encoders and outputs, the capabilities of sPoKeysDevice_Info, and *)
(* the tables of pin capabilities.  Types carry the names of               *)
(* ePK_DeviceTypeID, masks the names of ePK_DeviceTypeMask; a combination  *)
(* of mask bits is the set of their names.  Pins are 0-based here, as the  *)
(* functions take them.                                                    *)
(***************************************************************************)
EXTENDS Integers

Types57 == {"57U", "57U_v0", "57E", "57E_v0", "57CNC", "57CNCpro4x25", "57CNCdb25",
            "57Utest", "OEM1", "SerialReader", "X15_02_24"}
Bootloaders == {"Bootloader55", "Bootloader56U", "Bootloader56E", "Bootloader58"}

\* devSeries55 ... devSeries58: the device series a type belongs to.
Series(type) ==
    CASE type \in {"55v1", "55v2", "55v3", "Bootloader55"} -> "55"
      [] type \in {"56U", "56E", "Bootloader56U", "Bootloader56E"} -> "56"
      [] type \in {"27U", "27E"} -> "27"
      [] type \in Types57 -> "57"
      [] type \in {"58EU", "Bootloader58", "PoPLC58"} -> "58"
      [] type = "16RF" -> "16"
      [] OTHER -> "none"

\* devUSB and devEth: the interfaces PK_DeviceDataGet() ascribes to a type.
devUSB(type) ==
    type \in {"55v1", "55v2", "55v3", "56U", "27U", "Bootloader56U", "57U", "57U_v0", "57CNC",
              "57CNCpro4x25", "57CNCdb25", "57Utest", "SerialReader", "58EU", "Bootloader58",
              "PoPLC58", "16RF"}
devEth(type) ==
    type \in {"56E", "27E", "57E", "57E_v0", "57CNC", "57CNCpro4x25", "OEM1", "X15_02_24",
              "58EU", "Bootloader58", "PoPLC58"}

\* The type of a device that does not answer with an extended identification
\* (devExtendedID = 0): by serial number, firmware and connection.
LegacyType(serial, major, network) ==
    CASE serial = 65535 -> "Bootloader55"
      [] serial >= 20000 /\ serial < 65535 ->
            IF major >= 128 THEN IF network THEN "Bootloader56E" ELSE "Bootloader56U"
            ELSE IF major = 64 THEN IF network THEN "27E" ELSE "27U"
            ELSE IF network THEN "56E" ELSE "56U"
      [] serial >= 11500 /\ serial < 20000 -> "55v3"
      [] serial >= 10113 /\ serial < 11500 -> "55v2"
      [] OTHER -> "55v1"

\* data->DeviceTypeID: the mask bits of a type; a type of no case leaves the old ones.
DeviceMask(type, old) ==
    CASE type = "Bootloader55" -> {"Bootloader", "Bootloader55"}
      [] type \in {"Bootloader56U", "Bootloader56E"} -> {"Bootloader", "Bootloader56", type}
      [] type = "Bootloader58" -> {type}
      [] type \in {"55v1", "55v2", "55v3"} -> {"55", type}
      [] type \in {"56U", "56E"} -> {"56", type}
      [] type \in {"27U", "27E"} -> {"27", type}
      [] type \in {"57U", "57U_v0"} -> {"57", "57U"}
      [] type \in {"57E", "57E_v0"} -> {"57", "57E"}
      [] type \in {"57CNC", "57CNCpro4x25", "57CNCdb25", "57Utest"} -> {"57", type}
      [] type \in {"OEM1", "SerialReader", "X15_02_24"} -> {"57"}
      [] type = "58EU" -> {"58"}
      [] type = "PoPLC58" -> {"PoPLC58"}
      [] type = "16RF" -> {"PoKeys16RF"}
      [] OTHER -> old

Count(pins, encoders, basic, pwm) ==
    [iPinCount |-> pins, iEncodersCount |-> encoders, iBasicEncoderCount |-> basic,
     iPWMCount |-> pwm]
NoCounts == Count(0, 0, 0, 0)
\* A slip for Counts: the number of the last pin, counted from one, plus one.
Counts_OneMore(type) == Count(56, 26, 25, 6)

\* The numbers of pins, encoders and PWM outputs; the PoKeys58EU is left at zero.
Counts(type) ==
    CASE type \in {"55v1", "55v2", "55v3"} -> Count(55, 25, 25, 6)
      [] type \in {"56U", "56E", "57E_v0", "57U_v0", "57U", "57E", "57CNC", "57CNCpro4x25",
                   "X15_02_24"} -> Count(55, 26, 25, 6)
      [] type \in {"27U", "27E", "57Utest"} -> Count(55, 0, 0, 0)
      [] type = "57CNCdb25" -> Count(17, 0, 0, 6)
      [] type = "PoPLC58" -> Count(27, 0, 0, 0)
      [] type = "16RF" -> Count(16, 0, 0, 0)
      [] type = "OEM1" -> Count(55, 5, 5, 0)
      [] type = "SerialReader" -> Count(55, 5, 5, 3)
      [] OTHER -> NoCounts

\* When a series has a capability, before the special handling of some types.
\* earlyFirmware: a PoKeys56 of firmware 3.0.0 to 3.0.12.
CapabilityIf(type, earlyFirmware) ==
    LET usb == devUSB(type)
        eth == devEth(type)
        s   == Series(type)
        later == s \in {"56", "57"}
    IN  [iKeyMapping |-> usb, iTriggeredKeyMapping |-> usb /\ s # "27",
         iKeyRepeatDelay |-> usb /\ s # "27", iDigitalCounters |-> later,
         iJoystickButtonAxisMapping |-> usb, iJoystickAnalogToDigitalMapping |-> usb,
         iFastEncoders |-> s # "27", iUltraFastEncoders |-> later, iMacros |-> usb,
         iMatrixKeyboard |-> TRUE, iMatrixKeyboardTriggeredMapping |-> usb, iPoNET |-> later,
         iLCD |-> s # "27", iMatrixLED |-> s # "27", iConnectionSignal |-> s # "27",
         iPoExtBus |-> s # "27", iInitOutputsStart |-> s # "55", iprotI2C |-> s # "55",
         iprot1wire |-> later,
         iAdditionalOptions |-> s = "57" \/ (s = "56" /\ ~earlyFirmware),
         iCustomDeviceName |-> s # "27", iPoTLog27support |-> s \in {"56", "27"},
         iSensorList |-> s \in {"56", "27"}, iWebInterface |-> eth,
         iFailSafeSettings |-> later, iJoystickHATswitch |-> later /\ usb,
         iAnalogInputs |-> TRUE, iAnalogFiltering |-> TRUE, iLoadStatus |-> s \notin {"16", "27"}]

\* "Special handling": what some types of the series lack after all, or have.
Exceptions(type) ==
    LET analog == {"iAnalogInputs", "iAnalogFiltering", "iSensorList"}
        common == {"iDigitalCounters", "iFastEncoders", "iUltraFastEncoders", "iLCD",
                   "iMatrixLED", "iprot1wire"}
    IN  CASE type = "57CNCdb25" -> [lacks |-> common \cup analog, has |-> {}]
          [] type = "57Utest"   -> [lacks |-> common, has |-> analog]
          [] type = "X15_02_24" ->
                [lacks |-> common \cup analog \cup
                           {"iMatrixKeyboard", "iPulseEngine", "iPulseEnginev2"},
                 has |-> {}]
          [] OTHER -> [lacks |-> {}, has |-> {}]

\* The capabilities of the info structure, before the pulse engine is known: the
\* newer series have the analog inputs and the load status only.
Capabilities(type, earlyFirmware) ==
    LET supported == CapabilityIf(type, earlyFirmware)
        considered == IF type \in Bootloaders THEN {}
                      ELSE IF Series(type) \in {"27", "55", "56", "57"} THEN DOMAIN supported
                      ELSE {"iAnalogInputs", "iAnalogFiltering", "iLoadStatus"}
    IN  ({c \in considered : supported[c]} \ Exceptions(type).lacks) \cup Exceptions(type).has

\* The pulse engine: by firmware and activation on the PoKeys56 series, and
\* always on the PoKeys57 series - the exceptions above notwithstanding.
PulseEngine(type, major, minor, activated) ==
    CASE Series(type) = "56" /\ major = 32 ->
            IF minor >= 59 \/ activated THEN {"iPulseEngine"} ELSE {}
      [] Series(type) = "56" /\ major = 33 -> {"iPulseEnginev2"}
      [] Series(type) = "57" -> {"iPulseEnginev2", "iEasySensors"}
      [] OTHER -> {}

\* PK_FillPWMPinNumbers(): the pins of the PWM channels.
PWMpinIDs(type) ==
    IF type = "57CNCdb25" THEN <<17, 1, 14, 2, 3, 16>> ELSE <<22, 21, 20, 19, 18, 17>>

(***************************************************************************)
(* Digital counters and pin capabilities.                                  *)
(***************************************************************************)
counterSupported == {0, 1, 4, 5, 8, 10, 14, 15} \cup 18..27 \cup {40, 41, 42, 43, 45, 47, 48}
counters_57CNC == 0..5 \cup 8..10 \cup {14, 15, 18, 19} \cup 32..37 \cup 40..43
counters_57CNCpro4x25 == {18}
\* A slip for IsCounterAvailableByDevice: the series is looked at first.
IsCounterAvailableByDevice_SeriesFirst(mask, pin) ==
    /\ mask \cap {"Bootloader", "PoPLC58", "57CNCdb25"} = {}
    /\ pin < 55
    /\ mask \cap {"56", "57"} # {} /\ pin \in counterSupported

\* PK_IsCounterAvailableByDevice(): by the mask bits of the device.
IsCounterAvailableByDevice(mask, pin) ==
    /\ mask \cap {"Bootloader", "PoPLC58", "57CNCdb25"} = {}
    /\ pin < 55
    /\ CASE "57CNC" \in mask -> pin \in counters_57CNC
         [] "57CNCpro4x25" \in mask -> pin \in counters_57CNCpro4x25
         [] OTHER -> mask \cap {"56", "57"} # {} /\ pin \in counterSupported

\* PK_IsCounterAvailableByTypeID(): by the type.
IsCounterAvailableByTypeID(type, pin) ==
    CASE type \in {"56E", "56U", "57E", "57E_v0", "57U", "57U_v0"} -> pin \in counterSupported
      [] type = "57CNC" -> pin \in counters_57CNC
      [] type = "57CNCpro4x25" -> pin \in counters_57CNCpro4x25
      [] OTHER -> FALSE

DI  == {"digitalInput", "keyboardMapping", "triggeredInput"}
DO  == {"digitalOutput"}
DIO == DI \cup DO

\* deviceDesc[]: the capabilities of single pins (1-based in the table).
Described == {"57CNC", "57CNCpro4x25", "57CNCdb25", "OEM1"}
deviceDesc(type) ==
    CASE type = "57CNC" ->
           {<<1..2, DIO \cup {"digitalCounter"}>>, <<3..6, DI \cup {"digitalCounter"}>>,
            <<{1}, {"fastEncoder1A"}>>, <<{2}, {"fastEncoder1B"}>>, <<{3}, {"fastEncoder2A"}>>,
            <<{4}, {"fastEncoder2B"}>>, <<{5}, {"fastEncoder3A"}>>, <<{6}, {"fastEncoder3B"}>>,
            <<{8, 12, 13}, DIO>>, <<{9, 10, 11, 15, 16, 19}, DI \cup {"digitalCounter"}>>,
            <<{14, 52}, DI>>, <<{17, 21, 22}, DO \cup {"PWMOut"}>>,
            <<{18, 20}, DIO \cup {"PWMOut"}>>, <<23..26 \cup 28..32, DIO>>,
            <<33..38, DIO \cup {"digitalCounter"}>>,
            <<41..44, DIO \cup {"digitalCounter", "analogInput"}>>,
            <<{45}, DIO \cup {"analogInput"}>>}
      [] type = "57CNCpro4x25" ->
           {<<{8, 12, 13} \cup 31..38, DIO>>, <<{17, 20}, DO \cup {"PWMOut"}>>,
            <<{14, 18, 19} \cup 23..26 \cup 28..30 \cup {52}, DI>>,
            <<41..44, DI \cup {"analogInput"}>>}
      [] type = "57CNCdb25" -> {<<1..9 \cup {14, 16, 17}, DO>>, <<10..13 \cup {15}, DI>>}
      [] OTHER -> {<<{1, 14, 16, 17}, DO>>, <<10..13, DI>>}

\* pinCaps[]: the capabilities of ranges of pins, by mask bits.
PinCap(cap, first, last, check, devices) ==
    [cap |-> cap, pins |-> first..last, check |-> check, devices |-> devices]
pinCaps ==
    LET all == {"55", "56", "57"}
        usb == {"55", "57U", "56U"}
    IN  {PinCap("digitalInput", 1, 55, FALSE, all \cup {"27"}),
         PinCap("digitalOutput", 1, 55, FALSE, all \cup {"27"}),
         PinCap("analogInput", 43, 47, FALSE, {"55"}),
         PinCap("analogInput", 41, 47, FALSE, {"56", "57", "27"}),
         PinCap("analogOutput", 43, 43, FALSE, {"55"}),
         PinCap("keyboardMapping", 1, 55, FALSE, usb), PinCap("triggeredInput", 1, 55, FALSE, usb),
         PinCap("digitalCounter", 1, 55, TRUE, {"56", "57"}),
         PinCap("PWMOut", 17, 22, FALSE, all),
         PinCap("fastEncoder1A", 1, 1, FALSE, all), PinCap("fastEncoder1B", 2, 2, FALSE, all),
         PinCap("fastEncoder1I", 9, 9, TRUE, all),
         PinCap("fastEncoder2A", 3, 3, TRUE, {"55"}), PinCap("fastEncoder2B", 4, 4, TRUE, {"55"}),
         PinCap("fastEncoder2A", 5, 5, TRUE, all), PinCap("fastEncoder2B", 6, 6, TRUE, all),
         PinCap("fastEncoder2I", 11, 11, TRUE, all),
         PinCap("fastEncoder3A", 15, 15, FALSE, all), PinCap("fastEncoder3B", 16, 16, FALSE, all),
         PinCap("fastEncoder3I", 27, 27, TRUE, all),
         PinCap("digitalInput", 9, 19, FALSE, {"PoPLC58"}),
         PinCap("digitalOutput", 20, 27, FALSE, {"PoPLC58"}),
         PinCap("analogInput", 1, 8, FALSE, {"PoPLC58"}),
         PinCap("MFanalogInput", 1, 8, FALSE, {"PoPLC58"})}

\* PK_CheckPinCapabilityByDevice(): at most one row fits a device's mask, pin and capability.
CheckPinCapabilityByDevice(mask, pin, cap) ==
    \E row \in pinCaps :
        /\ row.cap = cap /\ row.devices \cap mask # {} /\ (pin + 1) \in row.pins
        /\ \/ ~row.check
           \/ cap = "digitalCounter" /\ IsCounterAvailableByDevice(mask, pin)
           \/ cap # "digitalCounter" /\ "56" \in mask

\* The mask PK_CheckPinCapabilityByTypeID() makes of a type: for the PoKeys27
\* it adds the number of the type (21 and 20) where the mask bit is meant.
MaskOfTypeID(type) ==
    CASE type = "27E" -> {"27", "Bootloader", "Bootloader56", "Bootloader56E"}
      [] type = "27U" -> {"27", "Bootloader56", "Bootloader56E"}
      [] type \in {"55v1", "55v2", "55v3"} -> {"55"}
      [] type \in {"56E", "56U", "57E", "57E_v0", "57U", "57U_v0", "58EU", "PoPLC58"} ->
            DeviceMask(type, {})
      [] OTHER -> {}

\* PK_CheckPinCapabilityByTypeID(): described pin by pin, or by ranges.
CheckPinCapabilityByTypeID(type, pin, cap) ==
    IF type \in Described
    THEN \E row \in deviceDesc(type) : (pin + 1) \in row[1] /\ cap \in row[2]
    ELSE CheckPinCapabilityByDevice(MaskOfTypeID(type), pin, cap)
=============================================================================
