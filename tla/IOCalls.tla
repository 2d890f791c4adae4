------------------------------ MODULE IOCalls ------------------------------
(***************************************************************************)
(* The synchronous calls for pins, PWM outputs, encoders and the matrix    *)
(* keyboard: PoKeysLibIO.c, PoKeysLibEncoders.c and PoKeysLibMatrixKB.c.   *)
(* d is what the device structure says of the device: d.counts, d.flags    *)
(* and d.mask as PK_DeviceDataGet() left them.                             *)
(***************************************************************************)
EXTENDS Requests, FiniteSets, DeviceTypes

Has(d, capability) == capability \in d.flags
IfPins(d, fields) == IF d.counts.iPinCount = 0 THEN {} ELSE fields
IfEncoders(d, fields) == IF d.counts.iBasicEncoderCount = 0 THEN {} ELSE fields

(***************************************************************************)
(* PoKeysLibIO.c                                                           *)
(***************************************************************************)
KeyMappingFields == <<"MappingType", "KeyCodeMacroID", "KeyModifier">>
TriggeredFields == <<"downKeyCodeMacroID", "downKeyModifier", "upKeyCodeMacroID", "upKeyModifier">>

\* Part 0 of these fields are the mappings of the pins that the structure knows as
\* inputs - as triggered inputs, in the second list -, part 1 those of other pins.
OtherPins == ToSet(KeyMappingFields \o TriggeredFields) \X {1}

\* The functions, and how inputs and outputs are inverted.
PinFunctionFields == {"PinFunction", "PinCap_invertPin", "DigitalValueSet_invert"}

\* The mapping of a pin that is not an input is stored as zero, whatever the
\* answer has for it, and sent as zero, whatever the structure has for it.
KeyMappingGet(d, field) ==
    Clearing(Items(IfPins(d, {field}), 1), Get(IfPins(d, {field})))
KeyMappingSet(d, field) ==
    Zeroing(Items(IfPins(d, {field}), 1), Set(IfPins(d, {field})))

\* The counter options of pins with a counter, part 0, are read; those of all
\* pins are sent.
PK_PinConfigurationGet(d) ==
    Get(IfPins(d, PinFunctionFields))
    \o When(Has(d, "iDigitalCounters"), Get(IfPins(d, {"CounterOptions"})))
    \o When(Has(d, "iKeyMapping"),
            FlattenSeq([k \in 1..3 |-> KeyMappingGet(d, KeyMappingFields[k])])
            \o When(Has(d, "iTriggeredKeyMapping"),
                    FlattenSeq([k \in 1..4 |-> KeyMappingGet(d, TriggeredFields[k])])))

PK_PinConfigurationSet(d) ==
    Set(IfPins(d, PinFunctionFields))
    \o When(Has(d, "iDigitalCounters"),
            ExchangeItems(IfPins(d, {"CounterOptions"}) \X {0, 1}, {}))
    \o When(Has(d, "iKeyMapping"),
            FlattenSeq([k \in 1..3 |-> KeyMappingSet(d, KeyMappingFields[k])])
            \o When(Has(d, "iTriggeredKeyMapping"),
                    FlattenSeq([k \in 1..4 |-> KeyMappingSet(d, TriggeredFields[k])])))

PK_DigitalIOSet(d) == Set(IfPins(d, {"DigitalValueSet", "preventUpdate"}))
PK_DigitalIOGet(d) == Get(IfPins(d, {"DigitalValueGet"}))
PK_DigitalIOSetGet(d) ==
    Exchange(IfPins(d, {"DigitalValueSet", "preventUpdate"}), IfPins(d, {"DigitalValueGet"}))
PK_DigitalIOSetSingle(d, pinID) ==
    Require(pinID < d.counts.iPinCount, "PK_ERR_PARAMETER")
    \o Takes({"pinValue"}) \o Refusable(Set({"pinValue"}))
PK_DigitalIOGetSingle(d, pinID) ==
    Require(pinID < d.counts.iPinCount, "PK_ERR_PARAMETER") \o Refusable(Get({"pinValue"}))

PK_AnalogIOGet(d) ==
    Require(Has(d, "iAnalogInputs"), "PK_ERR_NOT_SUPPORTED") \o Get({"AnalogValue"})
PK_AnalogRCFilterGet(d) ==
    Require(Has(d, "iAnalogFiltering"), "PK_ERR_NOT_SUPPORTED") \o Get({"AnalogRCFilter"})
PK_AnalogRCFilterSet(d) ==
    Require(Has(d, "iAnalogFiltering"), "PK_ERR_NOT_SUPPORTED") \o Set({"AnalogRCFilter"})

\* The counters are read thirteen at a time.
CounterParts(d) ==
    (Cardinality({pin \in 0..54 : pin < d.counts.iPinCount /\
                                  IsCounterAvailableByDevice(d.mask, pin)}) + 12) \div 13
PK_DigitalCounterGet(d) ==
    Require(Has(d, "iDigitalCounters"), "PK_ERR_NOT_SUPPORTED")
    \o EachPart(CounterParts(d), {}, {"DigitalCounterValue"})
PK_DigitalCounterClear(d) == Command

\* The enable flags and duty cycles are taken from the HAL pins, whatever the
\* device structure held.
PWMFields == {"PWMenabledChannels", "PWMduty", "PWMperiod"}
PK_PWMConfigurationSet(d) ==
    Assign({"PWMenabledChannels", "PWMduty"}, "pin") \o Set(PWMFields)
PK_PWMUpdate(d) == Assign({"PWMenabledChannels", "PWMduty"}, "pin") \o Set(PWMFields)
PK_PWMConfigurationGet(d) == Get(PWMFields)
PK_PWMConfigurationSetDirectly(d) ==
    FailingWith("PK_ERR_GENERIC", PK_PWMConfigurationGet(d))
    \o Takes({"PWMperiod", "PWMenabledChannels"}) \o Assign({"PWMduty"}, "zero")
    \o PK_PWMConfigurationSet(d)
PK_PWMUpdateDirectly(d) == Takes({"PWMduty"}) \o PK_PWMUpdate(d)
\* A slip for PK_SL_PWM_SetPeriod: the settings are read after the period is stored.
PK_SL_PWM_SetPeriod_ReadLate(d) ==
    Takes({"PWMperiod"}) \o FailingWith("PK_ERR_GENERIC", PK_PWMConfigurationGet(d))
    \o PK_PWMConfigurationSet(d)

PK_SL_PWM_SetPeriod(d) ==
    FailingWith("PK_ERR_GENERIC", PK_PWMConfigurationGet(d))
    \o Takes({"PWMperiod"}) \o PK_PWMConfigurationSet(d)
PK_SL_PWM_SetChannelEnabled(d) ==
    Takes({"PWMenabledChannels", "PWMduty"}) \o PK_PWMConfigurationSet(d)

\* The device echoes the data; an echo that differs is PK_ERR_GENERIC.
PK_PoExtBusSet(d) ==
    IF Has(d, "iPoExtBus") THEN Refusable(Set({"PoExtBusData"})) ELSE Command
PK_PoExtBusGet(d) == Get(IF Has(d, "iPoExtBus") THEN {"PoExtBusData"} ELSE {})

(***************************************************************************)
(* PoKeysLibEncoders.c                                                     *)
(***************************************************************************)
EncoderPins == {"channelApin", "channelBpin"}
FastEncoderFields == {"FastEncodersConfiguration", "FastEncodersOptions"}
UltraFastFields == {"UltraFastEncoderConfiguration", "UltraFastEncoderOptions",
                    "UltraFastEncoderFilter"}
\* A slip for PK_EncoderConfigurationGet: the ultra-fast encoder is left out.
PK_EncoderConfigurationGet_NoUltraFast(d) ==
    Require(d.counts.iBasicEncoderCount > 0, "PK_ERR_NOT_SUPPORTED")
    \o Get({"encoderOptions"}) \o Get(EncoderPins)
    \o When(Has(d, "iKeyMapping"), Get({"dirAkeyCode", "dirAkeyModifier"})
                                   \o Get({"dirBkeyCode", "dirBkeyModifier"}))
    \o When(Has(d, "iFastEncoders"), Get(FastEncoderFields))

PK_EncoderConfigurationGet(d) ==
    Require(d.counts.iBasicEncoderCount > 0, "PK_ERR_NOT_SUPPORTED")
    \o Get({"encoderOptions"}) \o Get(EncoderPins)
    \o When(Has(d, "iKeyMapping"), Get({"dirAkeyCode", "dirAkeyModifier"})
                                   \o Get({"dirBkeyCode", "dirBkeyModifier"}))
    \o When(Has(d, "iFastEncoders"), Get(FastEncoderFields))
    \o When(Has(d, "iUltraFastEncoders"), Get(UltraFastFields))

PK_EncoderConfigurationSet(d) ==
    Require(d.counts.iBasicEncoderCount > 0, "PK_ERR_NOT_SUPPORTED")
    \o Set({"encoderOptions"}) \o Set(EncoderPins)
    \o When(Has(d, "iKeyMapping"), Set({"dirAkeyCode", "dirAkeyModifier"})
                                   \o Set({"dirBkeyCode", "dirBkeyModifier"}))
    \o When(Has(d, "iFastEncoders"), Set(FastEncoderFields))
    \o When(Has(d, "iUltraFastEncoders"), Set(UltraFastFields))

\* Encoders 0..12 are part 1, 13..24 (or 25) part 2.  Part 2 is only read from
\* devices without fast encoders or with an ultra-fast one; whether the
\* encoder test results arrive makes no difference to the result.
PK_EncoderValuesGet(d) ==
    LET n == d.counts.iBasicEncoderCount IN
    When(n >= 13, ExchangePart(1, {}, {"encoderValue"}))
    \o When(n >= 25 /\ (~Has(d, "iFastEncoders") \/ Has(d, "iUltraFastEncoders")),
            ExchangePart(2, {}, {"encoderValue"}))
    \o When(n >= 25 /\ Has(d, "iFastEncoders") /\ Has(d, "iUltraFastEncoders"),
            Skipping(Get({"EncoderIndexCount", "EncoderTicksPerRotation", "EncoderVelocity"})))

PK_EncoderValuesSet(d) ==
    LET n == d.counts.iBasicEncoderCount IN
    When(n >= 13, ExchangePart(1, {"encoderValue"}, {}))
    \o When(n >= 25, ExchangePart(2, {"encoderValue"}, {}))

(***************************************************************************)
(* PoKeysLibMatrixKB.c                                                     *)
(***************************************************************************)
MatrixKBLayout == {"matrixKBheight", "matrixKBwidth", "matrixKBrowsPins", "matrixKBcolumnsPins",
                   "macroMappingOptions"}
KeyMappings(d) ==
    {"keyMappingKeyCode", "keyMappingKeyModifier"} \cup
        (IF Has(d, "iMatrixKeyboardTriggeredMapping") THEN {"keyMappingTriggeredKey"} ELSE {})
UpMappings == {"keyMappingKeyCodeUp", "keyMappingKeyModifierUp"}

\* Row k of the key mappings: a request that fails is passed over, with the
\* request for the mappings of keys going up that would follow it.
KeyMappingRowGet(d, k) ==
    Skipping(ExchangePart(k, {}, KeyMappings(d)))
    \o When(Has(d, "iMatrixKeyboardTriggeredMapping"),
            Nested(Skipping(ExchangePart(k, {}, UpMappings))))

PK_MatrixKBConfigurationGet(d) ==
    When(Has(d, "iMatrixKeyboard"),
         Get(MatrixKBLayout \cup {"matrixKBconfiguration", "matrixKBScanningDecimation"}))
    \o When(Has(d, "iKeyMapping"), FlattenSeq([k \in 1..8 |-> KeyMappingRowGet(d, k)]))

\* The keyboard is switched off while its mappings are written.
KeyMappingRowSet(d, k) ==
    ExchangePart(k, KeyMappings(d), {})
    \o When(Has(d, "iMatrixKeyboardTriggeredMapping"), ExchangePart(k, UpMappings, {}))

PK_MatrixKBConfigurationSet(d) ==
    When(Has(d, "iMatrixKeyboard"),
         Zeroing(Items({"matrixKBconfiguration"}, 0), Set(MatrixKBLayout))
         \o Set({"matrixKBScanningDecimation"}))
    \o When(Has(d, "iKeyMapping"), FlattenSeq([k \in 1..8 |-> KeyMappingRowSet(d, k)]))
    \o When(Has(d, "iMatrixKeyboard"), Set(MatrixKBLayout \cup {"matrixKBconfiguration"}))
\* A slip for PK_MatrixKBStatusGet: the answer overwrites the configuration too.
PK_MatrixKBStatusGet_Whole(d) ==
    When(Has(d, "iMatrixKeyboard"), Get({"matrixKBvalues", "matrixKBconfiguration"}))

PK_MatrixKBStatusGet(d) == When(Has(d, "iMatrixKeyboard"), Get({"matrixKBvalues"}))
=============================================================================
