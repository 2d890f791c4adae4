---------------------------- MODULE AsyncIOCalls ----------------------------
(***************************************************************************)
(* The asynchronous calls for pins, PWM outputs, encoders and the matrix   *)
(* keyboard: PoKeysLibIOAsync.c, PoKeysLibEncodersAsync.c and              *)
(* PoKeysLibMatrixKBAsync.c.  Items and d are those of the synchronous     *)
(* calls in IOCalls.                                                       *)
(***************************************************************************)
EXTENDS IOCalls, AsyncRequests

(***************************************************************************)
(* PoKeysLibIOAsync.c                                                      *)
(***************************************************************************)
\* A slip for PK_PinConfigurationGetAsync: the key mappings are asked for
\* before the pin functions their parsers look at.
PK_PinConfigurationGetAsync_MappingsFirst(d) ==
    When(Has(d, "iKeyMapping"),
         FlattenSeq([k \in 1..3 |->
             Skipping(Needing({"PinFunction"}, KeyMappingGet(d, KeyMappingFields[k])))]))
    \o Skipping(Get(IfPins(d, PinFunctionFields)))

\* The parsers of the key mappings store zero for a pin whose function is not
\* (yet) known to be an input.  The counter options are asked for with the
\* parameters of the request that sets the pin functions, and no data.  The
\* answers 13 and 14 are stored the wrong way round.
PK_PinConfigurationGetAsync(d) ==
    LET Mapping(field) == Needing({"PinFunction"}, KeyMappingGet(d, field)) IN
    Skipping(Get(IfPins(d, PinFunctionFields))
        \o When(Has(d, "iDigitalCounters"),
                Misreading({"CounterOptions"},
                    Garbled(PinFunctionFields,
                        Exchange(IfPins(d, PinFunctionFields), IfPins(d, {"CounterOptions"})))))
        \o When(Has(d, "iKeyMapping"),
                FlattenSeq([k \in 1..3 |-> Mapping(KeyMappingFields[k])]))
        \o When(Has(d, "iTriggeredKeyMapping"),
                FlattenSeq([k \in 1..4 |->
                    Misreading({"upKeyCodeMacroID", "upKeyModifier"},
                               Mapping(TriggeredFields[k]))])))

PK_PinConfigurationSetAsync(d) ==
    Skipping(PK_PinConfigurationSet(d))

\* The outputs are handed over as the target of the answer: the request
\* carries zeros, and the answer is copied over device->request.
PK_DigitalIOSetAsync(d) ==
    ReturnIfUnchanged({"DigitalValueSet", "preventUpdate"}, "last_dio_out")
    \o SetGarbled(IfPins(d, {"DigitalValueSet", "preventUpdate"}))
PK_DigitalIOGetAsync(d) == Get(IfPins(d, {"DigitalValueGet"}))
PK_DigitalIOSetGetAsync(d) ==
    LET outputs == IfPins(d, {"DigitalValueSet", "preventUpdate"})
    IN  Garbled(outputs, Exchange(outputs, IfPins(d, {"DigitalValueGet"})))

IsPin(d, pinIndex) == Require(pinIndex < d.counts.iPinCount, "PK_ERR_GENERIC")
PK_DigitalOutputSetSingleAsync(d, pinIndex) ==
    IsPin(d, pinIndex) \o Takes({"DigitalValueSet"}) \o PK_DigitalIOSetGetAsync(d)
PK_DigitalInputGetSingleAsync(d, pinIndex) == IsPin(d, pinIndex) \o PK_DigitalIOGetAsync(d)
PK_DigitalOutputToggleAsync(d, pinIndex) == PK_DigitalOutputSetSingleAsync(d, pinIndex)

\* The values are taken from device->response, not from the answer.
PK_AnalogIOGetAsync(d) == Misreading({"AnalogValue"}, PK_AnalogIOGet(d))
PK_AnalogRCFilterGetAsync(d) == PK_AnalogRCFilterGet(d)
PK_AnalogRCFilterSetAsync(d) == Garbled({"AnalogRCFilter"}, PK_AnalogRCFilterSet(d))

\* Thirteen counters at most; which, is not sent, and the answer is taken to be
\* of the pins that device->request happens to name.
PK_DigitalCounterGetAsync(d) ==
    Require(Has(d, "iDigitalCounters"), "PK_ERR_NOT_SUPPORTED")
    \o When(CounterParts(d) > 0,
            Misreading({"DigitalCounterValue"}, ExchangePart(1, {}, {"DigitalCounterValue"})))
PK_DigitalCounterClearAsync(d) == Command

PK_PWMConfigurationSetAsync(d) == Garbled(PWMFields, PK_PWMConfigurationSet(d))
PK_PWMConfigurationGetAsync(d) == PK_PWMConfigurationGet(d)
PK_PWMUpdateAsync(d) == Garbled(PWMFields, PK_PWMUpdate(d))
\* These two send what they are given and leave the structure as it is.
PK_PWMConfigurationSetDirectlyAsync(d) == SetGarbled({"period", "enabledChannels"})
PK_PWMUpdateDirectlyAsync(d) == SetGarbled({"PWMenabledChannels", "dutyCycles", "PWMperiod"})
PK_PWMSetSingleChannelAsync(d, channel) ==
    Require(channel < 6, "PK_ERR_GENERIC") \o Takes({"PWMduty"}) \o SetGarbled(PWMFields)
PK_PWMGetPinAssignmentsAsync(d) == Get({"PWMpinIDs"})

HasPoExtBus(d) == Require(Has(d, "iPoExtBus"), "PK_ERR_NOT_SUPPORTED")
PK_PoExtBusSetAsync(d) ==
    HasPoExtBus(d) \o Garbled({"PoExtBusData"}, Exchange({"PoExtBusData"}, {"PoExtBusData"}))
PK_PoExtBusGetAsync(d) == HasPoExtBus(d) \o Get({"PoExtBusData"})

(***************************************************************************)
(* PoKeysLibEncodersAsync.c                                                *)
(***************************************************************************)
HasEncoders(d) == Require(d.counts.iBasicEncoderCount > 0, "PK_ERR_NOT_SUPPORTED")

\* What the parsers store; the options go to the encoder that the request's number happens to name; the
\* answers to the next three requests are not looked at.
PK_EncoderOptionsParse == Misreading({"encoderOptions"}, Get({"encoderOptions"}))
PK_FastEncodersOptionsParse == Get(FastEncoderFields)
PK_UltraFastEncoderOptionsParse == Get(UltraFastFields)
PK_EncoderConfigurationGetAsync(d) ==
    HasEncoders(d)
    \o Skipping(PK_EncoderOptionsParse \o Command
        \o When(Has(d, "iKeyMapping"), Command \o Command)
        \o When(Has(d, "iFastEncoders"), PK_FastEncodersOptionsParse)
        \o When(Has(d, "iUltraFastEncoders"), PK_UltraFastEncoderOptionsParse))

\* The second half of each table is sent one byte too far, and the settings of
\* the fast encoders where the device looks for nothing.
PK_EncoderConfigurationSetAsync(d) ==
    HasEncoders(d)
    \o Skipping(Set({"encoderOptions"}) \o Garbled({"channelBpin"}, Set(EncoderPins))
        \o When(Has(d, "iKeyMapping"),
                Garbled({"dirAkeyModifier"}, Set({"dirAkeyCode", "dirAkeyModifier"}))
                \o Garbled({"dirBkeyModifier"}, Set({"dirBkeyCode", "dirBkeyModifier"})))
        \o When(Has(d, "iFastEncoders"), SetGarbled(FastEncoderFields))
        \o When(Has(d, "iUltraFastEncoders"), SetGarbled(UltraFastFields)))

\* Twelve values of each part, and the thirteenth.
EncoderPart == {"encoderValue", "encoderValue13"}
PK_EncoderValuesGetAsync_ProcessPage(n) == ExchangePart(n, {}, EncoderPart)
PK_EncoderValuesGetAsync_ProcessUltraFast ==
    Get({"EncoderIndexCount", "EncoderTicksPerRotation", "EncoderVelocity"})
PK_EncoderValuesGetAsync(d) ==
    PK_EncoderValuesGetAsync_ProcessPage(1)
    \o When(d.counts.iBasicEncoderCount >= 25,
            PK_EncoderValuesGetAsync_ProcessPage(2)
            \o When(Has(d, "iUltraFastEncoders"), PK_EncoderValuesGetAsync_ProcessUltraFast))

\* The thirteenth value of each part is written past the end of a local array.
PK_EncoderValuesSetAsync(d) ==
    LET Part(k) == Unsure({"encoderValue13"}, ExchangePart(k, EncoderPart, {}))
    IN  When(d.counts.iBasicEncoderCount >= 13, Part(1))
        \o When(d.counts.iBasicEncoderCount >= 25, Part(2))

PK_EncoderRawValueResetAsync(d) == Command
PK_EncoderSingleResetAsync(d, encoderIndex) ==
    Require(encoderIndex < d.counts.iEncodersCount, "PK_ERR_GENERIC")
    \o PK_EncoderRawValueResetAsync(d)
PK_EncoderAllResetAsync(d) == PK_EncoderRawValueResetAsync(d)

(***************************************************************************)
(* PoKeysLibMatrixKBAsync.c: the key mappings are sent in eight blocks, of *)
(* which the first two are explored.                                       *)
(***************************************************************************)
KeyBlocks == 2

PK_MKB_KeyCodeParse(d, n) == ExchangePart(n, {}, KeyMappings(d))
PK_MKB_KeyCodeUpParse(n)  == ExchangePart(n, {}, UpMappings)
KeyBlockGet(d, n) ==
    PK_MKB_KeyCodeParse(d, n) \o When(Has(d, "iMatrixKeyboardTriggeredMapping"), PK_MKB_KeyCodeUpParse(n))
\* A slip for PK_MatrixKBConfigurationGetAsync: the scanning decimation is left out.
PK_MatrixKBConfigurationGetAsync_NoDecimation(d) ==
    When(Has(d, "iMatrixKeyboard"), Get(MatrixKBLayout \cup {"matrixKBconfiguration"}))
    \o When(Has(d, "iKeyMapping"),
            FlattenSeq([n \in 1..KeyBlocks |-> KeyBlockGet(d, n)]))

PK_MKB_ConfigParse ==
    Get(MatrixKBLayout \cup {"matrixKBconfiguration", "matrixKBScanningDecimation"})
PK_MatrixKBConfigurationGetAsync(d) ==
    When(Has(d, "iMatrixKeyboard"), PK_MKB_ConfigParse)
    \o When(Has(d, "iKeyMapping"),
            FlattenSeq([n \in 1..KeyBlocks |-> KeyBlockGet(d, n)]))

\* A slip for PK_MatrixKBConfigurationSetAsync: the keyboard is not switched on again.
PK_MatrixKBConfigurationSetAsync_StaysOff(d) ==
    When(Has(d, "iMatrixKeyboard"),
         Zeroing(Items({"matrixKBconfiguration"}, 0), Set(MatrixKBLayout))
         \o Set({"matrixKBScanningDecimation"}))
    \o When(Has(d, "iKeyMapping"), FlattenSeq([n \in 1..KeyBlocks |-> KeyMappingRowSet(d, n)]))

PK_MatrixKBConfigurationSetAsync(d) ==
    When(Has(d, "iMatrixKeyboard"),
         Zeroing(Items({"matrixKBconfiguration"}, 0), Set(MatrixKBLayout))
         \o Set({"matrixKBScanningDecimation"}))
    \o When(Has(d, "iKeyMapping"), FlattenSeq([n \in 1..KeyBlocks |-> KeyMappingRowSet(d, n)]))
    \o When(Has(d, "iMatrixKeyboard"), Set(MatrixKBLayout \cup {"matrixKBconfiguration"}))

\* A slip for PK_MatrixKBStatusGetAsync: the answer overwrites the configuration too.
PK_MatrixKBStatusGetAsync_Whole(d) ==
    Require(Has(d, "iMatrixKeyboard"), "PK_ERR_NOT_SUPPORTED")
    \o Get({"matrixKBvalues", "matrixKBconfiguration"})

PK_MKB_StatusParse == Get({"matrixKBvalues"})
PK_MatrixKBStatusGetAsync(d) ==
    Require(Has(d, "iMatrixKeyboard"), "PK_ERR_NOT_SUPPORTED") \o PK_MKB_StatusParse
=============================================================================
