------------------------------ MODULE BusCalls ------------------------------
(***************************************************************************)
(* The synchronous calls for the serial buses of the device:               *)
(* PoKeysLibI2C.c, PoKeysLib1Wire.c, PoKeysLibSPI.c, PoKeysLibUART.c and   *)
(* PoKeysLibCAN.c.  A transfer is started by one request and its result    *)
(* fetched by another; nothing in the library relates the two.             *)
(***************************************************************************)
EXTENDS Requests

PK_I2CSetStatus(d)  == SetArguments({"activated"})
PK_I2CGetStatus(d)  == Get({"activated"})
\* At most 32 bytes: what is longer is cut off.
PK_I2CWriteStart(d) == SetArguments({"address", "buffer"})
PK_I2CWriteAndReadStart(d) == SetArguments({"address", "buffer", "iDataLengthRead"})
PK_I2CWriteStatusGet(d) == Get({"status"})
PK_I2CReadStart(d)  == SetArguments({"address", "iDataLength"})
\* More than 32 bytes are refused.
PK_I2CReadStatusGet(d) == Refusable(Get({"status", "iReadBytes", "buffer"}))
PK_I2CBusScanStart(d) == Command
PK_I2CBusScanGetResults(d) == Get({"status", "presentDevices"})

PK_1WireStatusSet(d) == SetArguments({"activated"})
PK_1WireStatusGet(d) == Get({"activated"})
PK_1WireWriteReadStart(d) == SetArguments({"WriteCount", "ReadCount", "data"})
PK_1WireWriteReadStartEx(d) == SetArguments({"WriteCount", "ReadCount", "data", "pinID"})
\* More than 16 bytes are refused.
PK_1WireReadStatusGet(d) ==
    RefusedWith("PK_ERR_PARAMETER", Get({"readStatus", "ReadCount", "data"}))
PK_1WireBusScanStart(d) == SetArguments({"pinID"})
PK_1WireBusScanGetResults(d) == Get({"operationStatus", "scanResult", "deviceROM"})
PK_1WireBusScanContinue(d) == Command
PK_1WireBusScanStop(d) == Command

PK_SPIConfigure(d) == SetArguments({"prescaler", "frameFormat"})
PK_SPIWrite(d) == Takes({"buffer", "pinCS"}) \o Refusable(Set({"buffer", "pinCS"}))
PK_SPIRead(d)  == Refusable(Get({"buffer"}))

PK_UARTConfigure(d) == SetArguments({"baudrate", "format", "interfaceID"})
\* 55 bytes at a time.  The answer tells how many the device has taken: a
\* number too large is refused, any other counts as all.
PK_UARTWrite(d, dataWriteLen) ==
    LET chunks == (dataWriteLen + 54) \div 55
    IN  TakesParts({"dataPtr"}, 1..chunks)
        \o Partial(Refusable(EachPart(chunks, {"dataPtr"}, {})))
PK_UARTRead(d) == Get({"dataPtr", "dataReadLen"})

PK_CANConfigure(d) == SetArguments({"bitrate"})
PK_CANRegisterFilter(d) == SetArguments({"format", "CANid"})
PK_CANWrite(d) == SetArguments({"msg"})
PK_CANRead(d)  == Get({"status", "msg"})
PK_CANFlush(d) == Command
=============================================================================
