----------------------------- MODULE PoILCalls -----------------------------
(***************************************************************************)
(* The synchronous calls for the PoIL interpreter of the device,           *)
(* PoKeysLibPoIL.c, and the input/output exchange of the PoKeys57Industrial*)
(* (PoKeysLibDevicePoKeys57Industrial.c).                                  *)
(***************************************************************************)
EXTENDS Requests

\* PK_ParsePoILStateResponse()
PoILStateFields ==
    {"CodeMemorySize", "DataMemorySize", "Version", "CoreState", "CoreDebugMode",
     "CoreDebugBreakpoint", "PC", "STATUS", "W", "ExceptionPC", "stackPtr", "ExceptionLocation",
     "ExceptionDescription", "MasterEnable", "currentTask", "taskCount"}
PK_PoILGetState(d) == Get(PoILStateFields)
SetAndGetState(arguments) == Takes(arguments) \o Exchange(arguments, PoILStateFields)
PK_PoILSetCoreState(d)    == SetAndGetState({"state"})
PK_PoILSetMasterEnable(d) == SetAndGetState({"masterEnable"})
PK_PoILResetCore(d)       == SetAndGetState({})
PK_PoILSetDebugMode(d)    == SetAndGetState({"debugMode", "breakpoint"})

\* Memory goes in chunks of 54 bytes.
Chunks(size, length) == (size + length - 1) \div length
PK_PoILReadMemory(d, size) == EachPart(Chunks(size, 54), {}, {"dest"})

\* Code memory (type 0) is written by blocks of 256 bytes: the block goes to
\* data memory in five chunks and is copied from there.  A chunk that fails ends
\* the writing of its block, and the copy is made all the same.
Staging(block) ==
    [k \in 1..5 |-> [Step("exchange") EXCEPT !.out = {<<"src", 5 * (block - 1) + k>>},
                                             !.onFail = "skip", !.nested = k > 1]]
PK_PoILWriteMemory(d, memoryType, size) ==
    LET parts == IF memoryType = 0 THEN 5 * Chunks(size, 256) ELSE Chunks(size, 54)
    IN  TakesParts({"src"}, 1..parts)
        \o IF memoryType = 0
           THEN FlattenSeq([block \in 1..Chunks(size, 256) |-> Staging(block) \o Command])
           ELSE EachPart(parts, {"src"}, {})

PK_PoILReadSharedSlot(d, slotsNum)  == EachPart(Chunks(slotsNum, 13), {}, {"slots"})
PK_PoILWriteSharedSlot(d, slotsNum) ==
    TakesParts({"slots"}, 1..Chunks(slotsNum, 13))
    \o EachPart(Chunks(slotsNum, 13), {"slots"}, {})
PK_PoILEraseMemory(d) == SetArguments({"memoryType"})
PK_PoILChunkReadMemory(d) == Exchange({"monitorChunks"}, {"dest"})
PK_PoILChunkReadMemoryInternalAddress(d) == Exchange({"monitorChunks"}, {"dest"})
\* The tasks are read seven at a time, as many as taskCount said.
PK_PoILTaskStatus(d, taskCount) == EachPart(Chunks(taskCount, 7), {}, {"inactiveLoad", "tasks"})

PK57i_Update(d) ==
    Takes({"resetFaults"})
    \o Exchange({"digitalOutputsEnable", "digitalOutputs", "analogOutputs", "resetFaults"},
                {"digitalOutputsFault", "analogOutputsFault", "digitalInputs", "analogInputs"})
=============================================================================
