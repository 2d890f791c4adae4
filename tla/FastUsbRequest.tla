--------------------------- MODULE FastUsbRequest ---------------------------
(***************************************************************************)
(* The request functions of PoKeysLibFastUSB.c: SendRequestFastUSB(),      *)
(* SendRequestFastUSB_NoResponse() and SendRequestFastUSB_multiPart(),     *)
(* over the bulk endpoints of a device, where a read ends after 10 ms.     *)
(* The variables are those of HidRequest, toDevice and reports being what  *)
(* is on its way through the two endpoints.                                *)
(***************************************************************************)
EXTENDS HidRequest

CONSTANTS
    BigParts,   \* ids a multi-part request takes (8)
    FastWaits,  \* reads after a write (10)
    BigWaits    \* reads after a multi-part write (50)

ASSUME FastUsbAssumption ==
    /\ BigParts \in Nat \ {0}
    /\ FastWaits \in Nat /\ BigWaits \in Nat

FastParts == IF op = "big" THEN BigParts ELSE 1
FastIdAfter(n) == (requestID + n) % IdMod
MoreFastWaits(n) == n < (IF op = "big" THEN BigWaits ELSE FastWaits)

\* "while (retries++ < 2)": SendRequestFastUSB_NoResponse() returns PK_OK even
\* when both writes have failed.
FastGivesUp ==
    /\ pc = "write"
    /\ ~MoreTries(retries)
    /\ Return(IF op = "noResponse" THEN "PK_OK" ELSE "PK_ERR_TRANSFER")
    /\ UNCHANGED <<op, call, requestID, issued, first, retries, waits, sent, accepted>>
    /\ UNCHANGED deviceVars

FastTriesWrite ==
    /\ pc = "write"
    /\ MoreTries(retries)
    /\ requestID' = FastIdAfter(FastParts)
    /\ issued' = issued + FastParts
    /\ sent' = sent + 1
    /\ waits' = 0
    /\ UNCHANGED <<op, call, first, accepted, reports, plugged>>

FastWrite ==
    /\ FastTriesWrite
    /\ plugged
    /\ retries' = retries + 1
    /\ toDevice' = Append(toDevice, [id |-> requestID', number |-> issued',
                                     awaited |-> op # "noResponse"])
    /\ IF op = "noResponse" THEN Return("PK_OK") ELSE pc' = "read" /\ UNCHANGED result

\* An error takes one try more than the loop does - but the error of a
\* multi-part write is not looked at.
FastWriteFails ==
    /\ FastTriesWrite
    /\ IF op = "big" THEN retries' = retries + 1 /\ pc' = "read"
       ELSE retries' = retries + 2 /\ UNCHANGED pc
    /\ UNCHANGED <<toDevice, result>>

\* What the receiving loop leads to when it ends without the answer: another
\* write, or for a multi-part request the end.
LeavesLoop ==
    IF op = "big" THEN Return("PK_ERR_TRANSFER") ELSE pc' = "write" /\ UNCHANGED result

FastRead ==
    /\ pc = "read"
    /\ MoreFastWaits(waits)
    /\ reports # <<>>
    /\ reports' = Tail(reports)
    /\ waits' = waits + 1
    /\ IF Matches(Head(reports))
       THEN Return("PK_OK") /\ accepted' = Head(reports).number
       ELSE UNCHANGED <<pc, result, accepted>>
    /\ UNCHANGED <<op, call, requestID, issued, first, retries, sent, toDevice, plugged>>

\* The answer to a multi-part request that refuses it (0xB1), or whose second
\* checksum is wrong.
FastReadRefusal ==
    /\ pc = "read" /\ op = "big"
    /\ MoreFastWaits(waits)
    /\ reports # <<>> /\ Head(reports).id = requestID
    /\ reports' = Tail(reports)
    /\ waits' = waits + 1
    /\ Return("PK_ERR_TRANSFER")
    /\ UNCHANGED <<op, call, requestID, issued, first, retries, sent, accepted, toDevice,
                   plugged>>

\* Nothing within 10 ms, which ends the multi-part function.
FastReadTimeout ==
    /\ pc = "read"
    /\ MoreFastWaits(waits)
    /\ reports = <<>>
    /\ waits' = waits + 1
    /\ IF op = "big" THEN LeavesLoop ELSE UNCHANGED <<pc, result>>
    /\ UNCHANGED <<op, call, requestID, issued, first, retries, sent, accepted>>
    /\ UNCHANGED deviceVars

\* A read fails, or the reads are used up.
FastReadEnds ==
    /\ pc = "read"
    /\ ~plugged \/ ~MoreFastWaits(waits)
    /\ LeavesLoop
    /\ UNCHANGED <<op, call, requestID, issued, first, retries, waits, sent, accepted>>
    /\ UNCHANGED deviceVars

FastCaller ==
    \/ FastGivesUp \/ FastWrite \/ FastWriteFails
    \/ FastRead \/ FastReadRefusal \/ FastReadTimeout \/ FastReadEnds

FastNext == (\E o \in Ops : Call(o)) \/ FastCaller \/ Device \/ Unplug
=============================================================================
