----------------------------- MODULE HidRequest -----------------------------
(***************************************************************************)
(* The synchronous request functions for USB devices, SendRequest() and    *)
(* SendRequest_NoResponse() of PoKeysLibCore.c: up to two writes of a      *)
(* report, and after each a number of blocking reads, until the answer     *)
(* with the id of the write comes.                                         *)
(*                                                                         *)
(* issued counts the ids handed out; reports carry the number of theirs.   *)
(* It and first, sent, op and accepted are history variables.              *)
(***************************************************************************)
EXTENDS Integers, Sequences

CONSTANTS
    IdMod,      \* device->requestID is counted modulo IdMod (256)
    MaxWaits,   \* reads after a write (50)
    MaxCalls,   \* bound on the calls made
    Faulty      \* TRUE: the device may answer with a wrong checksum, or not

ASSUME HidAssumption ==
    /\ IdMod \in Nat /\ IdMod > 2
    /\ MaxWaits \in Nat \ {0}
    /\ MaxCalls \in Nat
    /\ Faulty \in BOOLEAN

VARIABLES
    pc,         \* the caller is "idle", about to "write", or to "read"
    op,         \* the function called
    call,       \* calls made so far
    requestID,  \* device->requestID
    issued,     \* ids handed out so far
    first,      \* ids handed out before this call
    retries, waits,
    sent,       \* writes of this call
    result,     \* what the last call returned
    accepted,   \* the number of the answer the last call returned
    toDevice,   \* reports written and not yet looked at by the device
    reports,    \* reports of the device not yet read, the oldest first
    plugged     \* the device is connected

vars == <<pc, op, call, requestID, issued, first, retries, waits, sent,
          result, accepted, toDevice, reports, plugged>>
deviceVars == <<toDevice, reports, plugged>>
callVars == <<pc, op, call, requestID, issued, first, retries, waits, sent,
              result, accepted>>

Ops == {"request", "noResponse", "big"}

Report == [id : 0..(IdMod-1), number : Nat, intact : BOOLEAN]

TypeOK ==
    /\ pc \in {"idle", "write", "read"}
    /\ op \in Ops
    /\ call \in Nat
    /\ requestID \in 0..(IdMod-1)
    /\ issued \in Nat
    /\ first \in Nat
    /\ retries \in 0..3
    /\ waits \in Nat
    /\ sent \in Nat
    /\ result \in {"none", "PK_OK", "PK_ERR_TRANSFER"}
    /\ accepted \in Nat
    /\ toDevice \in Seq([id : 0..(IdMod-1), number : Nat, awaited : BOOLEAN])
    /\ reports \in Seq(Report)
    /\ plugged \in BOOLEAN

Init ==
    /\ pc = "idle" /\ op = "request" /\ call = 0
    /\ requestID = 0 /\ issued = 0 /\ first = 0
    /\ retries = 0 /\ waits = 0 /\ sent = 0
    /\ result = "none" /\ accepted = 0
    /\ toDevice = <<>> /\ reports = <<>> /\ plugged = TRUE

-----------------------------------------------------------------------------
(* Mutated forms of the definitions below. *)

MoreTries_Always(n)    == n >= 0
Matches_AnyId(r)       == r.intact

-----------------------------------------------------------------------------

IdAfter(id) == (id + 1) % IdMod

\* "while (retries++ < 2)" and "while (waits++ < 50)"
MoreTries(n) == n < 2
MoreWaits(n) == n < MaxWaits

\* hid_read() fails, or the reads are used up.
ReadEnds == ~plugged \/ ~MoreWaits(waits)

Matches(r) == r.intact /\ r.id = requestID

Return(r) == pc' = "idle" /\ result' = r

Call(o) ==
    /\ pc = "idle"
    /\ call < MaxCalls
    /\ pc' = "write" /\ op' = o /\ call' = call + 1
    /\ retries' = 0 /\ waits' = 0 /\ sent' = 0
    /\ first' = issued
    /\ result' = "none" /\ accepted' = 0
    /\ UNCHANGED <<requestID, issued>> /\ UNCHANGED deviceVars

\* There are no multi-part requests over HID.
CallBig ==
    /\ pc = "idle"
    /\ call < MaxCalls
    /\ op' = "big" /\ call' = call + 1
    /\ Return("PK_ERR_TRANSFER")
    /\ first' = issued
    /\ retries' = 0 /\ waits' = 0 /\ sent' = 0 /\ accepted' = 0
    /\ UNCHANGED <<requestID, issued>> /\ UNCHANGED deviceVars

\* The condition of the sending loop fails.
GivesUp ==
    /\ pc = "write"
    /\ ~MoreTries(retries)
    /\ Return("PK_ERR_TRANSFER")
    /\ UNCHANGED <<op, call, requestID, issued, first, retries, waits, sent, accepted>>
    /\ UNCHANGED deviceVars

\* One turn of the sending loop: a new id, and hid_write() ...
TriesWrite ==
    /\ pc = "write"
    /\ MoreTries(retries)
    /\ requestID' = IdAfter(requestID)
    /\ issued' = issued + 1
    /\ sent' = sent + 1
    /\ waits' = 0
    /\ UNCHANGED <<op, call, first, result, accepted, reports, plugged>>

\* ... which succeeds: the answer is read, or the loop turns once more ...
Write ==
    /\ TriesWrite
    /\ plugged
    /\ retries' = retries + 1
    /\ toDevice' = Append(toDevice, [id |-> requestID', number |-> issued',
                                     awaited |-> op # "noResponse"])
    /\ pc' = IF op = "request" THEN "read" ELSE "write"

\* ... or fails, which counts as a try once more.
WriteFails ==
    /\ TriesWrite
    /\ retries' = retries + 2
    /\ UNCHANGED <<pc, toDevice>>

\* hid_read() returns the oldest report; it blocks while there is none.
Read ==
    /\ pc = "read"
    /\ MoreWaits(waits)
    /\ reports # <<>>
    /\ reports' = Tail(reports)
    /\ waits' = waits + 1
    /\ IF Matches(Head(reports))
       THEN Return("PK_OK") /\ accepted' = Head(reports).number
       ELSE UNCHANGED <<pc, result, accepted>>
    /\ UNCHANGED <<op, call, requestID, issued, first, retries, sent, toDevice, plugged>>

\* Back to the sending loop.
ReadFails ==
    /\ pc = "read"
    /\ ReadEnds
    /\ pc' = "write"
    /\ UNCHANGED <<op, call, requestID, issued, first, retries, waits, sent,
                   result, accepted>>
    /\ UNCHANGED deviceVars

-----------------------------------------------------------------------------
(* The device *)

\* It answers a request, even one the host does not wait for, intact or with a
\* wrong checksum ...
DeviceAnswers ==
    /\ plugged
    /\ toDevice # <<>>
    /\ toDevice' = Tail(toDevice)
    /\ LET q == Head(toDevice) IN
         \E ok \in {TRUE, ~Faulty} :
           reports' = Append(reports, [id |-> q.id, number |-> q.number,
                                       intact |-> ok])
    /\ UNCHANGED plugged /\ UNCHANGED callVars

\* ... or leaves it unanswered.
DeviceIgnores ==
    /\ toDevice # <<>>
    /\ Faulty \/ ~Head(toDevice).awaited
    /\ toDevice' = Tail(toDevice)
    /\ UNCHANGED <<reports, plugged>> /\ UNCHANGED callVars

Unplug ==
    /\ plugged
    /\ plugged' = FALSE
    /\ UNCHANGED <<toDevice, reports>> /\ UNCHANGED callVars

Caller == GivesUp \/ Write \/ WriteFails \/ Read \/ ReadFails
Device == DeviceAnswers \/ DeviceIgnores

Next == \/ \E o \in {"request", "noResponse"} : Call(o)
        \/ CallBig
        \/ Caller
        \/ Device
        \/ Unplug

Spec == Init /\ [][Next]_vars

-----------------------------------------------------------------------------
(* Properties *)

\* A call returns PK_OK only with the answer to its own latest write, or to
\* one older by a whole cycle of ids: the reports of earlier, failed calls
\* are read and skipped.
AcceptsOwnAnswer ==
    result = "PK_OK"
    => \/ accepted = issued /\ accepted > first
       \/ issued - accepted >= IdMod

\* A request reaches the device twice at the most.
WrittenTwice == sent <= 2

=============================================================================
