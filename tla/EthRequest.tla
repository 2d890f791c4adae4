----------------------------- MODULE EthRequest -----------------------------
(***************************************************************************)
(* The synchronous request functions for network devices,                  *)
(* SendEthRequest(), SendEthRequest_NoResponse() and SendEthRequestBig()   *)
(* of PoKeysLibCoreSockets.c (the Linux build, over UDP): one thread sends *)
(* a request and reads the socket until the answer with its id comes, the  *)
(* device and the network interleave with it.                              *)
(*                                                                         *)
(* issued counts the ids handed out; packets carry the number of theirs,   *)
(* so that the properties can tell packets apart whose ids are the same.   *)
(* call, first, sent, heard and accepted are history variables too.        *)
(***************************************************************************)
EXTENDS Integers, Sequences

CONSTANTS
    IdMod,         \* device->requestID is counted modulo IdMod (256)
    BigParts,      \* ids a multi-part request takes (8)
    sendRetries,   \* device->sendRetries (3)
    readRetries,   \* device->readRetries (10)
    selectRetries, \* timeouts of select() before a new attempt (10)
    MaxCalls,      \* bound on the calls made
    Strays         \* answers to the asynchronous layer, on the same socket

Ops == {"request", "big", "noResponse"}

VARIABLES
    pc,          \* the caller is "idle", about to "send", or in "wait"
    op,          \* the function called
    call,        \* calls made so far
    requestID,   \* device->requestID
    issued,      \* ids handed out so far
    first,       \* ids handed out before this call
    sent,        \* transmissions of this call
    retries1, retries2,
    result,      \* what the last call returned
    accepted,    \* the number of the answer the last call returned
    heard,       \* numbers of the answers this call has read
    wire,        \* requests on their way to the device
    executed,    \* numbers the device has carried out
    rx           \* the receive buffer of the socket

vars == <<pc, op, call, requestID, issued, first, sent, retries1, retries2, result,
          accepted, heard, wire, executed, rx>>
netVars == <<wire, executed, rx>>

Request == [id : 0..(IdMod-1), number : Nat]
Answer  == [id : 0..(IdMod-1), number : Nat, intact : BOOLEAN]

TypeOK ==
    /\ pc \in {"idle", "send", "wait"}
    /\ op \in Ops
    /\ call \in Nat
    /\ requestID \in 0..(IdMod-1)
    /\ issued \in Nat
    /\ first \in Nat
    /\ sent \in Nat
    /\ retries1 \in Nat
    /\ retries2 \in Nat
    /\ result \in {"none", "PK_OK", "PK_ERR_TRANSFER", "-1"}
    /\ accepted \in Nat
    /\ heard \subseteq Nat
    /\ wire \subseteq Request
    /\ executed \subseteq Nat
    /\ rx \in Seq(Answer)

Init ==
    /\ pc = "idle" /\ op = "request" /\ call = 0
    /\ requestID = 0 /\ issued = 0 /\ first = 0 /\ sent = 0
    /\ retries1 = 0 /\ retries2 = 0
    /\ result = "none" /\ accepted = 0 /\ heard = {}
    /\ wire = {} /\ executed = {}
    /\ \/ rx = <<>>
       \/ \E a \in Strays : rx = <<a>>

-----------------------------------------------------------------------------
(* Mutated forms of the definitions below. *)

IdAfter_NoWidth(n)       == requestID + n
Matches_IdBefore(a)      == (a.id + 1) % IdMod = requestID
FailedWait_Uncounted(limit) == UNCHANGED <<retries1, retries2, pc, result>>

-----------------------------------------------------------------------------

\* device->requestID++, a uint8_t, for each packet.
IdAfter(n) == (requestID + n) % IdMod

Parts == IF op = "big" THEN BigParts ELSE 1

\* "retries2++ > device->sendRetries"
SendsExhausted(n) == n > sendRetries

Matches(a) == a.id = requestID

Return(r) == /\ pc' = "idle"
             /\ result' = r

\* A function is called with a request in device->request.
Call(o) ==
    /\ pc = "idle"
    /\ call < MaxCalls
    /\ call' = call + 1
    /\ op' = o
    /\ pc' = "send"
    /\ retries1' = 0 /\ retries2' = 0
    /\ first' = issued /\ sent' = 0
    /\ result' = "none" /\ accepted' = 0 /\ heard' = {}
    /\ UNCHANGED <<requestID, issued, wire, executed, rx>>

\* The inner loop is left: another attempt, or the end.
NextAttempt ==
    /\ retries2' = retries2 + 1
    /\ IF SendsExhausted(retries2)
       THEN Return("PK_ERR_TRANSFER")
       ELSE pc' = "send" /\ UNCHANGED result

\* A packet is formed and sent; without a response to wait for, the next
\* attempt follows at once.
Send ==
    /\ pc = "send"
    /\ requestID' = IdAfter(Parts)
    /\ issued' = issued + Parts
    /\ sent' = sent + 1
    /\ wire' = wire \cup {[id |-> requestID', number |-> issued']}
    /\ IF op = "noResponse"
       THEN NextAttempt
       ELSE pc' = "wait" /\ UNCHANGED <<retries2, result>>
    /\ UNCHANGED <<op, call, first, retries1, accepted, heard, executed, rx>>

\* sendto() returns -1, and so does the function, with an id used up.
SendFails ==
    /\ pc = "send"
    /\ requestID' = IdAfter(Parts)
    /\ issued' = issued + Parts
    /\ Return("-1")
    /\ UNCHANGED <<op, call, first, sent, retries1, retries2, accepted, heard>>
    /\ UNCHANGED netVars

\* A failed wait counts against its limit; retries1 is not reset between
\* attempts.
FailedWait(limit) ==
    /\ retries1' = retries1 + 1
    /\ IF retries1' > limit THEN NextAttempt ELSE UNCHANGED <<pc, retries2, result>>

\* select() reports nothing within socketTimeout.
SelectTimeout ==
    /\ pc = "wait"
    /\ rx = <<>>
    /\ FailedWait(selectRetries)
    /\ UNCHANGED <<op, call, requestID, issued, first, sent, accepted, heard>>
    /\ UNCHANGED netVars

\* recv() returns the oldest datagram: the answer, another one, or the answer
\* with a wrong checksum.
Receive ==
    /\ pc = "wait"
    /\ rx # <<>>
    /\ rx' = Tail(rx)
    /\ LET a == Head(rx) IN
        /\ heard' = heard \cup {a.number}
        /\ \/ /\ Matches(a) /\ a.intact
              /\ Return("PK_OK")
              /\ accepted' = a.number
              /\ UNCHANGED <<retries1, retries2>>
           \/ /\ ~Matches(a)
              /\ NextAttempt
              /\ UNCHANGED <<retries1, accepted>>
           \/ /\ Matches(a) /\ ~a.intact
              /\ FailedWait(readRetries)
              /\ UNCHANGED accepted
    /\ UNCHANGED <<op, call, requestID, issued, first, sent, wire, executed>>

-----------------------------------------------------------------------------
(* The device and the network *)

\* The device carries a request out; its answer reaches the host, intact or
\* with a wrong checksum.  It cannot tell whether the host waits for one.
DeviceExecutes(p) ==
    /\ wire' = wire \ {p}
    /\ executed' = executed \cup {p.number}
    /\ \E ok \in BOOLEAN :
         rx' = Append(rx, [id |-> p.id, number |-> p.number, intact |-> ok])
    /\ UNCHANGED <<pc, op, call, requestID, issued, first, sent, retries1, retries2,
                   result, accepted, heard>>

LoseRequest(p) ==
    /\ wire' = wire \ {p}
    /\ UNCHANGED <<pc, op, call, requestID, issued, first, sent, retries1, retries2,
                   result, accepted, heard, executed, rx>>

LoseAnswer(p) ==
    /\ wire' = wire \ {p}
    /\ executed' = executed \cup {p.number}
    /\ UNCHANGED <<pc, op, call, requestID, issued, first, sent, retries1, retries2,
                   result, accepted, heard, rx>>

Caller == Send \/ SendFails \/ SelectTimeout \/ Receive

Next ==
    \/ \E o \in Ops : Call(o)
    \/ Caller
    \/ \E p \in wire : DeviceExecutes(p) \/ LoseRequest(p) \/ LoseAnswer(p)

Spec == Init /\ [][Next]_vars

-----------------------------------------------------------------------------
(* Properties *)

\* A call returns PK_OK only with the answer to its own latest transmission,
\* which the device has carried out, or with one so old that all the ids have
\* been used in between: late answers to requests given up, its own and those
\* of earlier calls, are not taken for it.  (Answers to the asynchronous
\* layer, number 0, can be: their ids are counted separately.)
AcceptsOwnAnswer ==
    result = "PK_OK" /\ accepted # 0
    => \/ accepted = issued /\ accepted > first /\ accepted \in executed
       \/ issued - accepted >= IdMod

\* One call makes the device carry out its request sendRetries + 2 times at
\* the most.
SendsBounded == sent <= sendRetries + 2

\* A call that has read the answer to one of its transmissions fails only if
\* some wait of it was in vain, or if it met an answer to an earlier call: each
\* attempt after that reads the answer to the attempt before it.
FailsOnlyBehind ==
    (result = "PK_ERR_TRANSFER" /\ \E n \in heard : n > first) =>
        retries1 > 0 \/ \E n \in heard : n <= first

=============================================================================
