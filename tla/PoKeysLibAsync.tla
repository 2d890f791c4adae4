--------------------------- MODULE PoKeysLibAsync ---------------------------
(***************************************************************************)
(* The asynchronous mailbox of PoKeysLibAsync.c: a table of transactions   *)
(* that matches UDP answers of the device to the requests the host sent,   *)
(* repeats a request once and gives up on it after that.                   *)
(*                                                                         *)
(* One host thread (FUNCTION(_) or user_mainloop) makes every call, so a   *)
(* call is one step; only the loop of PK_TimeoutAndRetryCheck is taken one *)
(* slot at a time, with the host busy in between.  The device, the network *)
(* and the clock interleave with everything.                               *)
(*                                                                         *)
(* timestamp_sent appears as an age, now - timestamp_sent, that saturates  *)
(* once it exceeds the timeout: the code only ever compares that           *)
(* difference with timeout_us.  serial, life, sends and disp are           *)
(* history variables: no guard of the code reads them.                     *)
(***************************************************************************)
EXTENDS Integers, FiniteSets

CONSTANTS
    MAX_TRANSACTIONS,        \* slots of pk_transactions (64 in the code)
    IdMod,                   \* request ids are counted modulo IdMod (256)
    Commands,                \* command bytes the clients use
    ZeroCmd,                 \* the command byte a cleared slot holds (0x00)
    TimeoutUs,               \* timeout_us, in ticks of the polling period
    MAX_CONSECUTIVE_ERRORS,  \* failed retries that open the breaker (10)
    ERROR_BACKOFF_TIME,      \* how long it stays open, in ticks
    MaxRequests,             \* bound on the requests the clients make
    Strays                   \* datagrams on the socket that answer no request

ASSUME AsyncAssumption ==
    /\ MAX_TRANSACTIONS \in Nat \ {0}
    /\ IdMod \in Nat /\ IdMod > 1
    /\ ZeroCmd \in Commands
    /\ TimeoutUs \in Nat
    /\ MAX_CONSECUTIVE_ERRORS \in Nat \ {0}
    /\ ERROR_BACKOFF_TIME \in Nat
    /\ MaxRequests \in Nat
    /\ Strays \subseteq [header : BOOLEAN, id : 0..(IdMod-1),
                         cmd : Commands, serial : {0}]

VARIABLES
    handle,     \* dev->devHandle # NULL: FALSE for a device without a socket
    trans,      \* pk_transactions
    currentId,  \* current_request_id
    created,    \* request ids handed out so far, the serial of the last one
    scan,       \* 0, or the slot PK_TimeoutAndRetryCheck looks at next
    consecErrors, errAge,   \* consecutive_errors, now - last_error_time
    polled,     \* the thread has called PK_TimeoutAndRetryCheck this period
    wire,       \* requests on their way to the device
    replies,    \* datagrams on their way to the host
    sends,      \* how often the request with this serial was transmitted
    disp        \* the last answer a parser got in this period, and its slot

hostVars == <<trans, currentId, created, consecErrors, errAge, disp>>
vars == <<handle, trans, currentId, created, scan, consecErrors, errAge,
          polled, wire, replies, sends, disp>>

Slots    == 1..MAX_TRANSACTIONS
Statuses == {"PENDING", "COMPLETED", "TIMEOUT", "FAILED"}
Expired  == TimeoutUs + 1
LifeCap  == 2 * Expired + 1
SendsCap == 3
Packet   == [header : BOOLEAN, id : 0..(IdMod-1), cmd : Commands, serial : Nat]

Transaction ==
    [id : 0..(IdMod-1), cmd : Commands, status : Statuses, retries : {0, 1},
     age : 0..Expired, serial : Nat, life : 0..LifeCap]

\* memset(&pk_transactions[i], 0, ...): TRANSACTION_PENDING is 0.
Cleared == [id |-> 0, cmd |-> ZeroCmd, status |-> "PENDING", retries |-> 0,
            age |-> Expired, serial |-> 0, life |-> 0]

NewTransaction(id, c, s) ==
    [Cleared EXCEPT !.id = id, !.cmd = c, !.retries = 1, !.serial = s]

PacketOf(t) == [header |-> TRUE, id |-> t.id, cmd |-> t.cmd, serial |-> t.serial]
NoDispatch  == [owner |-> 0, answer |-> 0]

TypeOK ==
    /\ handle \in BOOLEAN
    /\ trans \in [Slots -> Transaction]
    /\ currentId \in 0..(IdMod-1)
    /\ created \in Nat
    /\ scan \in 0..MAX_TRANSACTIONS
    /\ consecErrors \in Nat
    /\ errAge \in 0..ERROR_BACKOFF_TIME
    /\ polled \in BOOLEAN
    /\ wire \subseteq Packet
    /\ replies \subseteq Packet
    /\ sends \in [1..MaxRequests -> 0..SendsCap]
    /\ disp \in [owner : Nat, answer : Nat]

Init ==
    /\ handle \in BOOLEAN
    /\ trans = [i \in Slots |-> Cleared]
    /\ currentId = 0
    /\ created = 0
    /\ scan = 0
    /\ consecErrors = 0
    /\ errAge = ERROR_BACKOFF_TIME
    /\ polled = FALSE
    /\ wire = {}
    /\ replies = Strays
    /\ sends = [s \in 1..MaxRequests |-> 0]
    /\ disp = NoDispatch

-----------------------------------------------------------------------------
(* The mutated forms of the definitions below: each is a slip the code     *)
(* could have made, and a property that holds of the code fails with it.   *)

NextRequestId_NoMask(id)    == id + 1
NextRequestId_Stuck(id)     == IF id = 0 THEN 1 ELSE id
AfterRetry_KeepsRetries(t)  == [t EXCEPT !.age = 0]
AfterFailedRetry_Open(t)    == t
GivesUp_Unsent(t)           == t.status = "PENDING" /\ t.age > TimeoutUs
BreakerOpen_OneLate         == consecErrors > MAX_CONSECUTIVE_ERRORS

-----------------------------------------------------------------------------
(* Helpers *)

\* next_request_id(): count up, skip 0.
NextRequestId(id) == IF (id + 1) % IdMod = 0 THEN 1 ELSE (id + 1) % IdMod

\* The slots transaction_alloc() may take; it takes the first of them.
Allocatable(t) == t.status # "PENDING" \/ t.id = 0
FirstFree(i) == /\ Allocatable(trans[i])
                /\ \A k \in 1..(i-1) : ~Allocatable(trans[k])

\* transaction_find(): the first slot with that id, whatever its status.
Finds(tbl, id, j) == /\ tbl[j].id = id
                     /\ \A k \in 1..(j-1) : tbl[k].id # id

\* PK_ReceiveAndDispatch [6a]: the command byte of the answer is the one sent.
EchoMatches(t, p) == p.cmd = t.cmd

\* What a retry makes of the transaction when sendto() succeeds and when not.
AfterRetry(t)       == [t EXCEPT !.age = 0, !.retries = @ - 1]
AfterFailedRetry(t) == [t EXCEPT !.status = "FAILED", !.retries = 0]

\* A transaction is overdue, and out of retries when it is given up.
Overdue(t) == t.status = "PENDING" /\ t.age > TimeoutUs
GivesUp(t) == Overdue(t) /\ t.retries = 0

Counted(t) == IF t.serial \in DOMAIN sends
              THEN [sends EXCEPT ![t.serial] = IF @ < SendsCap THEN @ + 1 ELSE @]
              ELSE sends

BreakerOpen == consecErrors >= MAX_CONSECUTIVE_ERRORS

-----------------------------------------------------------------------------
(* The host *)

\* CreateRequestAsync() or CreateRequestAsyncWithPayload() followed by
\* SendRequestAsync(), as every client calls them.  SendRequestAsync() looks
\* the request up again by id; sendto() may fail, and the slot then stays
\* PENDING with timestamp_sent 0.
CreateAndSendRequestAsync(c, sent) ==
    /\ scan = 0
    /\ created < MaxRequests
    /\ \E i \in Slots :
        /\ FirstFree(i)
        /\ LET id  == NextRequestId(currentId)
               tbl == [trans EXCEPT ![i] = NewTransaction(id, c, created + 1)]
           IN  /\ currentId' = id
               /\ created' = created + 1
               /\ \E j \in Slots :
                    /\ Finds(tbl, id, j)
                    /\ IF handle /\ sent
                       THEN /\ wire' = wire \cup {PacketOf(tbl[j])}
                            /\ trans' = [tbl EXCEPT ![j].age = 0]
                            /\ sends' = Counted(tbl[j])
                       ELSE trans' = tbl /\ UNCHANGED <<wire, sends>>
    /\ UNCHANGED <<handle, scan, consecErrors, errAge, polled, replies, disp>>

\* CreateRequestAsyncWithPayload() with more payload than fits: the slot has
\* been cleared and an id taken when it returns -3.
CreateRequestTooBig ==
    /\ scan = 0
    /\ created < MaxRequests
    /\ \E i \in Slots : FirstFree(i) /\ trans' = [trans EXCEPT ![i] = Cleared]
    /\ currentId' = NextRequestId(currentId)
    /\ created' = created + 1
    /\ UNCHANGED <<handle, scan, consecErrors, errAge, polled, wire, replies,
                   sends, disp>>

\* A datagram PK_ReceiveAndDispatch() throws away: wrong start byte (-1), no
\* slot with its id (-2), or another command than the slot sent (-3).
Discards(p) ==
    \/ ~p.header
    \/ \A i \in Slots : trans[i].id # p.id
    \/ \E i \in Slots : Finds(trans, p.id, i) /\ ~EchoMatches(trans[i], p)

Discarded(p) ==
    /\ handle
    /\ Discards(p)
    /\ UNCHANGED <<handle, scan, polled, wire, sends>> /\ UNCHANGED hostVars

\* An answer that reaches its parser: the parser runs and the slot, whatever
\* its status was, becomes COMPLETED.
Dispatched(p) ==
    /\ handle
    /\ p.header
    /\ \E i \in Slots :
        /\ Finds(trans, p.id, i)
        /\ EchoMatches(trans[i], p)
        /\ trans' = [trans EXCEPT ![i].status = "COMPLETED"]
        /\ disp' = [owner |-> trans[i].serial, answer |-> p.serial]
    /\ UNCHANGED <<handle, currentId, created, scan, consecErrors, errAge, polled,
                   wire, sends>>

\* PK_ReceiveAndDispatch() reads some datagram: the network reorders them,
\* and may deliver one once more.
ReceiveDiscard(p) ==
    /\ scan = 0
    /\ Discarded(p)
    /\ replies' = replies \ {p}

ReceiveDispatch(p) ==
    /\ scan = 0
    /\ Dispatched(p)
    /\ replies' = replies \ {p} \/ replies' = replies

\* PK_TimeoutAndRetryCheck() without a socket: every open slot has failed.
TimeoutCheckNoHandle ==
    /\ scan = 0
    /\ ~handle
    /\ trans' = [i \in Slots |-> IF trans[i].status = "PENDING"
                                 THEN AfterFailedRetry(trans[i]) ELSE trans[i]]
    /\ polled' = TRUE
    /\ UNCHANGED <<handle, currentId, created, scan, consecErrors, errAge, wire,
                   replies, sends, disp>>

\* ... while the circuit breaker is open: it returns at once.
TimeoutCheckBackoff ==
    /\ scan = 0
    /\ handle
    /\ BreakerOpen
    /\ errAge < ERROR_BACKOFF_TIME
    /\ polled' = TRUE
    /\ UNCHANGED <<handle, scan, wire, replies, sends>> /\ UNCHANGED hostVars

\* ... and otherwise: the loop over the slots starts, the breaker closed.
TimeoutCheckStart ==
    /\ scan = 0
    /\ handle
    /\ ~(BreakerOpen /\ errAge < ERROR_BACKOFF_TIME)
    /\ consecErrors' = IF BreakerOpen THEN 0 ELSE consecErrors
    /\ scan' = 1
    /\ polled' = TRUE
    /\ UNCHANGED <<handle, trans, currentId, created, errAge, wire, replies,
                   sends, disp>>

Advance == scan' = IF scan = MAX_TRANSACTIONS THEN 0 ELSE scan + 1

\* One turn of the loop that finds nothing overdue.
TimeoutSlotSkip ==
    /\ scan # 0
    /\ ~Overdue(trans[scan])
    /\ ~GivesUp(trans[scan])
    /\ Advance
    /\ UNCHANGED <<handle, polled, wire, replies, sends>> /\ UNCHANGED hostVars

\* One turn that repeats the request; sendto() succeeds ...
TimeoutSlotRetry ==
    /\ scan # 0
    /\ Overdue(trans[scan])
    /\ trans[scan].retries > 0
    /\ wire' = wire \cup {PacketOf(trans[scan])}
    /\ sends' = Counted(trans[scan])
    /\ trans' = [trans EXCEPT ![scan] = AfterRetry(trans[scan])]
    /\ consecErrors' = IF consecErrors > 0 THEN consecErrors - 1 ELSE consecErrors
    /\ Advance
    /\ UNCHANGED <<handle, currentId, created, errAge, polled, replies, disp>>

\* ... or fails.
TimeoutSlotRetryFails ==
    /\ scan # 0
    /\ Overdue(trans[scan])
    /\ trans[scan].retries > 0
    /\ trans' = [trans EXCEPT ![scan] = AfterFailedRetry(trans[scan])]
    /\ consecErrors' = consecErrors + 1
    /\ errAge' = 0
    /\ Advance
    /\ UNCHANGED <<handle, currentId, created, polled, wire, replies, sends, disp>>

\* One turn that gives the request up.
TimeoutSlotGiveUp ==
    /\ scan # 0
    /\ GivesUp(trans[scan])
    /\ trans' = [trans EXCEPT ![scan].status = "TIMEOUT"]
    /\ Advance
    /\ UNCHANGED <<handle, currentId, created, consecErrors, errAge, polled, wire,
                   replies, sends, disp>>

-----------------------------------------------------------------------------
(* The device, the network and the clock *)

\* The device answers a request, echoing its id and its command.
DeviceAnswers(p) == /\ wire' = wire \ {p}
                    /\ replies' = replies \cup {p}
                    /\ UNCHANGED <<handle, scan, polled, sends>> /\ UNCHANGED hostVars

\* UDP loses a request or an answer.
LoseRequest(p) == /\ wire' = wire \ {p}
                  /\ UNCHANGED <<handle, scan, polled, replies, sends>>
                  /\ UNCHANGED hostVars
LoseReply(p)   == /\ replies' = replies \ {p}
                  /\ UNCHANGED <<handle, scan, polled, wire, sends>>
                  /\ UNCHANGED hostVars

Aged(t) == [t EXCEPT !.age  = IF @ < Expired THEN @ + 1 ELSE @,
                     !.life = IF @ < LifeCap /\ t.serial # 0 THEN @ + 1 ELSE @]

\* get_current_time_us() moves on by one polling period.
ClockMoves ==
    /\ trans' = [i \in Slots |-> Aged(trans[i])]
    /\ errAge' = IF errAge < ERROR_BACKOFF_TIME THEN errAge + 1 ELSE errAge
    /\ polled' = FALSE
    /\ disp' = NoDispatch
    /\ UNCHANGED <<handle, currentId, created, scan, consecErrors, wire, replies,
                   sends>>

Tick == scan = 0 /\ polled /\ ClockMoves

-----------------------------------------------------------------------------

Create == \/ \E c \in Commands, sent \in BOOLEAN : CreateAndSendRequestAsync(c, sent)
          \/ CreateRequestTooBig
TimeoutCheck == TimeoutCheckNoHandle \/ TimeoutCheckBackoff \/ TimeoutCheckStart
TimeoutSlot  == \/ TimeoutSlotSkip \/ TimeoutSlotRetry
                \/ TimeoutSlotRetryFails \/ TimeoutSlotGiveUp
Network == \/ \E p \in wire : DeviceAnswers(p) \/ LoseRequest(p)
           \/ \E p \in replies : LoseReply(p)

Next ==
    \/ Create
    \/ \E p \in replies : ReceiveDiscard(p) \/ ReceiveDispatch(p)
    \/ TimeoutCheck
    \/ TimeoutSlot
    \/ Network
    \/ Tick

Spec == Init /\ [][Next]_vars

\* The servo thread or the main loop calls PK_TimeoutAndRetryCheck in every
\* period and finishes the loop it started; the clock does not stop, though
\* it cannot move in the middle of that loop.
Fairness == /\ WF_vars(TimeoutCheck)
            /\ WF_vars(TimeoutSlot)
            /\ SF_vars(Tick)

FairSpec == Spec /\ Fairness

-----------------------------------------------------------------------------
(* Properties *)

\* Two requests lie at least a whole cycle of ids apart.
CycleApart(s, t) == s - t >= IdMod - 1 \/ t - s >= IdMod - 1

\* Two slots hold the same id only when next_request_id() has gone through
\* all the ids between their requests.
SharedIdNeedsWrap ==
    \A i, j \in Slots :
        /\ trans[i].serial # 0 /\ trans[j].serial # 0
        /\ trans[i].serial # trans[j].serial
        /\ trans[i].id = trans[j].id
        => CycleApart(trans[i].serial, trans[j].serial)

\* PK_ReceiveAndDispatch() gives the answer of one request to the parser of
\* another only across a whole cycle of ids: lost, late, repeated and
\* reordered datagrams, retries and reused slots never suffice.
MisdeliveryNeedsWrap ==
    /\ disp.owner # 0 /\ disp.answer # 0
    /\ disp.owner # disp.answer
    => CycleApart(disp.owner, disp.answer)

\* "Allow 1 retry (2 total attempts)" (CreateRequestAsync): a request is
\* transmitted a third time only if SendRequestAsync() mistakes it for a
\* later request with the same id.
ThirdSendNeedsWrap ==
    \A s \in 1..MaxRequests : sends[s] > 2 => created - s >= IdMod - 1

\* PK_TimeoutAndRetryCheck() reports TIMEOUT, the device did not answer, only
\* of a request that went out; one whose every sendto() failed is FAILED.
TimeoutMeansSent ==
    \A i \in Slots :
        trans[i].status = "TIMEOUT" /\ trans[i].serial \in 1..MaxRequests
        => sends[trans[i].serial] > 0

\* The circuit breaker is examined once per call, so that failing sends can
\* overshoot it, but by less than one table of transactions.
ErrorsBounded == consecErrors < MAX_CONSECUTIVE_ERRORS + MAX_TRANSACTIONS

\* "a slot is freed within 2 x timeout_us (one retry + one timeout cycle)"
\* (PK_TimeoutAndRetryCheck), a timeout being noticed in the first period
\* after it has passed.
FreedWithinTwoTimeouts ==
    \A i \in Slots : trans[i].status = "PENDING" => trans[i].life <= 2 * Expired

\* Every request is answered, given up or failed in the end, whatever the
\* network loses and however often sendto() fails.
PendingResolved ==
    \A i \in Slots :
        (trans[i].status = "PENDING" /\ trans[i].id # 0) ~> trans[i].status # "PENDING"

=============================================================================
