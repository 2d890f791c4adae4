----------------------------- MODULE AsyncCalls -----------------------------
(***************************************************************************)
(* A program uses the asynchronous API of a device over the mailbox of     *)
(* PoKeysLibAsync: a function queues its requests one after another and    *)
(* returns; each request is filled in when it is queued, executed when it  *)
(* reaches the device, sent once more when no answer has come in time, and *)
(* its answer is stored when the dispatcher meets it.  The program calls a *)
(* function, and calls it again when it fails; or it reads settings and    *)
(* writes them back; or it reads something else between preparing settings *)
(* and writing them; or it makes two calls without waiting in between.     *)
(* It is one thread: nothing is dispatched while a function runs.          *)
(*                                                                         *)
(* As in SyncCalls, items of the structure (mirror) and of the device      *)
(* (dev) hold tokens that tell where their value comes from.               *)
(***************************************************************************)
EXTENDS AsyncApi

CONSTANTS
    Devices,    \* the devices: [counts, flags, mask], as Info in SyncCalls
    MaxFaults   \* bound on the sends, answers and slots that fail

ASSUME AsyncCallsAssumption == MaxFaults \in Nat

VARIABLES
    device,    \* the device of the script, "none" before it starts
    script,    \* [kind, group, calls]
    step,      \* the call of the script that runs or has returned last
    todo,      \* the steps of it still to be run
    uses,      \* the items it carries to the device, reads, takes as arguments, and the
               \* ones that the calls so far carry or read wrongly
    mirror, dev,
    meant,     \* what the program has asked of every item, by the last call that returned PK_OK
    result,    \* of the last call, "none" while it runs
    requests,  \* pk_transactions: the requests, in the order they were made
    answers,   \* of the device, on their way
    faults,
    marks      \* the kinds of disturbance met so far

callVars == <<device, script, step, uses>>
vars == <<device, script, step, todo, uses, mirror, dev, meant, result, requests, answers,
          faults, marks>>

Disturbances == {"dropped", "unsent", "resent", "reordered", "refused", "lost", "gone"}

TypeOK ==
    /\ script.kind \in {"none", "retry", "rmw", "between", "pair"}
    /\ step \in 0..Len(script.calls)
    /\ result \in Results \cup {"none"}
    /\ DOMAIN mirror = DOMAIN dev /\ DOMAIN meant = DOMAIN dev
    /\ \A k \in DOMAIN requests :
           /\ requests[k].status \in {"pending", "answered", "failed"}
           /\ requests[k].attempts \in 1..2
    /\ \A n \in DOMAIN answers : answers[n].request \in DOMAIN requests
    /\ faults \in 0..MaxFaults
    /\ marks \subseteq Disturbances

Init ==
    /\ device = "none" /\ script = [kind |-> "none", group |-> "none", calls |-> <<>>]
    /\ step = 0 /\ todo = <<>> /\ uses = [carries |-> {}, reads |-> {}, takes |-> {}, spoils |-> {}]
    /\ mirror = <<>> /\ dev = <<>> /\ meant = <<>> /\ result = "none"
    /\ requests = <<>> /\ answers = <<>> /\ faults = 0 /\ marks = {}

(***************************************************************************)
(* What programs do.                                                       *)
(***************************************************************************)
\* r only reads, and stores something that c carries and does not read itself.
Overwrites(table, r, c) ==
    /\ ItemsOut(table[r]) = {}
    /\ (ItemsIn(table[r]) \cap ItemsOut(table[c])) \ ItemsIn(table[c]) # {}
    /\ c \in DOMAIN ReadsFor => r # ReadsFor[c]

\* Both write an item, or the second reads what the first writes, or both read
\* the configuration of an axis.
Related(table, c1, c2) ==
    \/ ItemsOut(table[c1]) \cap (ItemsOut(table[c2]) \cup ItemsIn(table[c2])) # {}
    \/ /\ c1 # c2
       /\ \E i \in DOMAIN table[c1], j \in DOMAIN table[c2] :
              table[c1][i].current /\ table[c2][j].current

ScriptsOf(group, table) ==
    LET Pairs(P(_, _, _)) == {p \in (DOMAIN table) \X (DOMAIN table) : P(table, p[1], p[2])}
    IN  [kind : {"retry"}, group : {group}, calls : {<<c>> : c \in DOMAIN table}]
        \cup [kind : {"rmw"}, group : {group},
              calls : {<<ReadsFor[c], c>> : c \in DOMAIN table \cap DOMAIN ReadsFor}]
        \cup [kind : {"between"}, group : {group}, calls : Pairs(Overwrites)]
        \cup [kind : {"pair"}, group : {group}, calls : Pairs(Related)]

\* The function of the script starts.
Enter(steps) ==
    /\ todo' = steps
    /\ result' = IF steps = <<>> THEN "PK_OK" ELSE "none"
    /\ uses' = [carries |-> ItemsOut(steps), reads |-> ItemsIn(steps),
                takes |-> ItemsTaken(steps),
                spoils |-> uses.spoils \cup Misencoded(steps) \cup Misread(steps)]

BeginScript ==
    /\ script.kind = "none"
    /\ \E d \in Devices, group \in Groups :
           LET table == Table(group, d) IN
           \E s \in ScriptsOf(group, table) :
               LET items == UNION {AllItems(table[s.calls[k]]) : k \in DOMAIN s.calls} IN
               /\ device' = d /\ script' = s /\ step' = 1
               /\ mirror' = [i \in items |-> IF s.kind = "rmw" THEN <<"unset">> ELSE <<"app1">>]
               /\ dev' = [i \in items |-> <<"dev", i>>] /\ meant' = dev'
               /\ Enter(table[s.calls[1]])
    /\ UNCHANGED <<requests, answers, faults, marks>>

Idle == script.kind # "none" /\ todo = <<>>
Settled == Idle /\ answers = <<>> /\ \A k \in DOMAIN requests : requests[k].status # "pending"

CallAgain ==
    /\ script.kind = "retry" /\ Idle /\ result \in {"PK_ERR_TRANSFER", "PK_ERR_GENERIC"}
    /\ Enter(Table(script.group, device)[script.calls[1]])
    /\ UNCHANGED <<device, script, step, mirror, dev, meant, requests, answers, faults, marks>>

Flags(steps) == UNION {steps[i].unless : i \in DOMAIN steps}

\* The second call of a pair does not wait for the answers of the first.
CallNext ==
    /\ Len(script.calls) = 2 /\ step = 1 /\ Idle /\ result = "PK_OK"
    /\ script.kind # "pair" => Settled
    /\ step' = 2
    /\ LET steps == Table(script.group, device)[script.calls[2]] IN
           /\ Enter(steps)
           /\ mirror' = IF script.kind # "pair" THEN mirror
                        ELSE [i \in DOMAIN mirror |->
                                 IF i \in ItemsOut(steps) \cup Flags(steps) THEN <<"app2">>
                                 ELSE mirror[i]]
    /\ UNCHANGED <<device, script, dev, meant, requests, answers, faults, marks>>

(***************************************************************************)
(* The steps of a function.                                                *)
(***************************************************************************)
Now == Head(todo)
Passed(s) == \E i \in s.unless : mirror[i] = <<"clear">>
Runs(kind) == todo # <<>> /\ Now.kind = kind /\ ~Passed(Now)
Overlay(old, items, token) == [i \in DOMAIN old |-> IF i \in items THEN token ELSE old[i]]

\* The function goes on, or is at its end.
Continue(rest, new) ==
    /\ todo' = rest /\ mirror' = new
    /\ IF rest # <<>> THEN result' = "none" /\ UNCHANGED meant
       ELSE /\ result' = "PK_OK"
            /\ meant' = [i \in DOMAIN meant |-> IF i \in uses.carries THEN new[i] ELSE meant[i]]
ReturnWith(error) == todo' = <<>> /\ result' = error /\ UNCHANGED <<mirror, meant>>

PassOver ==
    /\ todo # <<>> /\ Passed(Now)
    /\ Continue(Tail(todo), mirror)
    /\ UNCHANGED <<callVars, dev, requests, answers, faults, marks>>

AssignFields ==
    /\ Runs("assign")
    /\ Continue(Tail(todo), Overlay(mirror, Now.in, <<Now.token>>))
    /\ UNCHANGED <<callVars, dev, requests, answers, faults, marks>>

SelectedAxis == <<"param1", 0>>
Select ==
    /\ Runs("select")
    /\ LET item == CHOOSE i \in Now.in : TRUE
           params == {i \in DOMAIN mirror : i[1] = "param1"}
       IN  Continue(Tail(todo), Overlay(mirror, params, <<"axis", item[2]>>))
    /\ UNCHANGED <<callVars, dev, requests, answers, faults, marks>>

ReturnEarly ==
    /\ Runs("return")
    /\ ReturnWith(Now.result)
    /\ UNCHANGED <<callVars, dev, requests, answers, faults, marks>>

\* The static copy of what was sent last: nothing is sent when it is the same.
CompareWithCopy ==
    /\ Runs("compare")
    /\ LET copy == CHOOSE i \in Now.in : TRUE
           current == <<"copy", [i \in Now.out |-> mirror[i]]>>
       IN  IF mirror[copy] = current THEN Continue(<<>>, mirror)
           ELSE Continue(Tail(todo), [mirror EXCEPT ![copy] = current])
    /\ UNCHANGED <<callVars, dev, requests, answers, faults, marks>>

(***************************************************************************)
(* A request.                                                              *)
(***************************************************************************)
Fault == faults < MaxFaults /\ faults' = faults + 1

\* The bytes of the request, as the device understands them.
Contents ==
    {[i \in Now.out \cup Now.zeroes |->
         IF i \in Now.zeroes THEN <<"zero">>
         ELSE IF i \in Now.garbles \/ (i \in Now.unsure /\ garbled) THEN <<"garbled">>
         ELSE mirror[i]] : garbled \in (IF Now.unsure = {} THEN {FALSE} ELSE BOOLEAN)}

Executed(carries) == [i \in DOMAIN dev |-> IF i \in DOMAIN carries THEN carries[i] ELSE dev[i]]
Answered(k, what, new) == [request |-> k, values |-> [i \in what.in |-> new[i]]]

\* Request k goes to the device: it is executed and answered, or executed and
\* the answer is lost, or lost itself - as all are once the device is gone.
Gone == "gone" \in marks
Transmit(k, carries, what) ==
    \/ Gone /\ UNCHANGED <<dev, answers, faults>>
    \/ /\ ~Gone
       /\ dev' = Executed(carries)
       /\ answers' = Append(answers, Answered(k, what, dev'))
       /\ UNCHANGED faults
    \/ ~Gone /\ Fault /\ dev' = Executed(carries) /\ UNCHANGED answers
    \/ ~Gone /\ Fault /\ UNCHANGED <<dev, answers>>

NewRequest(carries) == [what |-> Now, carries |-> carries, status |-> "pending", attempts |-> 1]
MailboxStep == Runs("exchange") /\ ~Now.silent

Submit ==
    /\ MailboxStep
    /\ \E carries \in Contents :
           /\ requests' = Append(requests, NewRequest(carries))
           /\ Transmit(Len(requests) + 1, carries, Now)
    /\ Continue(Tail(todo), mirror)
    /\ UNCHANGED <<callVars, marks>>

FailOrSkip == IF Now.onFail = "skip" THEN Continue(Tail(todo), mirror) ELSE ReturnWith(Now.result)

\* sendto() fails: the request stays in its slot and is sent by the timeouts.
SubmitUnsent ==
    /\ MailboxStep /\ Fault
    /\ \E carries \in Contents : requests' = Append(requests, NewRequest(carries))
    /\ marks' = marks \cup {"unsent"}
    /\ FailOrSkip
    /\ UNCHANGED <<callVars, dev, answers>>

NoFreeSlot ==
    /\ MailboxStep /\ Fault
    /\ marks' = marks \cup {"dropped"}
    /\ FailOrSkip
    /\ UNCHANGED <<callVars, dev, requests, answers>>

\* PK_SendEthRequestNoResponseAsync(): past the mailbox, sent once.
SendSilently ==
    /\ Runs("exchange") /\ Now.silent
    /\ \/ /\ ~Gone /\ \E carries \in Contents : dev' = Executed(carries)
          /\ Continue(Tail(todo), mirror) /\ UNCHANGED <<faults, marks>>
       \/ /\ Fault \/ (Gone /\ UNCHANGED faults)
          /\ marks' = marks \cup {"lost"}
          /\ Continue(Tail(todo), mirror) /\ UNCHANGED dev
       \/ Fault /\ ReturnWith(Now.result) /\ UNCHANGED <<dev, marks>>
    /\ UNCHANGED <<callVars, requests, answers>>

(***************************************************************************)
(* The mailbox, between calls.                                             *)
(***************************************************************************)
Pending(k) == requests[k].status = "pending"
AnswerQueued(k) == \E n \in DOMAIN answers : answers[n].request = k

\* A slip for MayResend: retries_left is not looked at.
MayResend_Again(k) == Pending(k)

MayResend(k) == Pending(k) /\ requests[k].attempts < 2

\* PK_TimeoutAndRetryCheck() sends the bytes of the slot again; an answer that
\* is on its way by then is a late one, and a fault.
Resend(k) ==
    /\ Idle /\ ~Gone /\ MayResend(k)
    /\ AnswerQueued(k) => faults < MaxFaults
    /\ requests' = [requests EXCEPT ![k].attempts = @ + 1]
    /\ marks' = marks \cup {"resent"}
    /\ IF AnswerQueued(k)
       THEN /\ faults' = faults + 1
            /\ dev' = Executed(requests[k].carries)
            /\ answers' = Append(answers, Answered(k, requests[k].what, dev'))
       ELSE Transmit(k, requests[k].carries, requests[k].what)
    /\ UNCHANGED <<callVars, todo, mirror, meant, result>>

\* With the device gone, one pass over the slots is as good as many.
ForAll(ks, change(_)) ==
    /\ ks # {}
    /\ requests' = [k \in DOMAIN requests |-> IF k \in ks THEN change(requests[k]) ELSE requests[k]]

ResendInVain ==
    /\ Idle /\ Gone /\ answers = <<>>
    /\ ForAll({k \in DOMAIN requests : MayResend(k)},
              LAMBDA r : [r EXCEPT !.attempts = @ + 1])
    /\ marks' = marks \cup {"resent"}
    /\ UNCHANGED <<callVars, todo, mirror, dev, meant, result, answers, faults>>

\* Answers that are on their way by then come after the timeout.
GiveUp ==
    /\ Idle
    /\ \E late \in BOOLEAN :
           ForAll({k \in DOMAIN requests :
                     Pending(k) /\ ~MayResend(k) /\ (AnswerQueued(k) => late)},
                  LAMBDA r : [r EXCEPT !.status = "failed"])
    /\ UNCHANGED <<callVars, todo, mirror, dev, meant, result, answers, faults, marks>>

Known(i) == mirror[i] \notin {<<"unset">>, <<"zero">>, <<"stray">>, <<"garbled">>}

\* Where the parser stores the item that the answer has for item i.
PlaceOf(what, i) ==
    IF what.current /\ i \notin SharedByAxes /\ SelectedAxis \in DOMAIN mirror
    THEN <<i[1], mirror[SelectedAxis][2]>> ELSE i

\* What the structure holds once the answer to a request is parsed.
Parsed(what, values) ==
    [i \in DOMAIN mirror |->
        LET sources == {s \in what.in : PlaceOf(what, s) = i} IN
        IF sources = {} THEN IF i \in what.clears THEN <<"zero">> ELSE mirror[i]
        ELSE LET s == CHOOSE s \in sources : TRUE IN
             IF s \in what.misreads THEN <<"stray">>
             ELSE IF \E n \in what.needs : n \in DOMAIN mirror /\ ~Known(n) THEN <<"zero">>
             ELSE values[s]]

First == requests[Head(answers).request]
Collected ==
    /\ requests' = [requests EXCEPT ![Head(answers).request].status = "answered"]
    /\ answers' = Tail(answers)

\* An answer reaches its parser whatever the status of its request - also the
\* second answer to a request that was sent twice.
Dispatch ==
    /\ Idle /\ answers # <<>>
    /\ Collected
    /\ mirror' = Parsed(First.what, Head(answers).values)
    /\ UNCHANGED <<callVars, todo, dev, meant, result, faults, marks>>

\* The parser finds that the device has refused.
DispatchRefusal ==
    /\ Idle /\ answers # <<>> /\ First.what.refusable
    /\ Collected
    /\ mirror' = Overlay(mirror, First.what.drops, <<"zero">>)
    /\ marks' = marks \cup {"refused"}
    /\ UNCHANGED <<callVars, todo, dev, meant, result, faults>>

\* ... unless a later request has got its slot meanwhile.
DispatchUnknown ==
    /\ Idle /\ answers # <<>>
    /\ First.status # "pending" /\ Head(answers).request < Len(requests)
    /\ answers' = Tail(answers)
    /\ UNCHANGED <<callVars, todo, mirror, dev, meant, result, requests, faults, marks>>

\* UDP: two answers change places.
Reorder ==
    /\ Len(answers) > 1 /\ Fault
    /\ answers' = <<answers[2], answers[1]>> \o SubSeq(answers, 3, Len(answers))
    /\ marks' = marks \cup {"reordered"}
    /\ UNCHANGED <<callVars, todo, mirror, dev, meant, result, requests>>

\* The device is disconnected for good.
Disconnect ==
    /\ script.kind # "none" /\ Fault
    /\ marks' = marks \cup {"gone"}
    /\ UNCHANGED <<callVars, todo, mirror, dev, meant, result, requests, answers>>

Run == PassOver \/ AssignFields \/ Select \/ ReturnEarly \/ CompareWithCopy
Send == Submit \/ SubmitUnsent \/ NoFreeSlot \/ SendSilently
Timeouts == ResendInVain \/ GiveUp \/ \E k \in DOMAIN requests : Resend(k)
Receive == Dispatch \/ DispatchRefusal \/ DispatchUnknown \/ Reorder \/ Disconnect

Next == BeginScript \/ CallAgain \/ CallNext \/ Run \/ Send \/ Timeouts \/ Receive

Spec == Init /\ [][Next]_vars

(***************************************************************************)
(* Properties.                                                             *)
(***************************************************************************)
StepsOf(c) == Table(script.group, device)[script.calls[c]]
Call == script.calls[step]
Failed == \E k \in DOMAIN requests : requests[k].status = "failed"
Succeeded == Settled /\ result = "PK_OK" /\ ~Failed

\* Functions that return PK_OK although requests of theirs were never made.
IgnoresFailures ==
    {"PinConfigurationGet", "PinConfigurationSet", "EncoderConfigurationGet",
     "EncoderConfigurationSet", "DeviceDataGet", "SystemStatusGetAll"}
AllMade == "dropped" \notin marks \/ Call \notin IgnoresFailures

\* A request that is sent again after a later one has been executed undoes it:
\* of two calls without waiting, and within the one function that sends an item
\* twice, the keyboard first switched off and then on.
OldRequestWins ==
    "resent" \in marks /\ (script.kind = "pair" \/ Call = "MatrixKBConfigurationSet")

\* Once a function has returned PK_OK and each of its requests is answered, the
\* device holds what the program asked of it last, for every item but those
\* the function spoils or erases - unless an old request has won, or the data
\* were sent past the mailbox.
SettledMeansDone ==
    (Succeeded /\ AllMade /\ ~OldRequestWins /\ "lost" \notin marks) =>
        \A i \in uses.carries \ (uses.spoils \cup Erased) : dev[i] = meant[i]

\* Answers that come in another order than the requests were made in are stored
\* where PEv2.param1 points by then, over newer ones, or - key mappings before
\* the pin functions - as zero.  The key mappings are also lost when the pins
\* are read twice: the first call has wiped the pin functions.
OutOfOrder ==
    /\ marks \cap {"resent", "reordered"} # {}
    /\ script.kind = "pair" \/ script.calls[1] = "PinConfigurationGet"
PinsReadTwice == script.calls = <<"PinConfigurationGet", "PinConfigurationGet">>

\* What the first call of a pair has read, and the second neither carries nor is
\* given - unless its answer is stored for the axis that PEv2.param1 names, which
\* the second call has changed.
ReadBefore ==
    IF script.kind = "pair" /\ step = 2 /\ \A m \in DOMAIN StepsOf(1) : ~StepsOf(1)[m].current
    THEN ItemsIn(StepsOf(1)) \ (ItemsOut(StepsOf(2)) \cup ItemsTaken(StepsOf(2))) ELSE {}

\* And the structure agrees with the device on what the calls have read, unless
\* the device has refused, or answers have come out of order.
AnswersLand ==
    (Succeeded /\ AllMade /\ "refused" \notin marks /\ ~OutOfOrder /\ ~PinsReadTwice) =>
        \A i \in (uses.reads \cup ReadBefore) \ uses.spoils : mirror[i] = dev[i]

\* Fields that are written back without having been read: the description of
\* COSM is only sent, the answers with the pins and key codes of the encoders are
\* thrown away, and counter options are read of the pins with a counter only.
NeverRead ==
    ({"protocolDescription", "dirAkeyCode", "dirBkeyCode"} \cup EncoderPins) \X {0}
        \cup {<<"CounterOptions", 1>>}

\* Reading settings and writing them back leaves the device as it was, but for
\* what is erased.
ReadModifyWrite ==
    (Succeeded /\ AllMade /\ ~OutOfOrder /\ ~OldRequestWins /\ script.kind = "rmw"
     /\ step = 2) =>
        \A i \in uses.carries \ (NeverRead \cup uses.spoils \cup Erased) : dev[i] = <<"dev", i>>

\* Fields that are both a setting and part of another answer: the status of the
\* pulse engine, and the configuration of any axis.
ReadByOthers == StatusFields \X {0} \cup SharedByAxes

\* Settings prepared in the structure survive other reads - but for those, and for
\* what is erased when they are written.
EditsSurviveReads ==
    (Succeeded /\ AllMade /\ script.kind = "between" /\ step = 2) =>
        \A i \in uses.carries \ (uses.takes \cup uses.spoils \cup ReadByOthers \cup Erased) :
            dev[i] = <<"app1">>

OutputTasks == {"DigitalIOSet", "PWMUpdate", "ExternalOutputsFromHAL"}

\* What the comments on the tasks say: the outputs are sent to the device.
OutputsReach ==
    (Succeeded /\ script.kind = "retry" /\ Call \in OutputTasks) =>
        \A i \in uses.carries : dev[i] = mirror[i]
=============================================================================
