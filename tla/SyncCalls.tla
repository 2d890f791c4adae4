----------------------------- MODULE SyncCalls -----------------------------
(***************************************************************************)
(* An application uses the synchronous API of a device it has connected    *)
(* to: it calls a function, and calls it again when it fails; or it reads  *)
(* settings and writes them back; or it prepares settings, reads something *)
(* else, and then writes them.  Every SendRequest() may be answered, or    *)
(* fail before or after the device has done what was asked.                *)
(*                                                                         *)
(* Items of the device structure (mirror) and of the device (dev) hold     *)
(* tokens that tell where their value comes from: "app" (the application   *)
(* wrote it), "unset" (as allocated), "dev" (as in the device when the     *)
(* application started), "arg", "pin", "zero", "clear".                    *)
(***************************************************************************)
EXTENDS DeviceData, SyncApi

CONSTANTS
    CallsOn,     \* devices whose calls are explored, a bound
    MaxLost      \* bound on the requests of a script that fail

ASSUME SyncAssumption == CallsOn \subseteq Identities /\ MaxLost \in Nat

VARIABLES
    script,   \* [kind, calls]; kind "none" before the application starts
    step,     \* the call of the script that runs or has returned last
    todo,     \* the steps of it still to be run
    uses,     \* the items it carries to the device, reads, and takes as arguments
    mirror, dev,
    result,   \* of the last call, "none" while it runs
    skipped,  \* the last exchange failed and its answer was passed over
    short,    \* the device has taken less than was sent, and said so
    lost      \* requests that failed

callVars == <<script, step, todo, uses, mirror, dev, result, skipped, short, lost>>
vars == <<deviceVars, callVars>>

Info == [counts |-> counts, flags |-> flags, mask |-> mask]

TypeOK ==
    /\ DeviceTypeOK
    /\ script.kind \in {"none", "retry", "rmw", "between"}
    /\ step \in 0..Len(script.calls)
    /\ result \in Results \cup {"none"}
    /\ DOMAIN mirror = DOMAIN dev
    /\ lost \in 0..MaxLost

Init ==
    /\ DeviceInit
    /\ script = [kind |-> "none", group |-> "none", calls |-> <<>>]
    /\ step = 0 /\ todo = <<>> /\ uses = [carries |-> {}, reads |-> {}, takes |-> {}]
    /\ mirror = <<>> /\ dev = <<>> /\ result = "none"
    /\ skipped = FALSE /\ short = FALSE /\ lost = 0

(***************************************************************************)
(* What applications do.                                                   *)
(***************************************************************************)
\* r only reads, and stores something that c carries to the device and does
\* not read itself.
Overwrites(table, r, c) ==
    /\ ItemsOut(table[r]) = {}
    /\ (ItemsIn(table[r]) \cap ItemsOut(table[c])) \ ItemsIn(table[c]) # {}
    /\ c \in DOMAIN ReadsFor => r # ReadsFor[c]

ScriptsOf(group, table) ==
    {[kind |-> "retry", group |-> group, calls |-> <<c>>] : c \in DOMAIN table}
    \cup {[kind |-> "rmw", group |-> group, calls |-> <<ReadsFor[c], c>>] :
              c \in DOMAIN table \cap DOMAIN ReadsFor}
    \cup {[kind |-> "between", group |-> group, calls |-> pair] :
              pair \in {p \in (DOMAIN table) \X (DOMAIN table) : Overwrites(table, p[1], p[2])}}

Continue(rest) ==
    /\ todo' = rest
    /\ result' = IF rest = <<>> THEN "PK_OK" ELSE "none"

\* The next function of the script starts.
Enter(steps) ==
    /\ Continue(steps)
    /\ uses' = [carries |-> ItemsOut(steps), reads |-> ItemsIn(steps), takes |-> ItemsTaken(steps)]
    /\ skipped' = FALSE

BeginScript ==
    /\ pc = "ready" /\ script.kind = "none" /\ device.device \in CallsOn
    /\ \E group \in Groups :
           LET table == Table(group, Info) IN
           \E s \in ScriptsOf(group, table) :
               LET items == UNION {AllItems(table[s.calls[k]]) : k \in DOMAIN s.calls} IN
               /\ script' = s /\ step' = 1
               /\ mirror' = [i \in items |-> IF s.kind = "rmw" THEN "unset" ELSE "app"]
               /\ dev' = [i \in items |-> "dev"]
               /\ Enter(table[s.calls[1]])
    /\ UNCHANGED <<deviceVars, short, lost>>

CallAgain ==
    /\ script.kind = "retry" /\ result \in {"PK_ERR_TRANSFER", "PK_ERR_GENERIC"}
    /\ Enter(Table(script.group, Info)[script.calls[1]])
    /\ UNCHANGED <<deviceVars, script, step, mirror, dev, short, lost>>

CallNext ==
    /\ script.kind \in {"rmw", "between"} /\ result = "PK_OK" /\ step = 1
    /\ step' = 2
    /\ Enter(Table(script.group, Info)[script.calls[2]])
    /\ UNCHANGED <<deviceVars, script, mirror, dev, short, lost>>

(***************************************************************************)
(* The steps of a function.                                                *)
(***************************************************************************)
Passed(s) ==
    \/ \E i \in s.unless : mirror[i] = "clear"
    \/ s.nested /\ skipped

PassOver ==
    /\ todo # <<>> /\ Passed(Head(todo))
    /\ Continue(Tail(todo))
    /\ UNCHANGED <<deviceVars, script, step, uses, mirror, dev, skipped, short, lost>>

Now == Head(todo)
Runs(kind) == todo # <<>> /\ Now.kind = kind /\ ~Passed(Now)
Overlay(old, items, token) == [i \in DOMAIN old |-> IF i \in items THEN token ELSE old[i]]
ReturnWith(error) == todo' = <<>> /\ result' = error

AssignFields ==
    /\ Runs("assign")
    /\ mirror' = Overlay(mirror, Now.in, Now.token)
    /\ Continue(Tail(todo))
    /\ UNCHANGED <<deviceVars, script, step, uses, dev, skipped, short, lost>>

ReturnEarly ==
    /\ Runs("return")
    /\ ReturnWith(Now.result)
    /\ UNCHANGED <<deviceVars, script, step, uses, mirror, dev, skipped, short, lost>>

\* What the device holds once it has done what the request asks.
Done ==
    [i \in DOMAIN dev |-> IF i \in Now.out THEN mirror[i]
                          ELSE IF i \in Now.zeroes THEN "zero" ELSE dev[i]]

RequestAnswered ==
    /\ Runs("exchange") /\ ~Now.silent
    /\ dev' = Done
    /\ mirror' = [i \in DOMAIN mirror |-> IF i \in Now.in THEN dev'[i]
                                          ELSE IF i \in Now.clears THEN "zero" ELSE mirror[i]]
    /\ skipped' = FALSE
    /\ Continue(Tail(todo))
    /\ UNCHANGED <<deviceVars, script, step, uses, short, lost>>

\* The device has taken less than the request carries.
RequestTakenInPart ==
    /\ Runs("exchange") /\ Now.partial
    /\ short' = TRUE
    /\ Continue(Tail(todo))
    /\ UNCHANGED <<deviceVars, script, step, uses, mirror, dev, skipped, lost>>

RequestRefused ==
    /\ Runs("exchange") /\ Now.refusable
    /\ dev' \in {dev, Done}
    /\ mirror' = Overlay(mirror, Now.drops, "zero")
    /\ ReturnWith(Now.refusal)
    /\ UNCHANGED <<deviceVars, script, step, uses, skipped, short, lost>>

\* SendRequest() returns an error, whether or not the device got the request.
RequestFails ==
    /\ Runs("exchange") /\ ~Now.silent /\ lost < MaxLost
    /\ lost' = lost + 1
    /\ dev' \in {dev, Done}
    /\ IF Now.onFail = "skip"
       THEN skipped' = TRUE /\ Continue(Tail(todo))
       ELSE ReturnWith(Now.result) /\ UNCHANGED skipped
    /\ UNCHANGED <<deviceVars, script, step, uses, mirror, short>>

\* SendRequest_NoResponse(): an error whatever happened.
RequestUnanswered ==
    /\ Runs("exchange") /\ Now.silent
    /\ dev' \in {dev, Done}
    /\ ReturnWith(Now.result)
    /\ UNCHANGED <<deviceVars, script, step, uses, mirror, skipped, short, lost>>

Request ==
    \/ RequestAnswered \/ RequestTakenInPart \/ RequestRefused \/ RequestFails
    \/ RequestUnanswered

Connecting == script.kind = "none" /\ DeviceNext /\ UNCHANGED callVars

Next ==
    \/ Connecting \/ BeginScript \/ CallAgain \/ CallNext
    \/ PassOver \/ AssignFields \/ ReturnEarly \/ Request

Spec == Init /\ [][Next]_vars

(***************************************************************************)
(* Properties.                                                             *)
(***************************************************************************)
Call == script.calls[step]
Succeeded == script.kind # "none" /\ result = "PK_OK"

\* Functions that return PK_OK although one of their requests has failed.
BestEffort == {"EncoderValuesGet", "MatrixKBConfigurationGet", "WriteCode"}
Complete == lost = 0 \/ script.calls[1] \notin BestEffort

\* PK_OK means done: when a function returns it - at once, or called again
\* after requests of it had failed or had been executed without an answer -
\* structure and device agree on every item the function carries, switches off
\* on its way, or reads - but for what it erases, which is zero at the device.
\* BestEffort functions, and the device that takes less than all it is sent
\* (short), are the exceptions.
OkMeansDone ==
    (Succeeded /\ Complete /\ ~short) =>
        \A i \in uses.carries \cup uses.reads :
            dev[i] = IF i \in Erased THEN "zero" ELSE mirror[i]

\* The duty cycles and enabled channels that are sent are those of HAL pins.
PWMFromPins == {"PWMConfigurationSetDirectly", "PWMUpdateDirectly", "SL_PWM_SetChannelEnabled"}

\* What a function is given as arguments reaches the device unless a read or an
\* assignment of the function comes between.
ArgumentsReach ==
    (Succeeded /\ Complete /\ ~short /\ Call \notin PWMFromPins) =>
        \A i \in uses.takes \cap uses.carries : dev[i] = "arg"

\* Fields that are written back without ever having been read: PWM channels
\* come from HAL pins, the description of COSM is only sent, counter options are
\* read of the pins with a counter and sent of all, and the encoders from 13 on
\* are not read from devices with fast but no ultra-fast encoders.
NeverRead(d) ==
    {<<"PWMenabledChannels", 0>>, <<"PWMduty", 0>>, <<"protocolDescription", 0>>,
     <<"CounterOptions", 1>>} \cup
        (IF Has(d, "iFastEncoders") /\ ~Has(d, "iUltraFastEncoders")
         THEN {<<"encoderValue", 2>>} ELSE {})

\* Reading settings and writing them back leaves the device as it was, but for
\* what is erased: each function that reads covers all else that the one that
\* writes sends.
ReadModifyWrite ==
    (Succeeded /\ Complete /\ script.kind = "rmw" /\ step = 2) =>
        \A i \in uses.carries \ (NeverRead(Info) \cup Erased) : dev[i] = "dev"

\* Fields that are both a setting and part of a status: of the pulse engine, and
\* of threading.
StatusAndSetup == (StatusFields \cup {"TriggerIngnoredAxisMask"}) \X {0}
ReadByOthers == StatusAndSetup \cup SharedByAxes

\* Settings prepared in the structure survive every other read of the
\* application until they are written - but for what is erased then, those of
\* the pulse engine that are part of a status, and the filter of the probe input,
\* which comes with the configuration of any axis.
EditsSurviveReads ==
    (Succeeded /\ script.kind = "between" /\ step = 2) =>
        \A i \in uses.carries \ (uses.takes \cup ReadByOthers \cup Erased) : dev[i] = "app"
=============================================================================
