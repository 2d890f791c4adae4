---------------------------- MODULE MotionBuffer ----------------------------
(***************************************************************************)
(* Motion buffer mode of the HAL component: every servo cycle               *)
(* rt_motion_buffer_fill turns the commanded positions into one entry of    *)
(* step counts, rt_motion_buffer_send hands the collected entries to the    *)
(* device through PK_PEv2_BufferFillAsync and removes those that the answer *)
(* says the device accepted.                                                *)
(*                                                                         *)
(* The two functions are static and the shipped FUNCTION(_) does not call   *)
(* them: the cycle their comments name is external, so they run here in any *)
(* order.  Positions are integers, one unit being 1/StepUnits of a step.    *)
(* A byte of MotionBuffer is the entry and axis it was made for, its signed *)
(* step count being summed up in pulsed; made, pulsed, clamped, taken, missed and moved *)
(* are history variables that no guard of the code reads.                   *)
(***************************************************************************)
EXTENDS Integers, Sequences

CONSTANTS
    NumAxes,      \* axes of the engine (8)
    BufBytes,     \* bytes of MotionBuffer one request carries (56)
    CountMod,     \* newMotionBufferEntries is uint8_t (256)
    MaxPulses,    \* steps an entry can hold (127)
    StepUnits,    \* position units to a step, 1 / stepgen_STEP_SCALE
    StepWidth,    \* step_width, in position units
    AxisCounts,   \* values of PulseEngineEnabled & 0x0F
    Commands,     \* positions pin_joint_pos_cmd is given, one per axis
    MaxFills, MaxSends,  \* bounds on the calls of the two functions,
    MaxFaults            \* and on setups, garbled status answers, requests
                         \* repeated and requests that find no slot

ASSUME MotionBufferAssumption ==
    /\ NumAxes \in Nat \ {0}
    /\ BufBytes \in Nat \ {0}
    /\ CountMod \in Nat /\ CountMod > BufBytes
    /\ MaxPulses \in Nat
    /\ StepUnits \in Nat \ {0}
    /\ StepWidth \in Nat
    /\ AxisCounts \subseteq 0..NumAxes /\ AxisCounts # {}
    /\ Commands \subseteq [1..NumAxes -> Int]
    /\ MaxFills \in Nat /\ MaxSends \in Nat /\ MaxFaults \in Nat

VARIABLES
    lastPos,      \* mb_last_pos
    leftover,     \* mb_pulses_leftover, in position units
    buffer,       \* MotionBuffer, its first BufBytes bytes
    entries,      \* newMotionBufferEntries
    accepted,     \* motionBufferEntriesAccepted
    enabled,      \* PulseEngineEnabled & 0x0F, as the host last decoded it
    ready,        \* communication_ok and not emergency_stop_active
    pc,           \* "idle", or "sent" inside rt_motion_buffer_send
    requests,     \* fill requests made so far
    pending,      \* requests of the mailbox that no answer has completed
    wire,         \* fill requests on their way to the device
    replies,      \* answers on their way to the host
    devEnabled,   \* axes enabled in the device
    faults,
    made, pulsed, clamped, taken, missed, moved

hostVars == <<lastPos, leftover, buffer, entries, accepted, enabled>>
netVars  == <<requests, pending, wire, replies>>
devVars  == <<devEnabled, faults, taken>>
history  == <<made, pulsed, clamped, missed, moved>>
vars == <<hostVars, ready, pc, netVars, devVars, history>>

Axes      == 1..NumAxes
Byte      == [entry : Nat, axis : Nat]
BlankByte == [entry |-> 0, axis |-> 0]
Fill      == [id : Nat, count : 0..CountMod-1, axes : 0..NumAxes,
              data : [0..BufBytes-1 -> Byte], retries : {0, 1}]
Answer    == [id : Nat, accepted : 0..CountMod-1, enabled : 0..NumAxes]

AxesInUse    == IF enabled = 0 THEN 1 ELSE enabled
MaxEntries(n) == BufBytes \div n

Init ==
    /\ lastPos = [a \in Axes |-> 0]
    /\ leftover = [a \in Axes |-> 0]
    /\ buffer = [k \in 0..BufBytes-1 |-> BlankByte]
    /\ entries = 0 /\ accepted = 0
    /\ enabled \in AxisCounts /\ devEnabled = enabled
    /\ ready = FALSE /\ pc = "idle"
    /\ requests = 0 /\ pending = {} /\ wire = {} /\ replies = {}
    /\ faults = 0
    /\ made = 0
    /\ pulsed = [a \in Axes |-> 0]
    /\ clamped = [a \in Axes |-> FALSE]
    /\ taken = <<>> /\ missed = FALSE /\ moved = FALSE

-----------------------------------------------------------------------------
(* rt_motion_buffer_fill *)

\* cmd is pin_joint_pos_cmd, diff its distance from the last position taken.
Diff(cmd, a) == cmd[a] - lastPos[a]
Moves(d)     == d \notin (1-StepWidth)..(StepWidth-1)
Whole(d)     == d \div StepUnits                             \* floorf
Rest(d, a)   == leftover[a] + (d % StepUnits)
CarryOf_OneLate(x) == IF x > StepUnits THEN 1 ELSE IF x < -StepUnits THEN -1 ELSE 0
CarryOf(x)   == IF x >= StepUnits THEN 1 ELSE IF x <= -StepUnits THEN -1 ELSE 0
Clamp(p)     == IF p > MaxPulses THEN MaxPulses
                ELSE IF p < -MaxPulses THEN -MaxPulses ELSE p

\* One axis: its new last position, fraction kept, steps, and what they were
\* before they were clamped.
Step(d, a) ==
    IF Moves(d)
    THEN LET p == Whole(d) + CarryOf(Rest(d, a))
         IN  [last |-> lastPos[a] + d, left |-> Rest(d, a) - CarryOf(Rest(d, a)) * StepUnits,
              pulses |-> Clamp(p), wanted |-> p]
    ELSE [last |-> lastPos[a], left |-> leftover[a], pulses |-> 0, wanted |-> 0]

HasRoom_OneMore(n) == entries <= MaxEntries(n)
HasRoom(n) == entries < MaxEntries(n)

MotionBufferFill(cmd) ==
    LET n     == AxesInUse
        at    == entries * n
        st(a) == Step(Diff(cmd, a), a)
    IN  /\ pc = "idle" /\ ready /\ made < MaxFills
        /\ HasRoom(n)
        /\ buffer' = [k \in DOMAIN buffer |->
                        IF k \in at..at+n-1
                        THEN [entry |-> made + 1, axis |-> k - at + 1]
                        ELSE buffer[k]]
        /\ lastPos' = [a \in Axes |-> IF a <= n THEN st(a).last ELSE lastPos[a]]
        /\ leftover' = [a \in Axes |-> IF a <= n THEN st(a).left ELSE leftover[a]]
        /\ pulsed' = [a \in Axes |->
                        IF a <= n THEN pulsed[a] + st(a).pulses ELSE pulsed[a]]
        /\ clamped' = [a \in Axes |->
                        clamped[a] \/ (a <= n /\ st(a).pulses # st(a).wanted)]
        /\ entries' = entries + 1
        /\ made' = made + 1
        /\ UNCHANGED <<accepted, enabled, ready, pc, netVars, devVars, missed, moved>>

-----------------------------------------------------------------------------
(* rt_motion_buffer_send.  The device may answer, and the network lose,     *)
(* anything between the request and the one PK_ReceiveAndDispatch after it. *)

NewFill == [id |-> requests + 1, count |-> entries, axes |-> enabled,
            data |-> buffer, retries |-> 1]

MotionBufferSend ==
    /\ pc = "idle" /\ ready /\ entries # 0
    /\ requests < MaxSends
    /\ pc' = "sent"
    /\ requests' = requests + 1
    /\ pending' = pending \cup {NewFill}
    /\ wire' = wire \cup {NewFill}
    /\ UNCHANGED <<hostVars, ready, replies, devVars, history>>

\* CreateRequestAsyncWithPayload finds no free slot: its result is ignored.
MotionBufferSendFails ==
    /\ pc = "idle" /\ ready /\ entries # 0
    /\ requests < MaxSends /\ faults < MaxFaults
    /\ pc' = "sent"
    /\ requests' = requests + 1 /\ faults' = faults + 1
    /\ UNCHANGED <<hostVars, ready, pending, wire, replies, devEnabled, taken, history>>

\* PK_PEv2_BufferFillParse and the status it decodes, for the answer r.
Parsed(r) ==
    /\ enabled' = r.enabled
    /\ moved' = (moved \/ r.enabled # enabled)
    /\ replies' = replies \ {r}
    /\ pending' = {p \in pending : p.id # r.id}

EntriesLeft_NoWidth(acc) == entries - acc
EntriesLeft(acc) == (entries - acc) % CountMod

\* memmove() of rt_motion_buffer_send
Shifted_Bytes(acc, n) ==
    [k \in DOMAIN buffer |->
        IF k < entries * n - acc /\ k + acc \in DOMAIN buffer
        THEN buffer[k + acc] ELSE buffer[k]]
Shifted(acc, n) ==
    [k \in DOMAIN buffer |->
        IF k >= (entries - acc) * n THEN buffer[k]
        ELSE IF k + acc * n \in DOMAIN buffer THEN buffer[k + acc * n] ELSE BlankByte]

\* The entries the answer accepts leave the buffer; those behind them move up,
\* with the bytes past BufBytes, which no entry is written to, behind those.
RemoveAccepted(acc, n) ==
    /\ buffer' = IF acc > 0 /\ acc < entries THEN Shifted(acc, n) ELSE buffer
    /\ entries' = EntriesLeft(acc)
    /\ accepted' = 0

\* A status answer; a wrong check byte leaves PulseEngineEnabled at 0.
Status ==
    \/ /\ enabled' = devEnabled
       /\ moved' = (moved \/ devEnabled # enabled)
       /\ UNCHANGED faults
    \/ /\ faults < MaxFaults /\ faults' = faults + 1
       /\ enabled' = 0
       /\ moved' = TRUE

SendReturns ==
    /\ pc = "sent" /\ pc' = "idle"
    /\ UNCHANGED <<lastPos, leftover, ready, requests, wire, devEnabled, taken,
                   made, pulsed, clamped>>

CollectAnswer(r) ==
    /\ SendReturns
    /\ Parsed(r)
    /\ RemoveAccepted(r.accepted, AxesInUse)
    /\ missed' = (missed \/ r.id # requests)
    /\ UNCHANGED faults

\* No datagram waits, or one that is not the answer to a fill.
CollectNothing ==
    /\ SendReturns
    /\ RemoveAccepted(accepted, AxesInUse)
    /\ missed' = TRUE
    /\ Status \/ UNCHANGED <<enabled, faults, moved>>
    /\ UNCHANGED <<pending, replies>>

-----------------------------------------------------------------------------
(* The rest of the host: FUNCTION(_) dispatches answers too, the timeout     *)
(* check repeats an unanswered request once, update_device_cache lets the    *)
(* buffer functions run or not.                                             *)

DispatchAnswer(r) ==
    /\ pc = "idle"
    /\ Parsed(r)
    /\ accepted' = r.accepted
    /\ UNCHANGED <<lastPos, leftover, buffer, entries, ready, pc,
                   requests, wire, devVars, made, pulsed, clamped, missed>>

DispatchStatus ==
    /\ pc = "idle"
    /\ Status
    /\ UNCHANGED <<lastPos, leftover, buffer, entries, accepted, ready,
                   pc, netVars, devEnabled, taken, made, pulsed, clamped, missed>>

TimeoutCheck ==
    /\ pc = "idle"
    /\ \E p \in pending :
         IF p.retries = 1
         THEN /\ faults < MaxFaults /\ faults' = faults + 1
              /\ pending' = (pending \ {p}) \cup {[p EXCEPT !.retries = 0]}
              /\ wire' = wire \cup {[p EXCEPT !.retries = 0]}
         ELSE /\ pending' = pending \ {p}
              /\ UNCHANGED <<wire, faults>>
    /\ UNCHANGED <<hostVars, ready, pc, requests, replies, devEnabled, taken, history>>

SetReady ==
    /\ pc = "idle"
    /\ ready' = ~ready
    /\ UNCHANGED <<hostVars, pc, netVars, devVars, history>>

-----------------------------------------------------------------------------
(* The device.  A lost request or answer is one that stays on its way.       *)

EntryAt(r, k) == [i \in 1..r.axes |-> r.data[(k - 1) * r.axes + i - 1]]
Fits(r) == IF r.axes = 0 THEN 0
           ELSE IF r.count < MaxEntries(r.axes) THEN r.count ELSE MaxEntries(r.axes)

DeviceTakes(r, acc) ==
    /\ r \in wire /\ acc \in 0..Fits(r)
    /\ wire' = wire \ {r}
    /\ taken' = taken \o [k \in 1..acc |-> EntryAt(r, k)]
    /\ replies' = replies \cup
                    {[id |-> r.id, accepted |-> acc, enabled |-> devEnabled]}
    /\ UNCHANGED <<hostVars, ready, pc, requests, pending, devEnabled, faults, history>>

\* PK_PEv2_PulseEngineSetup by another program of the machine's set-up.
DeviceSetup(n) ==
    /\ faults < MaxFaults /\ n # devEnabled
    /\ faults' = faults + 1
    /\ devEnabled' = n
    /\ moved' = TRUE
    /\ UNCHANGED <<hostVars, ready, pc, netVars, taken, made, pulsed, clamped, missed>>

Collect == CollectNothing \/ \E r \in replies : CollectAnswer(r)
Device  == \E r \in wire : \E acc \in 0..Fits(r) : DeviceTakes(r, acc)

Next ==
    \/ \E cmd \in Commands : MotionBufferFill(cmd)
    \/ MotionBufferSend
    \/ MotionBufferSendFails
    \/ Collect
    \/ \E r \in replies : DispatchAnswer(r)
    \/ DispatchStatus
    \/ TimeoutCheck
    \/ SetReady
    \/ Device
    \/ \E n \in AxisCounts : DeviceSetup(n)

Spec == Init /\ [][Next]_vars

-----------------------------------------------------------------------------
TypeOK ==
    /\ lastPos \in [Axes -> Int]
    /\ leftover \in [Axes -> Int]
    /\ buffer \in [0..BufBytes-1 -> Byte]
    /\ entries \in 0..CountMod-1 /\ accepted \in 0..CountMod-1
    /\ enabled \in 0..NumAxes /\ devEnabled \in 0..NumAxes
    /\ ready \in BOOLEAN /\ pc \in {"idle", "sent"}
    /\ requests \in Nat /\ faults \in Nat /\ made \in Nat
    /\ \A r \in pending \cup wire : r \in Fill /\ r.id <= requests
    /\ replies \subseteq Answer
    /\ pulsed \in [Axes -> Int] /\ clamped \in [Axes -> BOOLEAN]
    /\ missed \in BOOLEAN /\ moved \in BOOLEAN

(* The fractions of a step the fill cuts off are carried over: as long as  *)
(* no entry hit the 7-bit limit, the steps put into the buffer and the     *)
(* fraction kept back add up to the position last taken from the pin, and  *)
(* less than a step is kept back.                                          *)
StepsConserved ==
    \A a \in Axes :
        ~clamped[a] => /\ pulsed[a] * StepUnits + leftover[a] = lastPos[a]
                       /\ leftover[a] \in 0..StepUnits-1

BufferedEntry(k) == [i \in 1..AxesInUse |-> buffer[(k - 1) * AxesInUse + i - 1]]
InOrder(log, from) ==
    \A k \in 1..Len(log) : \A i \in DOMAIN log[k] :
        log[k][i].entry = from + k /\ log[k][i].axis = i

(* While every call collects its own answer and the number of axes stays   *)
(* the same, the device's entries followed by those in MotionBuffer are    *)
(* all the entries made, each once, in order, for the right axis: a partly *)
(* accepted request neither drops, repeats nor shifts one.                 *)
EachEntryOnce ==
    pc = "idle" /\ ~missed /\ ~moved =>
        /\ Len(taken) + entries = made
        /\ InOrder(taken, 0)
        /\ InOrder([k \in 1..entries |-> BufferedEntry(k)], Len(taken))

(* The entry count stays in the range of the buffer: it leaves it, which   *)
(* stops the fill until 256 entries have been "accepted", only after one   *)
(* of two things, a call of rt_motion_buffer_send that returned without    *)
(* its own answer, or a status answer that changed the number of axes      *)
(* (PulseEngine_v2Async.c:47) and with it the room for entries.            *)
CountStaysInRange ==
    ~missed /\ ~moved => entries <= MaxEntries(AxesInUse)

(* "Unaccepted entries are then shifted to the front of the buffer so they *)
(* are retransmitted on the next cycle": an entry the device accepted is   *)
(* not in the next request.                                                *)
AcceptedNotResent ==
    [][\A r \in wire' \ wire : \A k \in 1..Fits(r), t \in 1..Len(taken) :
          EntryAt(r, k) # taken[t]]_vars
=============================================================================
