---------------------------- MODULE PulseCommands ---------------------------
(***************************************************************************)
(* The realtime side of the HAL component's pulse engine: pins are read     *)
(* into motion_data, changes become commands in cmd_queue,                  *)
(* process_async_commands turns the commands into requests, and             *)
(* update_device_cache decides whether the device can be reached and        *)
(* whether its emergency input is active.                                   *)
(*                                                                         *)
(* The functions are static and the shipped FUNCTION(_) calls none of them; *)
(* "called from RT thread periodically", in no stated order.  So the        *)
(* realtime functions run here in any order, next to the thread that        *)
(* dequeues.  The time since the last status request and reconnection is    *)
(* left open: either interval may have passed or not.  made, dropped and    *)
(* droppedOut are history.                                                  *)
(***************************************************************************)
EXTENDS CommandQueue

CONSTANTS
    Axes,             \* the engine's axes (8)
    Positions,        \* commanded positions, with their velocities
    InitialPosition,  \* what motion_data starts with
    Outputs,          \* states of the external relays and outputs
    InitialOutput,
    MAX_COMMANDS_PER_CYCLE,   \* 3
    MaxErrors,        \* error_count up to which the link counts as good (10)
    MaxEvents         \* bound on pin changes, failed calls and emergencies

MoveCommand == {[type |-> "MOVE_PV", mask |-> m, pos |-> p] :
                  m \in (SUBSET Axes) \ {{}}, p \in [Axes -> Positions]}
HomeCommand == {[type |-> "HOME_START", mask |-> m] : m \in (SUBSET Axes) \ {{}}}
OutCommand  == {[type |-> "EXTERNAL_OUTPUT_SET", out |-> o] : o \in Outputs}
PulseCommand == MoveCommand \cup HomeCommand \cup OutCommand

ASSUME PulseCommandsAssumption ==
    /\ Command = PulseCommand
    /\ InitialPosition \in Positions /\ InitialOutput \in Outputs
    /\ MAX_COMMANDS_PER_CYCLE \in Nat \ {0}
    /\ MaxErrors \in Nat /\ MaxEvents \in Nat

VARIABLES
    pos,        \* pin_joint_pos_cmd and pin_joint_vel_cmd
    homing,     \* the axes whose pin_HomingStatus is not 0
    outs,       \* pin_digout_ExternalRelay_out, pin_digout_ExternalOC_out
    posCmd,     \* motion_data.pos_cmd, vel_cmd
    changed,    \* motion_data.pos_cmd_changed
    lastHoming, lastOuts,     \* last_homing_status, last_*_outputs
    connected, commOk, stopped, errors,
                \* device_cache: device_connected, communication_ok,
                \* emergency_stop_active, error_count
    errorInput, \* the emergency bit of PEv2.ErrorInputStatus
    reference,  \* PEv2.ReferencePositionSpeed and ReferenceVelocityPV
    extOutputs, \* PEv2.ExternalRelayOutputs, ExternalOCOutputs
    cycle,      \* -1, or commands_processed inside process_async_commands
    events,
    sent,       \* per axis, the position in the last request made to move it
    sentOut,    \* the outputs in the last request made to set them
    failed,     \* the axes whose last request could not be made
    failedOut,  \* whether that of the outputs could not
    dropped, droppedOut

pins     == <<pos, homing, outs>>
motion   == <<posCmd, changed, lastHoming, lastOuts>>
cache    == <<connected, commOk, stopped, errors>>
engine   == <<errorInput, reference, extOutputs>>
made     == <<sent, sentOut, failed, failedOut>>
ghosts   == <<made, dropped, droppedOut>>
pulseVars == <<queueVars, pins, motion, cache, engine, cycle, events, ghosts>>

PulseInit ==
    /\ Init
    /\ pos = [a \in Axes |-> InitialPosition]
    /\ homing = {} /\ outs = InitialOutput
    /\ posCmd = pos /\ changed = {}
    /\ lastHoming = {} /\ lastOuts = outs
    /\ connected \in BOOLEAN /\ commOk = FALSE
    /\ stopped = FALSE /\ errors = 0
    /\ errorInput = FALSE /\ reference = posCmd /\ extOutputs = outs
    /\ cycle = -1 /\ events = 0
    /\ sent = posCmd /\ sentOut = outs /\ failed = {} /\ failedOut = FALSE
    /\ dropped = {} /\ droppedOut = FALSE

-----------------------------------------------------------------------------
(* The realtime functions.  prod.pc # "idle" is one of them inside          *)
(* enqueue_async_command.                                                   *)

RT == prod.pc = "idle"

ChangesMarked_LatestOnly == {a \in Axes : pos[a] # posCmd[a]}
ChangesMarked == changed \cup {a \in Axes : pos[a] # posCmd[a]}

\* rt_read_command_pins
ReadCommandPins ==
    /\ RT
    /\ posCmd' = pos
    /\ changed' = ChangesMarked
    /\ UNCHANGED <<queueVars, pins, lastHoming, lastOuts, cache, engine, cycle,
                   events, ghosts>>

NotReady == ~commOk \/ stopped

\* rt_update_motion_commands when the device is not ready: the changes are
\* forgotten.
ClearMotionCommands ==
    /\ RT /\ NotReady
    /\ changed' = {}
    /\ dropped' = dropped \cup changed
    /\ UNCHANGED <<queueVars, pins, posCmd, lastHoming, lastOuts, cache, engine,
                   cycle, events, made, droppedOut>>

\* The cells of axes outside the mask are uninitialized; nothing reads them.
MoveOf(m) == [type |-> "MOVE_PV", mask |-> m, pos |-> posCmd]

UpdateMotionCommands ==
    /\ RT /\ ~NotReady /\ changed # {}
    /\ changed' = {}
    /\ \/ /\ EnqueueStart(MoveOf(changed))
          /\ dropped' = dropped \ changed
       \/ /\ QueueFull
          /\ dropped' = dropped \cup changed
          /\ UNCHANGED queueVars
    /\ UNCHANGED <<pins, posCmd, lastHoming, lastOuts, cache, engine, cycle,
                   events, made, droppedOut>>

\* rt_read_device_cache as far as it writes motion_data
ReadDeviceCache ==
    /\ RT /\ commOk /\ stopped
    /\ changed' = {}
    /\ dropped' = dropped \cup changed
    /\ UNCHANGED <<queueVars, pins, posCmd, lastHoming, lastOuts, cache, engine,
                   cycle, events, made, droppedOut>>

HandleHomingCommands ==
    /\ RT /\ homing # lastHoming
    /\ lastHoming' = homing
    /\ LET mask == homing \ lastHoming
       IN  \/ /\ mask # {}
              /\ EnqueueStart([type |-> "HOME_START", mask |-> mask])
           \/ /\ mask = {} \/ QueueFull
              /\ UNCHANGED queueVars
    /\ UNCHANGED <<pins, posCmd, changed, lastOuts, cache, engine, cycle, events, ghosts>>

UpdateExternalOutputs ==
    /\ RT /\ outs # lastOuts
    /\ lastOuts' = outs
    /\ extOutputs' = outs
    /\ \/ /\ EnqueueStart([type |-> "EXTERNAL_OUTPUT_SET", out |-> outs])
          /\ droppedOut' = FALSE
       \/ /\ QueueFull
          /\ droppedOut' = TRUE
          /\ UNCHANGED queueVars
    /\ UNCHANGED <<pins, posCmd, changed, lastHoming, cache, errorInput, reference,
                   cycle, events, made, dropped>>

EnqueueStep ==
    /\ Enqueue
    /\ UNCHANGED <<pins, motion, cache, engine, cycle, events, ghosts>>

-----------------------------------------------------------------------------
(* process_async_commands                                                   *)

ProcessStart ==
    /\ cycle = -1 /\ connected /\ commOk
    /\ cycle' = 0
    /\ UNCHANGED <<queueVars, pins, motion, cache, engine, events, ghosts>>

DequeueStep ==
    /\ cycle \in 0..MAX_COMMANDS_PER_CYCLE-1
    /\ Dequeue
    /\ UNCHANGED <<pins, motion, cache, engine, cycle, events, ghosts>>

ProcessEnd ==
    /\ cycle >= 0 /\ cons.pc = "idle"
    /\ cycle = MAX_COMMANDS_PER_CYCLE \/ count <= 0
    /\ cycle' = -1
    /\ UNCHANGED <<queueVars, pins, motion, cache, engine, events, ghosts>>

\* A call that fails counts, and decides over communication_ok.
Counted(ok) ==
    \/ ok /\ UNCHANGED <<errors, events, commOk>>
    \/ /\ ~ok
       /\ events < MaxEvents /\ events' = events + 1
       /\ errors' = errors + 1
       /\ commOk' = (commOk /\ errors' <= MaxErrors)

\* The call puts the command into PEv2 and makes the request from there; the
\* request moves the axes of the mask (PEv2.param2).
ProcessMove(ok) ==
    /\ cons.cmd.type = "MOVE_PV"
    /\ LET mask == cons.cmd.mask
       IN  /\ reference' = [a \in Axes |-> IF a \in mask THEN cons.cmd.pos[a]
                                           ELSE reference[a]]
           /\ sent' = [a \in Axes |-> IF ok /\ a \in mask THEN reference'[a] ELSE sent[a]]
           /\ failed' = IF ok THEN failed \ mask ELSE failed \cup mask
    /\ UNCHANGED <<extOutputs, sentOut, failedOut>>

ProcessHome(ok) ==
    /\ cons.cmd.type = "HOME_START"
    /\ UNCHANGED <<reference, extOutputs, made>>

ProcessOut(ok) ==
    /\ cons.cmd.type = "EXTERNAL_OUTPUT_SET"
    /\ extOutputs' = cons.cmd.out
    /\ sentOut' = IF ok THEN extOutputs' ELSE sentOut
    /\ failedOut' = ~ok
    /\ UNCHANGED <<reference, sent, failed>>

ProcessCommand ==
    /\ cycle >= 0
    /\ Processed
    /\ cycle' = cycle + 1
    /\ \E ok \in BOOLEAN :
         /\ ProcessMove(ok) \/ ProcessHome(ok) \/ ProcessOut(ok)
         /\ Counted(ok)
    /\ UNCHANGED <<pins, motion, connected, stopped, errorInput, dropped, droppedOut>>

-----------------------------------------------------------------------------
(* update_device_cache                                                      *)

Reconnects_WithoutErrors == ~commOk /\ connected /\ errors = 0
Reconnects == ~commOk /\ connected

\* Either interval may have passed: a lost link is taken for restored, and the
\* status is asked for and copied from what was decoded last.  A request that
\* finds no slot leaves the cache as it is.
UpdateDeviceCache ==
    LET errorsNow == IF Reconnects THEN 0 ELSE errors
    IN  /\ cycle = -1 /\ (commOk \/ Reconnects)
        /\ commOk' = TRUE
        /\ \/ /\ Reconnects
              /\ errors' = errorsNow
              /\ UNCHANGED <<stopped, events>>
           \/ /\ events < MaxEvents /\ events' = events + 1
              /\ errors' = errorsNow + 1
              /\ UNCHANGED stopped
           \/ /\ stopped' = errorInput
              /\ errors' = errorsNow
              /\ UNCHANGED events
        /\ UNCHANGED <<queueVars, pins, motion, connected, engine, cycle, ghosts>>

-----------------------------------------------------------------------------
(* LinuxCNC writes the pins, the status parser PEv2.ErrorInputStatus.       *)

Event ==
    /\ events < MaxEvents /\ events' = events + 1
    /\ \/ /\ \E a \in Axes : \E p \in Positions \ {pos[a]} : pos' = [pos EXCEPT ![a] = p]
          /\ UNCHANGED <<homing, outs, errorInput>>
       \/ /\ \E a \in Axes : homing' = (homing \ {a}) \cup ({a} \ homing)
          /\ UNCHANGED <<pos, outs, errorInput>>
       \/ /\ outs' \in Outputs \ {outs}
          /\ UNCHANGED <<pos, homing, errorInput>>
       \/ /\ errorInput' = ~errorInput
          /\ UNCHANGED <<pos, homing, outs>>
    /\ UNCHANGED <<queueVars, motion, cache, reference, extOutputs, cycle, ghosts>>

ProcessAsyncCommands == ProcessStart \/ DequeueStep \/ ProcessCommand \/ ProcessEnd
RealtimeFunctions ==
    \/ ReadCommandPins \/ ClearMotionCommands \/ UpdateMotionCommands
    \/ ReadDeviceCache \/ HandleHomingCommands \/ UpdateExternalOutputs

PulseNext ==
    \/ RealtimeFunctions
    \/ EnqueueStep
    \/ ProcessAsyncCommands
    \/ UpdateDeviceCache
    \/ Event

PulseSpec == PulseInit /\ [][PulseNext]_pulseVars

\* Both threads run, and the link comes back.
PulseFairness ==
    /\ WF_pulseVars(EnqueueStep)
    /\ WF_pulseVars(ProcessAsyncCommands)
    /\ WF_pulseVars(~commOk /\ UpdateDeviceCache)

FairPulseSpec == PulseSpec /\ PulseFairness

-----------------------------------------------------------------------------
TypeOK ==
    /\ Queue_TypeOK
    /\ pos \in [Axes -> Positions] /\ posCmd \in [Axes -> Positions]
    /\ reference \in [Axes -> Positions] /\ sent \in [Axes -> Positions]
    /\ homing \subseteq Axes /\ lastHoming \subseteq Axes /\ changed \subseteq Axes
    /\ {outs, lastOuts, extOutputs, sentOut} \subseteq Outputs
    /\ {connected, commOk, stopped, errorInput, failedOut, droppedOut} \subseteq BOOLEAN
    /\ errors \in 0..MaxEvents /\ events \in 0..MaxEvents
    /\ cycle \in -1..MAX_COMMANDS_PER_CYCLE /\ failed \subseteq Axes /\ dropped \subseteq Axes

\* The commands that are not processed yet, by their number in the order they
\* were put in: the one in hand, those in the ring, and the one on its way in.
Waiting ==
    (IF cons.pc = "process" THEN taken ELSE taken + 1)
        .. (Len(log) + (IF RT THEN 0 ELSE 1))
CommandNo(k) == IF cons.pc = "process" /\ k = taken THEN cons.cmd
                ELSE IF k <= Len(log) THEN log[k] ELSE prod.cmd

MovesOf(a) == {k \in Waiting : CommandNo(k).type = "MOVE_PV" /\ a \in CommandNo(k).mask}
OutsOf     == {k \in Waiting : CommandNo(k).type = "EXTERNAL_OUTPUT_SET"}
LastOf(S)  == {k \in S : \A j \in S : j <= k}

(* No command is lost on the way from the pin to the requests except where *)
(* the code drops it: for each axis the position last read is marked as    *)
(* changed, or is that of the last command waiting, or with none waiting   *)
(* that of the last request made -- or the change met a device that was    *)
(* not ready or a full queue, or the request for it could not be made.     *)
LastPositionsKept ==
    \A a \in Axes \ (changed \cup dropped) :
        /\ MovesOf(a) = {} /\ a \notin failed => posCmd[a] = sent[a]
        /\ \A k \in LastOf(MovesOf(a)) : posCmd[a] = CommandNo(k).pos[a]

(* The outputs last read are in the last request made to set them or in    *)
(* the last command waiting, unless the queue was full when they were read *)
(* or the request for them could not be made; PEv2 holds them even then.   *)
LastOutputsKept ==
    ~droppedOut =>
        /\ OutsOf = {} /\ ~failedOut => lastOuts = sentOut
        /\ \A k \in LastOf(OutsOf) : lastOuts = CommandNo(k).out

(* Both: what LinuxCNC has set last is not lost between the two threads.   *)
LastCommandKept == LastPositionsKept /\ LastOutputsKept

(* As long as the device is connected the queue is emptied again and again,*)
(* however many calls fail.                                                *)
QueueDrained == []<>(count = 0 \/ ~connected)
=============================================================================
