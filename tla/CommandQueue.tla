---------------------------- MODULE CommandQueue ----------------------------
(***************************************************************************)
(* cmd_queue of the HAL component: a ring of commands between the realtime  *)
(* functions, which enqueue, and process_async_commands, which dequeues.    *)
(* Only count is atomic, so the two run here as two threads and every       *)
(* access to shared memory is a step.  log and taken are history: what was  *)
(* put in, and how much of it has been taken out.                           *)
(***************************************************************************)
EXTENDS Integers, Sequences

CONSTANTS
    MAX_ASYNC_COMMANDS,  \* cells of the ring (32)
    Command,             \* what a cell holds
    NoCommand,           \* what it holds before its first use
    MaxCommands          \* bound on the commands put in

ASSUME CommandQueueAssumption ==
    /\ MAX_ASYNC_COMMANDS \in Nat \ {0}
    /\ NoCommand \notin Command
    /\ MaxCommands \in Nat

VARIABLES
    ring, head, tail, count,   \* commands, head, tail, count of cmd_queue
    prod,     \* the enqueuing thread: its next step and its command
    cons,     \* the dequeuing thread
    log,      \* the commands whose enqueue_async_command has returned true
    taken     \* how many of them dequeue_async_command has handed out

queueVars == <<ring, head, tail, count, prod, cons, log, taken>>

Cells == 0..MAX_ASYNC_COMMANDS-1
Idle  == [pc |-> "idle", cmd |-> NoCommand]

Init ==
    /\ ring = [c \in Cells |-> NoCommand]
    /\ head = 0 /\ tail = 0 /\ count = 0
    /\ prod = Idle /\ cons = Idle
    /\ log = <<>> /\ taken = 0

\* (i + 1) % MAX_ASYNC_COMMANDS
NextCell(i) == (i + 1) % MAX_ASYNC_COMMANDS

QueueFull_OneMore == count > MAX_ASYNC_COMMANDS
QueueFull == count >= MAX_ASYNC_COMMANDS

-----------------------------------------------------------------------------
(* enqueue_async_command                                                    *)

EnqueueStart(cmd) ==
    /\ prod.pc = "idle" /\ ~QueueFull
    /\ Len(log) < MaxCommands
    /\ prod' = [pc |-> "store", cmd |-> cmd]
    /\ UNCHANGED <<ring, head, tail, count, cons, log, taken>>

EnqueueStore ==
    /\ prod.pc = "store"
    /\ ring' = [ring EXCEPT ![head] = prod.cmd]
    /\ prod' = [prod EXCEPT !.pc = "advance"]
    /\ UNCHANGED <<head, tail, count, cons, log, taken>>

EnqueueAdvance ==
    /\ prod.pc = "advance"
    /\ head' = NextCell(head)
    /\ prod' = [prod EXCEPT !.pc = "count"]
    /\ UNCHANGED <<ring, tail, count, cons, log, taken>>

EnqueueCount ==
    /\ prod.pc = "count"
    /\ count' = count + 1
    /\ log' = Append(log, prod.cmd)
    /\ prod' = Idle
    /\ UNCHANGED <<ring, head, tail, cons, taken>>

Enqueue == EnqueueStore \/ EnqueueAdvance \/ EnqueueCount

-----------------------------------------------------------------------------
(* dequeue_async_command                                                    *)

DequeueLoad ==
    /\ cons.pc = "idle" /\ count > 0
    /\ cons' = [pc |-> "advance", cmd |-> ring[tail]]
    /\ UNCHANGED <<ring, head, tail, count, prod, log, taken>>

DequeueAdvance ==
    /\ cons.pc = "advance"
    /\ tail' = NextCell(tail)
    /\ cons' = [cons EXCEPT !.pc = "count"]
    /\ UNCHANGED <<ring, head, count, prod, log, taken>>

DequeueCount ==
    /\ cons.pc = "count"
    /\ count' = count - 1
    /\ taken' = taken + 1
    /\ cons' = [cons EXCEPT !.pc = "process"]
    /\ UNCHANGED <<ring, head, tail, prod, log>>

Dequeue == DequeueLoad \/ DequeueAdvance \/ DequeueCount

\* The caller of dequeue_async_command is done with the command.
Processed ==
    /\ cons.pc = "process"
    /\ cons' = Idle
    /\ UNCHANGED <<ring, head, tail, count, prod, log, taken>>

Next ==
    \/ \E cmd \in Command : EnqueueStart(cmd)
    \/ Enqueue
    \/ Dequeue
    \/ Processed

Spec == Init /\ [][Next]_queueVars

-----------------------------------------------------------------------------
Queue_TypeOK ==
    /\ ring \in [Cells -> Command \cup {NoCommand}]
    /\ head \in Cells /\ tail \in Cells /\ count \in 0..MAX_ASYNC_COMMANDS
    /\ prod \in [pc : {"idle", "store", "advance", "count"}, cmd : Command \cup {NoCommand}]
    /\ prod.pc # "idle" => prod.cmd \in Command
    /\ cons \in [pc : {"idle", "advance", "count", "process"}, cmd : Command \cup {NoCommand}]
    /\ log \in Seq(Command) /\ taken \in Nat

(* Whatever the two threads are in the middle of, the command in hand of   *)
(* the dequeuing one is the oldest that was put in and not taken out: no   *)
(* cell is read before it is written, or overwritten before it is read.    *)
OldestFirst ==
    /\ cons.pc \in {"advance", "count"} => /\ taken < Len(log)
                                           /\ cons.cmd = log[taken + 1]
    /\ cons.pc = "process" => /\ taken \in 1..Len(log)
                              /\ cons.cmd = log[taken]
=============================================================================
