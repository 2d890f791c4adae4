-------------------------- MODULE PoKeysAsyncComp ---------------------------
(***************************************************************************)
(* The thread of the HAL component experimental/pokeys_async.c around the  *)
(* mailbox of PoKeysLibAsync: FUNCTION(_), one servo period of the         *)
(* real-time build, or one turn of user_mainloop of the other.  The socket *)
(* hands the datagrams over in the order of their arrival.                 *)
(*                                                                         *)
(* Which task of the scheduler is due is AsyncScheduler's matter: here the *)
(* dispatch phase makes any requests.  A datagram that arrives twice is    *)
(* PoKeysLibAsync's: here each arrives once.                               *)
(***************************************************************************)
EXTENDS PoKeysLibAsync, Sequences

VARIABLES
    rtapi,   \* the component is built with RTAPI: FUNCTION(_) is its thread
    phase,   \* what the thread is doing
    rx       \* the receive buffer of the socket

compVars == <<vars, rtapi, phase, rx>>

CompInit ==
    /\ Init
    /\ rtapi \in BOOLEAN
    /\ phase = "ready"
    /\ rx = <<>>

-----------------------------------------------------------------------------
(* Mutated forms of the definitions below. *)

AfterPhase_NoTimeouts(ph) ==
    [ready |-> "drain1", drain1 |-> "dispatch", timeout |-> "dispatch",
     dispatch |-> "drain2", drain2 |-> "asleep"][ph]

-----------------------------------------------------------------------------

\* FUNCTION(_) reads, checks the timeouts, sends, and reads once more;
\* user_mainloop sends, reads, checks the timeouts and sleeps.
AfterPhase(ph) ==
    IF rtapi
    THEN [ready |-> "drain1", drain1 |-> "timeout", timeout |-> "dispatch",
          dispatch |-> "drain2", drain2 |-> "asleep"][ph]
    ELSE [ready |-> "dispatch", dispatch |-> "drain1", drain1 |-> "timeout",
          timeout |-> "asleep"][ph]

Proceed == phase' = AfterPhase(phase) /\ UNCHANGED rtapi

\* The thread begins a turn.
WakeUp ==
    /\ phase = "ready"
    /\ Proceed
    /\ UNCHANGED rx /\ UNCHANGED vars

Draining == phase \in {"drain1", "drain2"}

\* PK_ReceiveAndDispatch() returns 0: no socket, or nothing to read.
DrainNothing ==
    /\ Draining
    /\ ~handle \/ rx = <<>>
    /\ Proceed
    /\ UNCHANGED rx /\ UNCHANGED vars

\* It reads a datagram; having discarded it, it returns a negative error,
\* and "while (PK_ReceiveAndDispatch(dev) > 0)" ends.
DrainOne ==
    /\ Draining
    /\ rx # <<>>
    /\ rx' = Tail(rx)
    /\ \/ Dispatched(Head(rx)) /\ UNCHANGED <<phase, rtapi>>
       \/ Discarded(Head(rx)) /\ Proceed
    /\ UNCHANGED replies

\* The time budget of the second drain is used up.
DrainBudget ==
    /\ phase = "drain2"
    /\ Proceed
    /\ UNCHANGED rx /\ UNCHANGED vars

\* PK_TimeoutAndRetryCheck(): the call, its turns, and its return.
TimeoutPhase ==
    /\ phase = "timeout"
    /\ TimeoutCheck \/ TimeoutSlot
    /\ IF scan' = 0 THEN Proceed ELSE UNCHANGED <<phase, rtapi>>
    /\ UNCHANGED rx

\* async_dispatcher() has a task make a request ...
DispatchRequest ==
    /\ phase = "dispatch"
    /\ Create
    /\ UNCHANGED <<rtapi, phase, rx>>

\* ... until nothing is due or the time budget is used up.
DispatchDone ==
    /\ phase = "dispatch"
    /\ Proceed
    /\ UNCHANGED rx /\ UNCHANGED vars

\* A datagram reaches the socket; the rest of the network is the mailbox's.
Arrives(p) ==
    /\ handle
    /\ replies' = replies \ {p}
    /\ rx' = Append(rx, p)
    /\ UNCHANGED <<handle, scan, polled, wire, sends, rtapi, phase>>
    /\ UNCHANGED hostVars

NetworkStep == Network /\ UNCHANGED <<rtapi, phase, rx>>

\* The next servo period begins, or usleep() returns.
ClockStep == /\ phase = "asleep"
             /\ phase' = "ready"
             /\ ClockMoves
             /\ UNCHANGED <<rtapi, rx>>

Thread == \/ WakeUp \/ DrainNothing \/ DrainOne \/ DrainBudget \/ TimeoutPhase
          \/ DispatchRequest \/ DispatchDone

CompNext ==
    \/ Thread
    \/ \E p \in replies : Arrives(p)
    \/ NetworkStep
    \/ ClockStep

CompSpec == CompInit /\ [][CompNext]_compVars

\* The thread runs in every period and the clock does not stop.
CompFairness == WF_compVars(Thread) /\ WF_compVars(ClockStep)

CompFairSpec == CompSpec /\ CompFairness

-----------------------------------------------------------------------------
(* Properties *)

\* The component keeps to the contract of the mailbox, its fairness included:
\* it calls PK_TimeoutAndRetryCheck in every period, never while another call
\* is in progress, and reads only what the network delivered.
Mailbox == INSTANCE PoKeysLibAsync
           WITH replies <- replies \cup {rx[k] : k \in 1..Len(rx)}

ImplementsMailbox == Mailbox!FairSpec

=============================================================================
