------------------------ MODULE PoKeysAsyncComp_proof ------------------------
(***************************************************************************)
(* The component's thread keeps to the contract of the mailbox: every step  *)
(* of it is a step of PoKeysLibAsync or leaves the mailbox alone, so that   *)
(* what is proved of the mailbox holds of the component.                    *)
(***************************************************************************)
EXTENDS PoKeysAsyncComp, SequenceTheorems, TLAPS

Received == {rx[k] : k \in 1..Len(rx)}
OnTheWay == replies \cup Received

\* The mailbox the component drives, as in PoKeysAsyncComp, with its theorems.
MB == INSTANCE PoKeysLibAsync_proof WITH replies <- replies \cup {rx[k] : k \in 1..Len(rx)}

LEMMA SameInit == Mailbox!Init <=> MB!Init
  BY DEF
      Mailbox!Init, MB!Init, Mailbox!Slots, MB!Slots, Mailbox!Cleared, MB!Cleared,
      Mailbox!NoDispatch, MB!NoDispatch, Mailbox!Expired, MB!Expired

LEMMA SameNext == [Mailbox!Next]_(Mailbox!vars) <=> [MB!Next]_(MB!vars)
<1>1. Mailbox!Next <=> MB!Next
  BY DEF
      Mailbox!hostVars, MB!hostVars, Mailbox!vars, MB!vars, Mailbox!Slots, MB!Slots,
      Mailbox!Statuses, MB!Statuses, Mailbox!Expired, MB!Expired, Mailbox!LifeCap,
      MB!LifeCap, Mailbox!SendsCap, MB!SendsCap, Mailbox!Packet, MB!Packet,
      Mailbox!Transaction, MB!Transaction, Mailbox!Cleared, MB!Cleared,
      Mailbox!NewTransaction, MB!NewTransaction, Mailbox!PacketOf, MB!PacketOf,
      Mailbox!NoDispatch, MB!NoDispatch, Mailbox!Init, MB!Init, Mailbox!NextRequestId,
      MB!NextRequestId, Mailbox!Allocatable, MB!Allocatable, Mailbox!FirstFree,
      MB!FirstFree, Mailbox!Finds, MB!Finds, Mailbox!EchoMatches, MB!EchoMatches,
      Mailbox!AfterRetry, MB!AfterRetry, Mailbox!AfterFailedRetry, MB!AfterFailedRetry,
      Mailbox!Overdue, MB!Overdue, Mailbox!GivesUp, MB!GivesUp, Mailbox!Counted,
      MB!Counted, Mailbox!BreakerOpen, MB!BreakerOpen, Mailbox!CreateAndSendRequestAsync,
      MB!CreateAndSendRequestAsync, Mailbox!CreateRequestTooBig, MB!CreateRequestTooBig,
      Mailbox!Discards, MB!Discards, Mailbox!Discarded, MB!Discarded, Mailbox!Dispatched,
      MB!Dispatched, Mailbox!ReceiveDiscard, MB!ReceiveDiscard, Mailbox!ReceiveDispatch,
      MB!ReceiveDispatch, Mailbox!TimeoutCheckNoHandle, MB!TimeoutCheckNoHandle,
      Mailbox!TimeoutCheckBackoff, MB!TimeoutCheckBackoff, Mailbox!TimeoutCheckStart,
      MB!TimeoutCheckStart, Mailbox!Advance, MB!Advance, Mailbox!TimeoutSlotSkip,
      MB!TimeoutSlotSkip, Mailbox!TimeoutSlotRetry, MB!TimeoutSlotRetry,
      Mailbox!TimeoutSlotRetryFails, MB!TimeoutSlotRetryFails, Mailbox!TimeoutSlotGiveUp,
      MB!TimeoutSlotGiveUp, Mailbox!DeviceAnswers, MB!DeviceAnswers, Mailbox!LoseRequest,
      MB!LoseRequest, Mailbox!LoseReply, MB!LoseReply, Mailbox!Aged, MB!Aged,
      Mailbox!ClockMoves, MB!ClockMoves, Mailbox!Tick, MB!Tick, Mailbox!Create, MB!Create,
      Mailbox!TimeoutCheck, MB!TimeoutCheck, Mailbox!TimeoutSlot, MB!TimeoutSlot,
      Mailbox!Network, MB!Network, Mailbox!Next, MB!Next
<1>. QED BY <1>1 DEF Mailbox!vars, MB!vars

LEMMA SameMailbox == Mailbox!Spec <=> MB!Spec
  BY SameInit, SameNext, PTL DEF Mailbox!Spec, MB!Spec

(***************************************************************************)
(* The receive buffer.                                                     *)
(***************************************************************************)
LEMMA ReceivedTail ==
    ASSUME NEW S, rx \in Seq(S), rx # <<>>, rx' = Tail(rx)
    PROVE  /\ Head(rx) \in Received /\ rx' \in Seq(S)
           /\ Received' \subseteq Received
           /\ Received \subseteq Received' \cup {Head(rx)}
<1>1. Len(rx) \in Nat /\ Len(rx) # 0 /\ Head(rx) = rx[1] /\ 1 \in 1..Len(rx)
  BY SMT
<1>2. /\ rx' \in Seq(S) /\ Len(rx') = Len(rx) - 1
      /\ \A k \in 1..Len(rx') : rx'[k] = rx[k + 1]
  BY HeadTailProperties
<1>3. \A k \in 1..Len(rx') : k + 1 \in 1..Len(rx)
  BY <1>1, <1>2, SMT
<1>4. \A k \in 1..Len(rx) : k = 1 \/ (k - 1 \in 1..Len(rx') /\ rx[k] = rx'[k - 1])
  <2>1. \A k \in 1..Len(rx) : k = 1 \/ (k - 1 \in 1..Len(rx') /\ (k - 1) + 1 = k)
    BY <1>1, <1>2, SMT
  <2>. QED BY <1>2, <2>1
<1>5. Received' \subseteq Received
  BY <1>2, <1>3 DEF Received
<1>6. Received \subseteq Received' \cup {Head(rx)}
  BY <1>1, <1>4 DEF Received
<1>. QED BY <1>1, <1>2, <1>5, <1>6 DEF Received

LEMMA ReceivedAppend ==
    ASSUME NEW S, rx \in Seq(S), NEW p \in S, rx' = Append(rx, p)
    PROVE  rx' \in Seq(S) /\ Received' = Received \cup {p}
<1>1. /\ rx' \in Seq(S) /\ Len(rx') = Len(rx) + 1 /\ Len(rx) \in Nat
      /\ \A k \in 1..Len(rx) : rx'[k] = rx[k]
      /\ rx'[Len(rx) + 1] = p
  BY AppendProperties
<1>2. 1..Len(rx') = 1..Len(rx) \cup {Len(rx) + 1}
  BY <1>1, SMT
<1>. QED BY <1>1, <1>2 DEF Received

(***************************************************************************)
(* The calls of the thread are those of the mailbox.                       *)
(***************************************************************************)
LEMMA CreateMaps == Create /\ UNCHANGED rx => Mailbox!Create
<1> SUFFICES ASSUME Create, UNCHANGED rx PROVE Mailbox!Create
  OBVIOUS
<1>1. (replies \cup {rx[k] : k \in 1..Len(rx)})' = replies \cup {rx[k] : k \in 1..Len(rx)}
  BY DEF Create, CreateAndSendRequestAsync, CreateRequestTooBig
<1>2. CASE CreateRequestTooBig
  BY <1>1, <1>2, Zenon
  DEF CreateRequestTooBig, Mailbox!CreateRequestTooBig, Mailbox!Create, FirstFree, Mailbox!FirstFree, Allocatable, Mailbox!Allocatable,
      Slots, Mailbox!Slots, Cleared, Mailbox!Cleared, NextRequestId, Mailbox!NextRequestId, Expired, Mailbox!Expired
<1>3. ASSUME NEW c \in Commands, NEW sent \in BOOLEAN, CreateAndSendRequestAsync(c, sent)
      PROVE  Mailbox!CreateAndSendRequestAsync(c, sent)
  <2> DEFINE id == NextRequestId(currentId)
             tbl(i) == [trans EXCEPT ![i] = NewTransaction(id, c, created + 1)]
  <2>1. /\ Mailbox!NextRequestId(currentId) = id
        /\ Mailbox!NewTransaction(id, c, created + 1) = NewTransaction(id, c, created + 1)
        /\ Mailbox!Slots = Slots
        /\ \A i : Mailbox!FirstFree(i) = FirstFree(i)
        /\ \A t, n, i : Mailbox!Finds(t, n, i) = Finds(t, n, i)
        /\ \A t : Mailbox!PacketOf(t) = PacketOf(t) /\ Mailbox!Counted(t) = Counted(t)
    BY Zenon DEF FirstFree, Mailbox!FirstFree, Allocatable, Mailbox!Allocatable,
      Slots, Mailbox!Slots, Cleared, Mailbox!Cleared, NextRequestId, Mailbox!NextRequestId, Expired, Mailbox!Expired,
      NewTransaction, Mailbox!NewTransaction, Finds, Mailbox!Finds, PacketOf, Mailbox!PacketOf, Counted, Mailbox!Counted, SendsCap, Mailbox!SendsCap
  <2>2. PICK i \in Slots :
          /\ FirstFree(i) /\ currentId' = id /\ created' = created + 1
          /\ \E j \in Slots :
               /\ Finds(tbl(i), id, j)
                    /\ IF handle /\ sent
                       THEN /\ wire' = wire \cup {PacketOf(tbl(i)[j])}
                            /\ trans' = [tbl(i) EXCEPT ![j].age = 0]
                            /\ sends' = Counted(tbl(i)[j])
                       ELSE trans' = tbl(i) /\ UNCHANGED <<wire, sends>>
    BY <1>3, Zenon DEF CreateAndSendRequestAsync
  <2>. QED BY <1>1, <1>3, <2>1, <2>2, Zenon DEF CreateAndSendRequestAsync, Mailbox!CreateAndSendRequestAsync
<1>. QED BY <1>2, <1>3 DEF Create, Mailbox!Create

LEMMA TimeoutMaps ==
    (TimeoutCheck \/ TimeoutSlot) /\ UNCHANGED rx => Mailbox!TimeoutCheck \/ Mailbox!TimeoutSlot
<1> SUFFICES ASSUME TimeoutCheck \/ TimeoutSlot, UNCHANGED rx
             PROVE  Mailbox!TimeoutCheck \/ Mailbox!TimeoutSlot
  OBVIOUS
<1>1. UNCHANGED (replies \cup {rx[k] : k \in 1..Len(rx)})
  BY DEF TimeoutCheck, TimeoutCheckNoHandle, TimeoutCheckBackoff, TimeoutCheckStart, TimeoutSlot,
         TimeoutSlotSkip, TimeoutSlotRetry, TimeoutSlotRetryFails, TimeoutSlotGiveUp
<1>2. /\ Mailbox!Slots = Slots /\ (Mailbox!BreakerOpen <=> BreakerOpen)
      /\ \A t : /\ Mailbox!Overdue(t) = Overdue(t) /\ Mailbox!GivesUp(t) = GivesUp(t)
               /\ Mailbox!AfterRetry(t) = AfterRetry(t)
               /\ Mailbox!AfterFailedRetry(t) = AfterFailedRetry(t)
               /\ Mailbox!PacketOf(t) = PacketOf(t) /\ Mailbox!Counted(t) = Counted(t)
      /\ Mailbox!Advance <=> Advance
  BY DEF
      Slots, Mailbox!Slots, BreakerOpen, Mailbox!BreakerOpen, Overdue, Mailbox!Overdue,
      GivesUp, Mailbox!GivesUp, AfterRetry, Mailbox!AfterRetry, AfterFailedRetry,
      Mailbox!AfterFailedRetry, PacketOf, Mailbox!PacketOf, Counted, Mailbox!Counted,
      SendsCap, Mailbox!SendsCap, Advance, Mailbox!Advance
<1>3. CASE TimeoutCheckNoHandle
  BY <1>1, <1>2, <1>3, Zenon
  DEF TimeoutCheckNoHandle, Mailbox!TimeoutCheckNoHandle, Mailbox!TimeoutCheck
<1>4. CASE TimeoutCheckBackoff
  BY <1>1, <1>2, <1>4, Zenon
  DEF TimeoutCheckBackoff, Mailbox!TimeoutCheckBackoff, Mailbox!TimeoutCheck, hostVars, Mailbox!hostVars
<1>5. CASE TimeoutCheckStart
  BY <1>1, <1>2, <1>5, Zenon
  DEF TimeoutCheckStart, Mailbox!TimeoutCheckStart, Mailbox!TimeoutCheck
<1>6. CASE TimeoutSlotSkip
  BY <1>1, <1>2, <1>6, Zenon
  DEF TimeoutSlotSkip, Mailbox!TimeoutSlotSkip, Mailbox!TimeoutSlot, hostVars, Mailbox!hostVars
<1>7. CASE TimeoutSlotRetry
  BY <1>1, <1>2, <1>7, Zenon
  DEF TimeoutSlotRetry, Mailbox!TimeoutSlotRetry, Mailbox!TimeoutSlot
<1>8. CASE TimeoutSlotRetryFails
  BY <1>1, <1>2, <1>8, Zenon
  DEF TimeoutSlotRetryFails, Mailbox!TimeoutSlotRetryFails, Mailbox!TimeoutSlot
<1>9. CASE TimeoutSlotGiveUp
  BY <1>1, <1>2, <1>9, Zenon
  DEF TimeoutSlotGiveUp, Mailbox!TimeoutSlotGiveUp, Mailbox!TimeoutSlot
<1>. QED BY <1>3, <1>4, <1>5, <1>6, <1>7, <1>8, <1>9 DEF TimeoutCheck, TimeoutSlot

\* A datagram read is dispatched, and gone or there once more, or discarded.
LEMMA DrainMaps ==
    ASSUME NEW S, rx \in Seq(S), DrainOne, scan = 0
    PROVE  [Mailbox!Next]_(Mailbox!vars)
<1>0. PICK p : p = Head(rx)
  OBVIOUS
<1>1. rx # <<>> /\ rx' = Tail(rx) /\ replies' = replies
  BY DEF DrainOne
<1>2. p \in OnTheWay /\ (OnTheWay' = OnTheWay \/ OnTheWay' = OnTheWay \ {p})
  BY <1>0, <1>1, ReceivedTail DEF OnTheWay
<1>3. CASE Dispatched(p)
  <2>1. Mailbox!Dispatched(p)
    BY <1>3, Zenon DEF
      Dispatched, Mailbox!Dispatched, Slots, Mailbox!Slots, Finds, Mailbox!Finds,
      EchoMatches, Mailbox!EchoMatches
  <2>2. Mailbox!ReceiveDispatch(p)
    BY <1>2, <2>1, Zenon DEF Mailbox!ReceiveDispatch, OnTheWay, Received
  <2>3. Mailbox!Next
    BY <1>2, <2>2 DEF Mailbox!Next, OnTheWay, Received
  <2>. QED BY <2>3
<1>4. CASE Discarded(p)
  <2>1. Mailbox!Discarded(p)
    BY <1>4, Zenon DEF
      Discarded, Mailbox!Discarded, Discards, Mailbox!Discards, Slots, Mailbox!Slots,
      Finds, Mailbox!Finds, EchoMatches, Mailbox!EchoMatches, hostVars, Mailbox!hostVars
  <2>2. CASE OnTheWay' = OnTheWay
    BY <1>4, <2>2, Zenon DEF Discarded, hostVars, Mailbox!vars, OnTheWay, Received
  <2>3. CASE OnTheWay' = OnTheWay \ {p}
    <3>1. Mailbox!ReceiveDiscard(p)
      BY <2>1, <2>3, Zenon DEF Mailbox!ReceiveDiscard, OnTheWay, Received
    <3>2. Mailbox!Next
      BY <1>2, <3>1 DEF Mailbox!Next, OnTheWay, Received
    <3>. QED BY <3>2
  <2>. QED BY <1>2, <2>2, <2>3
<1>5. Dispatched(p) \/ Discarded(p)
  BY <1>0 DEF DrainOne, Dispatched, Discarded, Discards
<1>. QED BY <1>3, <1>4, <1>5

\* What the network does between the device and the receive buffer.
LEMMA NetworkMaps == NetworkStep => [Mailbox!Next]_(Mailbox!vars)
<1> SUFFICES ASSUME NetworkStep PROVE [Mailbox!Next]_(Mailbox!vars)
  OBVIOUS
<1>1. Network /\ rx' = rx /\ Received' = Received
  BY DEF NetworkStep, Received
<1>2. ASSUME NEW p \in wire, DeviceAnswers(p) PROVE Mailbox!Next
  <2>1. OnTheWay' = OnTheWay \cup {p}
    BY <1>1, <1>2 DEF DeviceAnswers, OnTheWay
  <2>2. Mailbox!DeviceAnswers(p)
    BY <1>2, <2>1, Zenon DEF DeviceAnswers, Mailbox!DeviceAnswers, hostVars, Mailbox!hostVars, OnTheWay, Received
  <2>. QED BY <2>2, Zenon DEF Mailbox!Network, Mailbox!Next
<1>3. ASSUME NEW p \in wire, LoseRequest(p) PROVE Mailbox!Next
  <2>1. OnTheWay' = OnTheWay
    BY <1>1, <1>3 DEF LoseRequest, OnTheWay
  <2>2. Mailbox!LoseRequest(p)
    BY <1>3, <2>1, Zenon DEF LoseRequest, Mailbox!LoseRequest, hostVars, Mailbox!hostVars, OnTheWay, Received
  <2>. QED BY <2>2, Zenon DEF Mailbox!Network, Mailbox!Next
<1>4. ASSUME NEW p \in replies, LoseReply(p) PROVE [Mailbox!Next]_(Mailbox!vars)
  <2>1. CASE p \in Received
    <3>1. OnTheWay' = OnTheWay
      BY <1>1, <1>4, <2>1 DEF LoseReply, OnTheWay
    <3>. QED BY <1>4, <3>1, Zenon DEF LoseReply, hostVars, Mailbox!vars, OnTheWay, Received
  <2>2. CASE p \notin Received
    <3>1. OnTheWay' = OnTheWay \ {p} /\ p \in OnTheWay
      BY <1>1, <1>4, <2>2 DEF LoseReply, OnTheWay
    <3>2. Mailbox!LoseReply(p)
      BY <1>4, <3>1, Zenon DEF LoseReply, Mailbox!LoseReply, hostVars, Mailbox!hostVars, OnTheWay, Received
    <3>. QED BY <3>1, <3>2, Zenon DEF Mailbox!Network, Mailbox!Next, OnTheWay, Received
  <2>. QED BY <2>1, <2>2
<1>. QED BY <1>1, <1>2, <1>3, <1>4 DEF Network

LEMMA ClockMaps == ClockStep /\ scan = 0 /\ polled => Mailbox!Tick
<1> SUFFICES ASSUME ClockStep, scan = 0, polled PROVE Mailbox!Tick
  OBVIOUS
<1>1. UNCHANGED (replies \cup {rx[k] : k \in 1..Len(rx)})
  BY DEF ClockStep, ClockMoves
<1>. QED BY <1>1, Zenon DEF ClockStep, Mailbox!Tick,
      ClockMoves, Mailbox!ClockMoves, Slots, Mailbox!Slots, Aged, Mailbox!Aged, Expired,
      Mailbox!Expired, LifeCap, Mailbox!LifeCap, NoDispatch, Mailbox!NoDispatch

(***************************************************************************)
(* The phases of the thread: between two calls of PK_TimeoutAndRetryCheck() *)
(* its loop is not in progress, and the clock moves only after one.         *)
(***************************************************************************)
Phases == IF rtapi THEN {"ready", "drain1", "timeout", "dispatch", "drain2", "asleep"}
          ELSE {"ready", "dispatch", "drain1", "timeout", "asleep"}
Checked == IF rtapi THEN {"dispatch", "drain2", "asleep"} ELSE {"asleep"}

PhaseInv ==
    /\ rtapi \in BOOLEAN /\ phase \in Phases
    /\ phase # "timeout" => scan = 0
    /\ phase \in Checked \/ scan # 0 => polled

CompInv == MB!TypeOK /\ PhaseInv /\ rx \in Seq(Packet)

LEMMA CompInitial == CompInit => Mailbox!Init /\ CompInv
<1> SUFFICES ASSUME CompInit PROVE Mailbox!Init /\ CompInv
  OBVIOUS
<1>1. replies \cup {rx[k] : k \in 1..Len(rx)} = replies
  <2>1. rx = <<>> /\ Len(rx) = 0
    BY DEF CompInit
  <2>2. \A k \in 1..Len(rx) : FALSE
    BY <2>1, SMT
  <2>. QED BY <2>2
<1>2. Mailbox!Init
  BY <1>1, Zenon DEF CompInit,
      Init, Mailbox!Init, Slots, Mailbox!Slots, Cleared, Mailbox!Cleared, NoDispatch,
      Mailbox!NoDispatch, Expired, Mailbox!Expired
<1>3. MB!Init
  BY <1>2, SameInit
<1>4. MB!TypeOK
  BY <1>3, MB!InitTypes, AsyncAssumption DEF MB!InitTypes, MB!AsyncAssumption, AsyncAssumption
<1>5. PhaseInv
  BY DEF CompInit, Init, PhaseInv, Phases, Checked
<1>6. rx \in Seq(Packet)
  BY DEF CompInit
<1>. QED BY <1>2, <1>4, <1>5, <1>6 DEF CompInv

\* What a thread does next depends on how the component was built.
LEMMA NextPhases ==
    PhaseInv =>
      /\ rtapi => /\ AfterPhase("ready") = "drain1" /\ AfterPhase("drain1") = "timeout"
                  /\ AfterPhase("timeout") = "dispatch" /\ AfterPhase("dispatch") = "drain2"
                  /\ AfterPhase("drain2") = "asleep"
      /\ ~rtapi => /\ AfterPhase("ready") = "dispatch" /\ AfterPhase("dispatch") = "drain1"
                   /\ AfterPhase("drain1") = "timeout" /\ AfterPhase("timeout") = "asleep"
  BY DEF PhaseInv, AfterPhase

\* Whatever phase but the timeout check the thread leaves, the mailbox
\* untouched or a datagram read, the phases go on as they should.
LEMMA ProceedKeeps ==
    ASSUME PhaseInv, Proceed, UNCHANGED <<scan, polled>>,
           phase \in {"ready", "drain1", "drain2", "dispatch"}
    PROVE  PhaseInv'
<1>1. scan = 0 /\ scan' = 0 /\ polled' = polled /\ rtapi' = rtapi /\ phase' = AfterPhase(phase)
  BY DEF PhaseInv, Proceed
<1>2. phase' \in Phases' /\ (phase' \in Checked' => phase \in Checked)
  <2>1. CASE rtapi
    <3>1. /\ phase' \in {"drain1", "timeout", "drain2", "asleep"}
          /\ phase' \in {"drain2", "asleep"} => phase \in {"dispatch", "drain2"}
      BY <1>1, <2>1, NextPhases
    <3>2. phase' \in Phases'
      BY <1>1, <2>1, <3>1 DEF Phases
    <3>. QED BY <1>1, <2>1, <3>1, <3>2 DEF Checked
  <2>2. CASE ~rtapi
    <3>1. phase' \in {"dispatch", "drain1", "timeout"}
      BY <1>1, <2>2, NextPhases DEF PhaseInv, Phases
    <3>. QED BY <1>1, <2>2, <3>1 DEF Phases, Checked
  <2>. QED BY <2>1, <2>2
<1>3. phase' \in Checked' => polled'
  BY <1>1, <1>2 DEF PhaseInv
<1>. QED BY <1>1, <1>2, <1>3 DEF PhaseInv

LEMMA TimeoutKeeps == PhaseInv /\ MB!TypeOK /\ TimeoutPhase => PhaseInv'
<1> SUFFICES ASSUME PhaseInv, MB!TypeOK, TimeoutPhase PROVE PhaseInv'
  OBVIOUS
<1>1. phase = "timeout" /\ rtapi' = rtapi
  BY DEF TimeoutPhase, Proceed
<1>2. polled'
  <2>1. CASE TimeoutCheck
    BY <2>1 DEF TimeoutCheck, TimeoutCheckNoHandle, TimeoutCheckBackoff, TimeoutCheckStart
  <2>2. CASE TimeoutSlot
    BY <2>2 DEF TimeoutSlot, TimeoutSlotSkip, TimeoutSlotRetry, TimeoutSlotRetryFails,
                TimeoutSlotGiveUp, PhaseInv
  <2>. QED BY <2>1, <2>2 DEF TimeoutPhase
<1>3. CASE scan' = 0
  <2>1. phase' = AfterPhase("timeout")
    BY <1>1, <1>3 DEF TimeoutPhase, Proceed
  <2>2. phase' = IF rtapi THEN "dispatch" ELSE "asleep"
    BY <2>1, NextPhases DEF PhaseInv
  <2>. QED BY <1>1, <1>2, <1>3, <2>2 DEF PhaseInv, Phases, Checked
<1>4. CASE scan' # 0
  <2>1. phase' = "timeout"
    BY <1>1, <1>4 DEF TimeoutPhase
  <2>. QED BY <1>1, <1>2, <2>1 DEF PhaseInv, Phases, Checked
<1>. QED BY <1>3, <1>4

\* Every step of the component is one of the mailbox, or none.
LEMMA CompStep ==
    CompInv /\ [CompNext]_compVars => [Mailbox!Next]_(Mailbox!vars) /\ PhaseInv' /\ rx' \in Seq(Packet)
<1> SUFFICES ASSUME CompInv, [CompNext]_compVars
             PROVE  [Mailbox!Next]_(Mailbox!vars) /\ PhaseInv' /\ rx' \in Seq(Packet)
  OBVIOUS
<1>1. PhaseInv /\ MB!TypeOK /\ rx \in Seq(Packet)
  BY DEF CompInv
<1>2. ASSUME UNCHANGED <<vars, rx>> PROVE UNCHANGED Mailbox!vars /\ rx' \in Seq(Packet)
                                          /\ UNCHANGED <<scan, polled>>
  BY <1>1, <1>2 DEF vars, Mailbox!vars
<1>3. CASE WakeUp \/ DrainNothing \/ DrainBudget \/ DispatchDone
  <2>1. /\ Proceed /\ UNCHANGED <<vars, rx>>
        /\ phase \in {"ready", "drain1", "drain2", "dispatch"}
    BY <1>3 DEF WakeUp, DrainNothing, DrainBudget, DispatchDone, Draining
  <2>. QED BY <1>1, <1>2, <2>1, ProceedKeeps
<1>4. CASE DrainOne
  <2>1. phase \in {"drain1", "drain2"} /\ scan = 0 /\ UNCHANGED <<scan, polled>>
    BY <1>1, <1>4 DEF DrainOne, Draining, PhaseInv, Dispatched, Discarded
  <2>2. rx' \in Seq(Packet)
    BY <1>1, <1>4, ReceivedTail DEF DrainOne
  <2>3. PhaseInv'
    <3>1. CASE UNCHANGED <<phase, rtapi>>
      BY <1>1, <2>1, <3>1 DEF PhaseInv, Phases, Checked
    <3>2. CASE Proceed
      BY <1>1, <2>1, <3>2, ProceedKeeps
    <3>. QED BY <1>4, <3>1, <3>2 DEF DrainOne
  <2>. QED BY <1>1, <1>4, <2>1, <2>2, <2>3, DrainMaps
<1>5. CASE TimeoutPhase
  <2>1. UNCHANGED rx /\ (TimeoutCheck \/ TimeoutSlot)
    BY <1>5 DEF TimeoutPhase
  <2>2. Mailbox!Next
    BY <2>1, TimeoutMaps, Zenon DEF Mailbox!Next
  <2>. QED BY <1>1, <1>5, <2>1, <2>2, TimeoutKeeps
<1>6. CASE DispatchRequest
  <2>1. Create /\ UNCHANGED <<rtapi, phase, rx>>
    BY <1>6 DEF DispatchRequest
  <2>2. Mailbox!Next
    BY <2>1, CreateMaps, Zenon DEF Mailbox!Next
  <2>3. UNCHANGED <<scan, polled>>
    BY <2>1 DEF Create, CreateAndSendRequestAsync, CreateRequestTooBig
  <2>. QED BY <1>1, <2>1, <2>2, <2>3 DEF PhaseInv, Phases, Checked
<1>7. ASSUME NEW p \in replies, Arrives(p)
      PROVE  [Mailbox!Next]_(Mailbox!vars) /\ PhaseInv' /\ rx' \in Seq(Packet)
  <2>1. p \in Packet
    BY <1>1, Zenon DEF MB!TypeOK, MB!Packet, Packet
  <2>2. rx' \in Seq(Packet) /\ Received' = Received \cup {p}
    BY <1>1, <1>7, <2>1, ReceivedAppend DEF Arrives
  <2>3. OnTheWay' = OnTheWay
    BY <1>7, <2>2 DEF OnTheWay, Arrives
  <2>4. UNCHANGED Mailbox!vars
    BY <1>7, <2>3, Zenon DEF Mailbox!vars, OnTheWay, Received, Arrives, hostVars
  <2>5. PhaseInv'
    BY <1>1, <1>7 DEF Arrives, PhaseInv, Phases, Checked
  <2>. QED BY <2>2, <2>4, <2>5
<1>8. CASE NetworkStep
  <2>1. UNCHANGED <<rtapi, phase, rx, scan, polled>>
    BY <1>8 DEF NetworkStep, Network, DeviceAnswers, LoseRequest, LoseReply
  <2>. QED BY <1>1, <1>8, <2>1, NetworkMaps DEF PhaseInv, Phases, Checked
<1>9. CASE ClockStep
  <2>1. scan = 0 /\ polled
    BY <1>1, <1>9 DEF ClockStep, PhaseInv, Checked
  <2>2. Mailbox!Next
    BY <1>9, <2>1, ClockMaps, Zenon DEF Mailbox!Next
  <2>3. PhaseInv'
    BY <1>1, <1>9, <2>1 DEF ClockStep, ClockMoves, PhaseInv, Phases, Checked
  <2>. QED BY <1>1, <1>9, <2>2, <2>3 DEF ClockStep
<1>10. CASE UNCHANGED compVars
  <2>1. UNCHANGED <<vars, rx, rtapi, phase>>
    BY <1>10 DEF compVars
  <2>. QED BY <1>1, <1>2, <2>1 DEF PhaseInv, Phases, Checked
<1>. QED BY <1>3, <1>4, <1>5, <1>6, <1>7, <1>8, <1>9, <1>10 DEF CompNext, Thread

LEMMA CompInvStep == CompInv /\ [CompNext]_compVars => CompInv'
<1> SUFFICES ASSUME CompInv, [CompNext]_compVars PROVE CompInv'
  OBVIOUS
<1>1. [Mailbox!Next]_(Mailbox!vars) /\ PhaseInv' /\ rx' \in Seq(Packet)
  BY CompStep
<1>2. [MB!Next]_(MB!vars)
  BY <1>1, SameNext
<1>3. MB!TypeOK'
  BY <1>2, MB!TypeInductive, AsyncAssumption
  DEF CompInv, MB!TypeInductive, MB!AsyncAssumption, AsyncAssumption
<1>. QED BY <1>1, <1>3 DEF CompInv

\* The component implements the mailbox: it never reads what was not
\* delivered, creates no request in the middle of the timeout loop, and lets no
\* period pass without a timeout check, built either way.
THEOREM KeepsToMailbox == CompSpec => Mailbox!Spec
<1>1. CompInv /\ [CompNext]_compVars => [Mailbox!Next]_(Mailbox!vars)
  BY CompStep
<1>. QED BY <1>1, CompInitial, CompInvStep, PTL DEF CompSpec, Mailbox!Spec

\* So an answer reaches another request's parser in the component, too, only
\* across a whole cycle of ids ...
THEOREM ComponentMisdelivery == CompSpec => []MisdeliveryNeedsWrap
<1>1. MB!Spec => []MB!MisdeliveryNeedsWrap
  BY MB!MisdeliveryOnlyByWrap, AsyncAssumption, PTL
  DEF MB!MisdeliveryOnlyByWrap, MB!AsyncAssumption, AsyncAssumption
<1>2. MB!MisdeliveryNeedsWrap <=> MisdeliveryNeedsWrap
  BY DEF MB!MisdeliveryNeedsWrap, MisdeliveryNeedsWrap, MB!CycleApart, CycleApart
<1>. QED BY <1>1, <1>2, KeepsToMailbox, SameMailbox, PTL

\* ... a request is transmitted a third time only across one, TIMEOUT is said
\* only of a request that went out, and failing sends overshoot the breaker by
\* less than one table of transactions.
THEOREM ComponentTransmissions ==
    CompSpec => [](ThirdSendNeedsWrap /\ TimeoutMeansSent /\ ErrorsBounded)
<1>1. MB!Spec => []MB!ThirdSendNeedsWrap
  BY MB!ThirdSendOnlyByWrap, AsyncAssumption, PTL
  DEF MB!ThirdSendOnlyByWrap, MB!AsyncAssumption, AsyncAssumption
<1>2. MB!Spec => []MB!TimeoutMeansSent
  BY MB!TimeoutOnlyIfSent, AsyncAssumption, PTL
  DEF MB!TimeoutOnlyIfSent, MB!AsyncAssumption, AsyncAssumption
<1>3. MB!Spec => []MB!ErrorsBounded
  BY MB!BreakerOvershoot, AsyncAssumption, PTL
  DEF MB!BreakerOvershoot, MB!AsyncAssumption, AsyncAssumption
<1>4. /\ MB!ThirdSendNeedsWrap <=> ThirdSendNeedsWrap
      /\ MB!TimeoutMeansSent <=> TimeoutMeansSent
      /\ MB!ErrorsBounded <=> ErrorsBounded
  BY DEF MB!ThirdSendNeedsWrap, ThirdSendNeedsWrap, MB!TimeoutMeansSent,
         TimeoutMeansSent, MB!ErrorsBounded, ErrorsBounded, MB!Slots, Slots
<1>. QED BY <1>1, <1>2, <1>3, <1>4, KeepsToMailbox, SameMailbox, PTL

\* And so the clients of the component's requests get what RequestOutcomes promises.
THEOREM ComponentPromise == CompSpec => MB!KeepsPromise
<1>1. MB!Spec => MB!KeepsPromise
  BY MB!PromiseKept, AsyncAssumption, PTL
  DEF MB!PromiseKept, MB!AsyncAssumption, AsyncAssumption
<1>. QED BY <1>1, KeepsToMailbox, SameMailbox, PTL
=============================================================================
