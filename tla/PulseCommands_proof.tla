------------------------- MODULE PulseCommands_proof ------------------------
(***************************************************************************)
(* The command queue hands its commands out in order, for every size of the *)
(* ring and however the two threads interleave, and the realtime functions  *)
(* around it keep its protocol.                                             *)
(***************************************************************************)
EXTENDS PulseCommands, TLAPS

\* The cell of the (i+1)-th command.
CellOf(i) == i % MAX_ASYNC_COMMANDS

LEMMA CellIsCell == \A i \in Nat : CellOf(i) \in Cells
  BY CommandQueueAssumption, SMT DEF CellOf, Cells

(* A number is determined by its quotient and its rest.                     *)
LEMMA RestUnique ==
    \A q \in Int : \A r \in 0..MAX_ASYNC_COMMANDS-1 :
        (MAX_ASYNC_COMMANDS * q + r) % MAX_ASYNC_COMMANDS = r
<1> DEFINE N == MAX_ASYNC_COMMANDS
<1> SUFFICES ASSUME NEW q \in Int, NEW r \in 0..N-1 PROVE (N * q + r) % N = r
  OBVIOUS
<1>1. N \in Nat \ {0}
  BY CommandQueueAssumption
<1> HIDE DEF N
<1> DEFINE x == N * q + r
           p == x \div N
           s == x % N
<1>2. x \in Int /\ p \in Int /\ s \in 0..N-1 /\ x = N * p + s
  BY <1>1, SMT
<1>3. N * q + r = N * p + s
  BY <1>2
<1> HIDE DEF x, p, s
<1>4. N * q - N * p = s - r /\ N * q - N * p = N * (q - p)
  BY <1>1, <1>2, <1>3, SMT
<1>5. q - p < 1 /\ q - p > -1
  BY <1>1, <1>2, <1>4, SMT
<1>6. q = p
  BY <1>2, <1>5, SMT
<1>7. s = r
  BY <1>1, <1>2, <1>3, <1>6, SMT
<1>. QED BY <1>7 DEF s, x

LEMMA CellAfter == \A i \in Nat : NextCell(CellOf(i)) = CellOf(i + 1)
<1> DEFINE N == MAX_ASYNC_COMMANDS
<1> SUFFICES ASSUME NEW i \in Nat PROVE ((i % N) + 1) % N = (i + 1) % N
  BY DEF CellOf, NextCell
<1>1. N \in Nat \ {0}
  BY CommandQueueAssumption
<1>2. \A q \in Int : \A r \in 0..N-1 : (N * q + r) % N = r
  BY RestUnique
<1> HIDE DEF N
<1> DEFINE q == i \div N
           r == i % N
<1>3. r \in 0..N-1 /\ q \in Int /\ i = N * q + r
  BY <1>1, SMT
<1> HIDE DEF q, r
<1>4. CASE r + 1 < N
  <2>1. r + 1 \in 0..N-1 /\ i + 1 = N * q + (r + 1) /\ r + 1 = N * 0 + (r + 1)
    BY <1>1, <1>3, <1>4, SMT
  <2>. QED BY <2>1, <1>2, <1>3 DEF r
<1>5. CASE r + 1 = N
  <2>1. i + 1 = N * (q + 1) + 0 /\ r + 1 = N * 1 + 0 /\ 0 \in 0..N-1 /\ q + 1 \in Int
    BY <1>1, <1>3, <1>5, SMT
  <2>. QED BY <2>1, <1>2 DEF r
<1>. QED BY <1>1, <1>3, <1>4, <1>5, SMT

(* Less than one turn of the ring apart means different cells.             *)
LEMMA CellsApart ==
    \A i, j \in Nat : i < j /\ j - i < MAX_ASYNC_COMMANDS => CellOf(i) # CellOf(j)
<1> DEFINE N == MAX_ASYNC_COMMANDS
<1> SUFFICES ASSUME NEW i \in Nat, NEW j \in Nat, i < j, j - i < N, i % N = j % N
             PROVE  FALSE
  BY DEF CellOf
<1>1. N \in Nat \ {0}
  BY CommandQueueAssumption
<1> HIDE DEF N
<1> DEFINE qi == i \div N
           qj == j \div N
<1>2. qi \in Int /\ i = N * qi + (i % N) /\ qj \in Int /\ j = N * qj + (j % N)
  BY <1>1, SMT
<1>3. j - i = N * qj - N * qi
  BY <1>2, <1>1, SMT
<1> HIDE DEF qi, qj
<1>4. N * qj - N * qi = N * (qj - qi)
  BY <1>1, <1>2, SMT
<1>5. qj - qi < 1
  BY <1>1, <1>2, <1>3, <1>4, SMT
<1>6. qj - qi > 0
  BY <1>1, <1>2, <1>3, <1>4, SMT
<1>. QED BY <1>2, <1>5, <1>6, SMT

-----------------------------------------------------------------------------
Put == Len(log) + (IF prod.pc = "count" THEN 1 ELSE 0)
Got == taken + (IF cons.pc = "count" THEN 1 ELSE 0)

(* Where head, tail and count stand; a command being stored has a free     *)
(* cell, which the dequeuing thread can only add to.                       *)
Positioned ==
    /\ head = CellOf(Put) /\ tail = CellOf(Got)
    /\ taken <= Len(log) /\ count = Len(log) - taken
    /\ prod.pc # "idle" => count < MAX_ASYNC_COMMANDS
    /\ cons.pc \in {"advance", "count"} => taken < Len(log)

(* The cells between tail and head hold the commands not taken out.        *)
Filled ==
    /\ \A i \in taken..Len(log)-1 : ring[CellOf(i)] = log[i + 1]
    /\ prod.pc \in {"advance", "count"} => ring[CellOf(Len(log))] = prod.cmd

QueueInv == Queue_TypeOK /\ Positioned /\ Filled /\ OldestFirst

LEMMA QueueInit == Init => QueueInv
<1> SUFFICES ASSUME Init PROVE QueueInv
  OBVIOUS
<1>1. Len(log) = 0 /\ log \in Seq(Command)
  BY DEF Init
<1>2. CellOf(0) = 0 /\ 0 \in Cells
  BY CommandQueueAssumption, SMT DEF CellOf, Cells
<1>3. Queue_TypeOK
  BY <1>1, <1>2, CommandQueueAssumption, SMT DEF Init, Queue_TypeOK, Idle
<1>4. Put = 0 /\ Got = 0 /\ Positioned
  BY <1>1, <1>2, CommandQueueAssumption, SMT DEF Init, Positioned, Put, Got, Idle
<1>. QED BY <1>1, <1>3, <1>4, SMT DEF Init, QueueInv, Filled, OldestFirst, Idle

LEMMA QueueStep == QueueInv /\ [Next]_queueVars => QueueInv'
<1> SUFFICES ASSUME QueueInv, [Next]_queueVars PROVE QueueInv'
  OBVIOUS
<1> DEFINE n == Len(log)
<1>t. /\ n \in Nat /\ taken \in Nat /\ taken <= n /\ count = n - taken
      /\ count <= MAX_ASYNC_COMMANDS /\ MAX_ASYNC_COMMANDS \in Nat \ {0}
      /\ log \in Seq(Command) /\ NoCommand \notin Command
  BY CommandQueueAssumption, SMT DEF QueueInv, Queue_TypeOK, Positioned
<1> USE DEF QueueInv
<1>1. ASSUME NEW cmd \in Command, EnqueueStart(cmd) PROVE QueueInv'
  <2>1. Queue_TypeOK'
    BY <1>1, <1>t DEF EnqueueStart, Queue_TypeOK
  <2>2. Positioned'
    BY <1>1, <1>t, SMT DEF EnqueueStart, Positioned, Put, Got, QueueFull
  <2>3. Filled' /\ OldestFirst'
    BY <1>1 DEF EnqueueStart, Filled, OldestFirst
  <2>. QED BY <2>1, <2>2, <2>3
<1>2. CASE EnqueueStore
  <2>1. head = CellOf(n) /\ head \in Cells /\ prod.cmd \in Command
    BY <1>2, <1>t, SMT DEF EnqueueStore, Positioned, Put, Queue_TypeOK
  <2>2. \A i \in taken..n-1 : CellOf(i) # CellOf(n)
    <3> SUFFICES ASSUME NEW i \in taken..n-1 PROVE CellOf(i) # CellOf(n)
      OBVIOUS
    <3>1. count < MAX_ASYNC_COMMANDS
      BY <1>2 DEF EnqueueStore, Positioned
    <3>2. i \in Nat /\ i < n /\ n - i < MAX_ASYNC_COMMANDS
      BY <3>1, <1>t, SMT
    <3>. QED BY <3>2, <1>t, CellsApart
  <2>3. ring' = [ring EXCEPT ![CellOf(n)] = prod.cmd]
    BY <1>2, <2>1 DEF EnqueueStore
  <2>4. \A i \in taken..n-1 : CellOf(i) \in Cells
    BY <1>t, CellIsCell, SMT
  <2>5. Queue_TypeOK'
    BY <1>2, <2>1 DEF EnqueueStore, Queue_TypeOK
  <2>6. Positioned'
    BY <1>2, <1>t, SMT DEF EnqueueStore, Positioned, Put, Got, Queue_TypeOK
  <2>7. Filled'
    BY <1>2, <2>1, <2>2, <2>3, <2>4 DEF EnqueueStore, Filled, Queue_TypeOK
  <2>8. OldestFirst'
    BY <1>2 DEF EnqueueStore, OldestFirst
  <2>. QED BY <2>5, <2>6, <2>7, <2>8
<1>3. CASE EnqueueAdvance
  <2>1. head' = CellOf(n + 1) /\ head' \in Cells
    BY <1>3, <1>t, CellAfter, CellIsCell, SMT DEF EnqueueAdvance, Positioned, Put
  <2>2. Queue_TypeOK'
    BY <1>3, <2>1 DEF EnqueueAdvance, Queue_TypeOK
  <2>3. Positioned'
    <3>1. prod'.pc = "count" /\ prod.pc = "advance"
      BY <1>3 DEF EnqueueAdvance, Queue_TypeOK
    <3>2. Put' = n + 1 /\ Got' = Got
      BY <1>3, <3>1 DEF EnqueueAdvance, Put, Got
    <3>. QED BY <1>3, <2>1, <3>1, <3>2 DEF EnqueueAdvance, Positioned
  <2>4. Filled' /\ OldestFirst'
    BY <1>3 DEF EnqueueAdvance, Filled, OldestFirst, Queue_TypeOK
  <2>. QED BY <2>2, <2>3, <2>4
<1>4. CASE EnqueueCount
  <2>1. prod.cmd \in Command /\ count < MAX_ASYNC_COMMANDS /\ head = CellOf(n + 1)
    BY <1>4, SMT DEF EnqueueCount, Positioned, Put, Queue_TypeOK
  <2>2. /\ log' \in Seq(Command) /\ Len(log') = n + 1
        /\ \A i \in 1..n : log'[i] = log[i]
        /\ log'[n + 1] = prod.cmd
    BY <1>4, <1>t, <2>1 DEF EnqueueCount
  <2>3. Queue_TypeOK'
    BY <1>4, <1>t, <2>1, <2>2, SMT DEF EnqueueCount, Queue_TypeOK, Idle
  <2>4. Positioned'
    BY <1>4, <1>t, <2>1, <2>2, SMT DEF EnqueueCount, Positioned, Put, Got, Idle
  <2>5. Filled'
    <3>1. \A i \in taken..n-1 : ring[CellOf(i)] = log'[i + 1]
      BY <2>2, <1>t, SMT DEF Filled
    <3>2. ring[CellOf(n)] = log'[n + 1]
      BY <1>4, <2>2 DEF EnqueueCount, Filled
    <3>3. UNCHANGED <<ring, taken>> /\ prod'.pc = "idle"
      BY <1>4 DEF EnqueueCount, Idle
    <3>4. \A i \in taken..(n+1)-1 : ring[CellOf(i)] = log'[i + 1]
      BY <1>t, <3>1, <3>2, SMT
    <3>. QED BY <2>2, <3>3, <3>4 DEF Filled
  <2>6. OldestFirst'
    BY <1>4, <1>t, <2>2, SMT DEF EnqueueCount, OldestFirst
  <2>. QED BY <2>3, <2>4, <2>5, <2>6
<1>5. CASE DequeueLoad
  <2>1. tail = CellOf(taken) /\ taken < n
    BY <1>5, <1>t, SMT DEF DequeueLoad, Positioned, Got
  <2>2. ring[tail] = log[taken + 1] /\ log[taken + 1] \in Command
    BY <2>1, <1>t, SMT DEF Filled
  <2>3. Queue_TypeOK'
    BY <1>5, <2>2 DEF DequeueLoad, Queue_TypeOK
  <2>4. Positioned'
    BY <1>5, <1>t, <2>1, SMT DEF DequeueLoad, Positioned, Put, Got
  <2>5. Filled' /\ OldestFirst'
    BY <1>5, <2>1, <2>2 DEF DequeueLoad, Filled, OldestFirst
  <2>. QED BY <2>3, <2>4, <2>5
<1>6. CASE DequeueAdvance
  <2>1. tail' = CellOf(taken + 1) /\ tail' \in Cells
    BY <1>6, <1>t, CellAfter, CellIsCell, SMT DEF DequeueAdvance, Positioned, Got
  <2>2. Queue_TypeOK'
    BY <1>6, <2>1 DEF DequeueAdvance, Queue_TypeOK
  <2>3. Positioned'
    BY <1>6, <1>t, <2>1, SMT DEF DequeueAdvance, Positioned, Put, Got, Queue_TypeOK
  <2>4. Filled' /\ OldestFirst'
    BY <1>6 DEF DequeueAdvance, Filled, OldestFirst, Queue_TypeOK
  <2>. QED BY <2>2, <2>3, <2>4
<1>7. CASE DequeueCount
  <2>1. tail = CellOf(taken + 1) /\ taken < n /\ cons.cmd = log[taken + 1]
    BY <1>7, SMT DEF DequeueCount, Positioned, Got, OldestFirst
  <2>2. Queue_TypeOK'
    BY <1>7, <1>t, <2>1, SMT DEF DequeueCount, Queue_TypeOK
  <2>3. Positioned'
    BY <1>7, <1>t, <2>1, SMT DEF DequeueCount, Positioned, Put, Got, Queue_TypeOK
  <2>4. Filled'
    BY <1>7, <1>t, SMT DEF DequeueCount, Filled
  <2>5. OldestFirst'
    BY <1>7, <1>t, <2>1, SMT DEF DequeueCount, OldestFirst, Queue_TypeOK
  <2>. QED BY <2>2, <2>3, <2>4, <2>5
<1>8. CASE Processed
  <2>1. Queue_TypeOK' /\ Positioned'
    BY <1>8, <1>t, SMT DEF Processed, Queue_TypeOK, Positioned, Put, Got, Idle
  <2>2. Filled' /\ OldestFirst'
    BY <1>8 DEF Processed, Filled, OldestFirst, Idle
  <2>. QED BY <2>1, <2>2
<1>9. CASE UNCHANGED queueVars
  BY <1>9 DEF queueVars, Queue_TypeOK, Positioned, Put, Got, Filled, OldestFirst
<1>. QED BY <1>1, <1>2, <1>3, <1>4, <1>5, <1>6, <1>7, <1>8, <1>9
     DEF Next, Enqueue, Dequeue

-----------------------------------------------------------------------------
(* The realtime functions use the queue as CommandQueue says.               *)
LEMMA MovesAreCommands == TypeOK /\ changed # {} => MoveOf(changed) \in Command
<1> SUFFICES ASSUME TypeOK, changed # {} PROVE MoveOf(changed) \in Command
  OBVIOUS
<1>1. changed \in (SUBSET Axes) \ {{}} /\ posCmd \in [Axes -> Positions]
  BY DEF TypeOK
<1>2. MoveOf(changed) \in MoveCommand
  BY <1>1 DEF MoveOf, MoveCommand
<1>. QED BY <1>2, PulseCommandsAssumption DEF PulseCommand

LEMMA QueueKept == TypeOK /\ [PulseNext]_pulseVars => [Next]_queueVars
<1> SUFFICES ASSUME TypeOK, [PulseNext]_pulseVars PROVE [Next]_queueVars
  OBVIOUS
<1>1. CASE ReadCommandPins \/ ClearMotionCommands \/ ReadDeviceCache
  BY <1>1 DEF ReadCommandPins, ClearMotionCommands, ReadDeviceCache
<1>2. CASE UpdateMotionCommands
  BY <1>2, MovesAreCommands DEF UpdateMotionCommands, Next
<1>3. CASE HandleHomingCommands
  <2>1. homing \ lastHoming \in SUBSET Axes
    BY DEF TypeOK
  <2>2. homing \ lastHoming # {} =>
          [type |-> "HOME_START", mask |-> homing \ lastHoming] \in HomeCommand
    BY <2>1, Zenon DEF HomeCommand
  <2>. QED BY <1>3, <2>2, PulseCommandsAssumption DEF HandleHomingCommands, Next, PulseCommand
<1>4. CASE UpdateExternalOutputs
  <2>1. [type |-> "EXTERNAL_OUTPUT_SET", out |-> outs] \in Command
    BY PulseCommandsAssumption DEF TypeOK, PulseCommand, OutCommand
  <2>. QED BY <1>4, <2>1 DEF UpdateExternalOutputs, Next
<1>5. CASE EnqueueStep
  BY <1>5 DEF EnqueueStep, Next
<1>6. CASE ProcessStart \/ ProcessEnd
  BY <1>6 DEF ProcessStart, ProcessEnd
<1>7. CASE DequeueStep
  BY <1>7 DEF DequeueStep, Next
<1>8. CASE ProcessCommand
  BY <1>8 DEF ProcessCommand, Next
<1>9. CASE UpdateDeviceCache
  BY <1>9 DEF UpdateDeviceCache
<1>10. CASE Event
  BY <1>10 DEF Event
<1>11. CASE UNCHANGED pulseVars
  BY <1>11 DEF pulseVars
<1>. QED BY <1>1, <1>2, <1>3, <1>4, <1>5, <1>6, <1>7, <1>8, <1>9, <1>10, <1>11
     DEF PulseNext, RealtimeFunctions, ProcessAsyncCommands

(* A command in hand counts against the limit of the cycle, and only calls *)
(* that count as events can fail.                                           *)
CycleInv ==
    /\ cons.pc \in {"advance", "count", "process"} => cycle \in 0..MAX_COMMANDS_PER_CYCLE-1
    /\ errors <= events

PulseInv == TypeOK /\ QueueInv /\ CycleInv

LEMMA PulseStart == PulseInit => PulseInv
<1> SUFFICES ASSUME PulseInit PROVE PulseInv
  OBVIOUS
<1>1. QueueInv
  BY QueueInit DEF PulseInit
<1>2. posCmd \in [Axes -> Positions] /\ outs \in Outputs
  BY PulseCommandsAssumption DEF PulseInit
<1>3. TypeOK
  <2>1. {connected, commOk, stopped, errorInput, failedOut, droppedOut} \subseteq BOOLEAN
    BY Zenon DEF PulseInit
  <2>2. /\ pos \in [Axes -> Positions] /\ reference \in [Axes -> Positions]
        /\ sent \in [Axes -> Positions] /\ posCmd \in [Axes -> Positions]
        /\ {outs, lastOuts, extOutputs, sentOut} \subseteq Outputs
    BY <1>2, Zenon DEF PulseInit
  <2>3. /\ errors \in 0..MaxEvents /\ events \in 0..MaxEvents
        /\ cycle \in -1..MAX_COMMANDS_PER_CYCLE
    BY PulseCommandsAssumption, SMT DEF PulseInit
  <2>4. /\ homing \subseteq Axes /\ lastHoming \subseteq Axes /\ changed \subseteq Axes
        /\ failed \subseteq Axes /\ dropped \subseteq Axes
    BY DEF PulseInit
  <2>. QED BY <1>1, <2>1, <2>2, <2>3, <2>4 DEF TypeOK, QueueInv
<1>4. CycleInv
  BY SMT DEF PulseInit, CycleInv, Init, Idle
<1>. QED BY <1>1, <1>3, <1>4 DEF PulseInv

(* Beyond the queue, a step keeps the types conjunct by conjunct.           *)
LEMMA PulseStep == PulseInv /\ [PulseNext]_pulseVars => PulseInv'
<1> SUFFICES ASSUME PulseInv, [PulseNext]_pulseVars PROVE PulseInv'
  OBVIOUS
<1>q. QueueInv'
  BY QueueStep, QueueKept DEF PulseInv
<1>q2. Queue_TypeOK'
  BY <1>q DEF QueueInv
<1> DEFINE Bits == {connected, commOk, stopped, errorInput, failedOut, droppedOut} \subseteq BOOLEAN
           Places == /\ pos \in [Axes -> Positions] /\ posCmd \in [Axes -> Positions]
                     /\ reference \in [Axes -> Positions] /\ sent \in [Axes -> Positions]
                     /\ {outs, lastOuts, extOutputs, sentOut} \subseteq Outputs
           Sets == /\ homing \subseteq Axes /\ lastHoming \subseteq Axes
                   /\ changed \subseteq Axes /\ failed \subseteq Axes /\ dropped \subseteq Axes
           Counts == /\ errors \in 0..MaxEvents /\ events \in 0..MaxEvents
                     /\ cycle \in -1..MAX_COMMANDS_PER_CYCLE
<1>s. ASSUME Bits', Places', Sets', Counts', CycleInv' PROVE PulseInv'
  BY <1>s, <1>q, <1>q2 DEF PulseInv, TypeOK
<1>t. Bits /\ Places /\ Sets /\ Counts /\ CycleInv /\ Queue_TypeOK
  BY DEF PulseInv, TypeOK
<1>m. MAX_COMMANDS_PER_CYCLE \in Nat \ {0} /\ MaxEvents \in Nat
  BY PulseCommandsAssumption
<1> HIDE DEF Bits, Places, Sets, Counts
<1>1. CASE ReadCommandPins
  <2>1. changed' \subseteq Axes
    BY <1>1, <1>t DEF ReadCommandPins, ChangesMarked, Sets
  <2>. QED BY <1>1, <1>s, <1>t, <2>1 DEF ReadCommandPins, Bits, Places, Sets, Counts, CycleInv,
         queueVars, pins, cache, engine, ghosts, made
<1>2. CASE ClearMotionCommands
  BY <1>2, <1>s, <1>t DEF ClearMotionCommands, Bits, Places, Sets, Counts, CycleInv,
     queueVars, pins, cache, engine, made
<1>3. CASE ReadDeviceCache
  BY <1>3, <1>s, <1>t DEF ReadDeviceCache, Bits, Places, Sets, Counts, CycleInv,
     queueVars, pins, cache, engine, made
<1>4. CASE UpdateMotionCommands
  <2>1. cons' = cons
    BY <1>4 DEF UpdateMotionCommands, EnqueueStart, queueVars
  <2>. QED BY <1>4, <1>s, <1>t, <2>1 DEF UpdateMotionCommands, Bits, Places, Sets, Counts,
         CycleInv, pins, cache, engine, made
<1>5. CASE HandleHomingCommands
  <2>1. cons' = cons
    BY <1>5 DEF HandleHomingCommands, EnqueueStart, queueVars
  <2>. QED BY <1>5, <1>s, <1>t, <2>1 DEF HandleHomingCommands, Bits, Places, Sets, Counts,
         CycleInv, pins, cache, engine, ghosts, made
<1>6. CASE UpdateExternalOutputs
  <2>1. cons' = cons
    BY <1>6 DEF UpdateExternalOutputs, EnqueueStart, queueVars
  <2>2. droppedOut' \in BOOLEAN
    BY <1>6 DEF UpdateExternalOutputs
  <2>. QED BY <1>6, <1>s, <1>t, <2>1, <2>2 DEF UpdateExternalOutputs, Bits, Places, Sets, Counts,
         CycleInv, pins, cache, made
<1>7. CASE EnqueueStep
  <2>1. cons' = cons
    BY <1>7 DEF EnqueueStep, Enqueue, EnqueueStore, EnqueueAdvance, EnqueueCount
  <2>. QED BY <1>7, <1>s, <1>t, <2>1 DEF EnqueueStep, Bits, Places, Sets, Counts,
         CycleInv, pins, motion, cache, engine, ghosts, made
<1>8. CASE ProcessStart
  <2>1. Counts' /\ CycleInv'
    BY <1>8, <1>t, <1>m, SMT DEF ProcessStart, Counts, CycleInv, queueVars, cache
  <2>. QED BY <1>8, <1>s, <1>t, <2>1 DEF ProcessStart, Bits, Places, Sets,
         queueVars, pins, motion, cache, engine, ghosts, made
<1>9. CASE DequeueStep
  <2>1. CycleInv'
    BY <1>9, <1>t DEF DequeueStep, CycleInv, cache
  <2>. QED BY <1>9, <1>s, <1>t, <2>1 DEF DequeueStep, Bits, Places, Sets, Counts,
         pins, motion, cache, engine, ghosts, made
<1>10. CASE ProcessEnd
  <2>1. Counts' /\ CycleInv'
    BY <1>10, <1>t, <1>m, SMT DEF ProcessEnd, Counts, CycleInv, queueVars, cache
  <2>. QED BY <1>10, <1>s, <1>t, <2>1 DEF ProcessEnd, Bits, Places, Sets,
         queueVars, pins, motion, cache, engine, ghosts, made
<1>11. CASE ProcessCommand
  <2>1. PICK ok \in BOOLEAN : /\ ProcessMove(ok) \/ ProcessHome(ok) \/ ProcessOut(ok)
                              /\ Counted(ok)
    BY <1>11, Zenon DEF ProcessCommand
  <2>2. cons.pc = "process" /\ cons.cmd \in Command /\ cons'.pc = "idle"
    BY <1>11, <1>t DEF ProcessCommand, Processed, Queue_TypeOK, PulseInv, QueueInv, OldestFirst, Idle
  <2>3. /\ cons.cmd.type = "MOVE_PV" => /\ cons.cmd.mask \subseteq Axes
                                        /\ cons.cmd.pos \in [Axes -> Positions]
        /\ cons.cmd.type = "EXTERNAL_OUTPUT_SET" => cons.cmd.out \in Outputs
    BY <2>2, PulseCommandsAssumption DEF PulseCommand, MoveCommand, HomeCommand, OutCommand
  <2>4. CycleInv' /\ Counts'
    <3>1. cycle \in 0..MAX_COMMANDS_PER_CYCLE-1 /\ cycle' = cycle + 1
      BY <1>11, <2>2, <1>t DEF ProcessCommand, CycleInv
    <3>2. errors' \in 0..MaxEvents /\ events' \in 0..MaxEvents /\ errors' <= events'
      BY <2>1, <1>t, <1>m, SMT DEF Counted, Counts, CycleInv
    <3>. QED BY <3>1, <3>2, <2>2, <1>m, SMT DEF CycleInv, Counts
  <2>5. Bits'
    <3>1. commOk' \in BOOLEAN
      BY <2>1, <1>t, Zenon DEF Counted, Bits
    <3>2. failedOut' \in BOOLEAN
      BY <2>1, <1>t, Zenon DEF ProcessMove, ProcessHome, ProcessOut, Bits, made
    <3>. QED BY <1>11, <1>t, <3>1, <3>2 DEF ProcessCommand, Bits
  <2>6. Places' /\ Sets'
    <3>1. CASE ProcessMove(ok)
      <4>1. reference' \in [Axes -> Positions] /\ sent' \in [Axes -> Positions]
        BY <2>3, <3>1, <1>t DEF ProcessMove, Places
      <4>. QED BY <1>11, <1>t, <2>3, <3>1, <4>1
             DEF ProcessCommand, ProcessMove, Places, Sets, pins, motion
    <3>2. CASE ProcessHome(ok)
      BY <1>11, <1>t, <3>2 DEF ProcessCommand, ProcessHome, Places, Sets, pins, motion, made
    <3>3. CASE ProcessOut(ok)
      BY <1>11, <1>t, <2>3, <3>3 DEF ProcessCommand, ProcessOut, Places, Sets, pins, motion
    <3>. QED BY <2>1, <3>1, <3>2, <3>3
  <2>. QED BY <1>s, <2>4, <2>5, <2>6
<1>12. CASE UpdateDeviceCache
  <2>1. Bits'
    BY <1>12, <1>t DEF UpdateDeviceCache, Bits, engine, ghosts, made
  <2>2. Counts' /\ CycleInv'
    BY <1>12, <1>t, <1>m, SMT DEF UpdateDeviceCache, Counts, CycleInv, queueVars
  <2>. QED BY <1>12, <1>s, <1>t, <2>1, <2>2 DEF UpdateDeviceCache, Places, Sets,
         pins, motion, engine, ghosts, made
<1>13. CASE Event
  <2>1. Bits'
    BY <1>13, <1>t DEF Event, Bits, cache, ghosts, made
  <2>2. Counts' /\ CycleInv'
    BY <1>13, <1>t, <1>m, SMT DEF Event, Counts, CycleInv, queueVars, cache
  <2>3. pos' \in [Axes -> Positions] /\ homing' \subseteq Axes /\ outs' \in Outputs
    BY <1>13, <1>t DEF Event, Places, Sets
  <2>. QED BY <1>13, <1>s, <1>t, <2>1, <2>2, <2>3 DEF Event, Places, Sets, motion, ghosts, made
<1>14. CASE UNCHANGED pulseVars
  BY <1>14, <1>s, <1>t DEF pulseVars, Bits, Places, Sets, Counts, CycleInv,
     queueVars, pins, motion, cache, engine, ghosts, made
<1>. QED BY <1>1, <1>2, <1>3, <1>4, <1>5, <1>6, <1>7, <1>8, <1>9, <1>10, <1>11, <1>12, <1>13, <1>14
     DEF PulseNext, RealtimeFunctions, ProcessAsyncCommands

LEMMA PulseInvariant == PulseSpec => []PulseInv
  BY PulseStart, PulseStep, PTL DEF PulseSpec

(* Every variable of the command path stays within its type.                *)
THEOREM TypeCorrect == FairPulseSpec => []TypeOK
<1>1. PulseInv => TypeOK
  BY DEF PulseInv
<1>. QED BY <1>1, PulseInvariant, PTL DEF FairPulseSpec

(* For every size of the ring, limit per cycle and interleaving of the two  *)
(* threads, dequeue_async_command hands out the oldest command, unchanged.  *)
THEOREM CommandsInOrder == FairPulseSpec => []OldestFirst
<1>1. PulseInv => OldestFirst
  BY DEF PulseInv, QueueInv
<1>. QED BY <1>1, PulseInvariant, PTL DEF FairPulseSpec

-----------------------------------------------------------------------------
(***************************************************************************)
(* The last position and the last outputs read are not lost.  Every step    *)
(* leaves the waiting commands alone, puts one behind them, or takes away   *)
(* the oldest; an axis none of them moves is where it was sent to.          *)
(***************************************************************************)
SameWaiting ==
    /\ Waiting' = Waiting
    /\ \A k \in Waiting : CommandNo(k)' = CommandNo(k)

OneMoreWaiting(cmd) ==
    \E n \in Nat : /\ Waiting' = Waiting \cup {n} /\ CommandNo(n)' = cmd
                   /\ \A k \in Waiting : k < n /\ CommandNo(k)' = CommandNo(k)

OldestGone ==
    \E n \in Waiting : /\ Waiting' = Waiting \ {n} /\ CommandNo(n) = cons.cmd
                       /\ \A k \in Waiting' : n < k /\ CommandNo(k)' = CommandNo(k)

LEMMA EnqueueWaits ==
    ASSUME QueueInv, NEW cmd \in Command, EnqueueStart(cmd)
    PROVE  OneMoreWaiting(cmd)
<1>0. PICK n : n = Len(log) + 1
  OBVIOUS
<1>1. /\ prod.pc = "idle" /\ prod'.pc = "store" /\ prod'.cmd = cmd
      /\ UNCHANGED <<cons, log, taken>>
  BY DEF EnqueueStart
<1>2. Len(log) \in Nat /\ taken \in Nat /\ taken <= Len(log)
  BY DEF QueueInv, Queue_TypeOK, Positioned
<1>3. Waiting = (IF cons.pc = "process" THEN taken ELSE taken + 1) .. Len(log)
      /\ Waiting' = (IF cons.pc = "process" THEN taken ELSE taken + 1) .. n
  BY <1>0, <1>1, <1>2 DEF Waiting, RT
<1>4. Waiting' = Waiting \cup {n} /\ \A k \in Waiting : k < n /\ k \in Int
  BY <1>0, <1>2, <1>3, SMT
<1>5. CommandNo(n)' = cmd
  BY <1>0, <1>1, <1>2, SMT DEF CommandNo
<1>6. \A k \in Waiting : CommandNo(k)' = CommandNo(k)
  <2>1. \A k \in Waiting : k <= Len(log)
    BY <1>0, <1>2, <1>4, SMT
  <2>. QED BY <1>1, <2>1 DEF CommandNo
<1>7. n \in Nat
  BY <1>0, <1>2, SMT
<1>. QED BY <1>4, <1>5, <1>6, <1>7, Zenon DEF OneMoreWaiting

LEMMA QueueStepsWait ==
    ASSUME QueueInv, Enqueue \/ Dequeue \/ UNCHANGED queueVars
    PROVE  SameWaiting
<1>1. Len(log) \in Nat /\ taken \in Nat /\ taken <= Len(log) /\ log \in Seq(Command)
  BY DEF QueueInv, Queue_TypeOK, Positioned
<1>2. CASE EnqueueStore \/ EnqueueAdvance
  <2>1. /\ prod.pc # "idle" /\ prod'.pc # "idle" /\ prod'.cmd = prod.cmd
        /\ UNCHANGED <<cons, log, taken>>
    BY <1>2 DEF EnqueueStore, EnqueueAdvance, QueueInv, Queue_TypeOK
  <2>. QED BY <2>1 DEF SameWaiting, Waiting, CommandNo, RT
<1>3. CASE EnqueueCount
  <2>1. /\ prod.pc = "count" /\ prod' = Idle /\ log' = Append(log, prod.cmd)
        /\ prod.cmd \in Command /\ UNCHANGED <<cons, taken>>
    BY <1>3 DEF EnqueueCount, QueueInv, Queue_TypeOK
  <2>2. /\ Len(log') = Len(log) + 1 /\ log'[Len(log) + 1] = prod.cmd
        /\ \A k \in 1..Len(log) : log'[k] = log[k]
    BY <1>1, <2>1
  <2>3. Waiting' = Waiting
    BY <2>1, <2>2, <1>1, SMT DEF Waiting, RT, Idle
  <2>4. ASSUME NEW k \in Waiting PROVE CommandNo(k)' = CommandNo(k)
    <3>1. /\ k \in Nat /\ k <= Len(log) + 1
          /\ ~(cons.pc = "process" /\ k = taken) => k >= 1
      BY <1>1, <2>1, SMT DEF Waiting, RT
    <3>2. CASE cons.pc = "process" /\ k = taken
      BY <2>1, <3>2 DEF CommandNo
    <3>3. CASE ~(cons.pc = "process" /\ k = taken) /\ k <= Len(log)
      <4>1. k <= Len(log') /\ log'[k] = log[k]
        BY <1>1, <2>2, <3>1, <3>3, SMT
      <4>. QED BY <2>1, <3>3, <4>1 DEF CommandNo
    <3>4. CASE ~(cons.pc = "process" /\ k = taken) /\ ~(k <= Len(log))
      <4>1. k = Len(log) + 1
        BY <1>1, <3>1, <3>4, SMT
      <4>2. k <= Len(log')
        BY <1>1, <2>2, <4>1, SMT
      <4>. QED BY <2>1, <2>2, <3>4, <4>1, <4>2 DEF CommandNo
    <3>. QED BY <3>2, <3>3, <3>4
  <2>. QED BY <2>3, <2>4 DEF SameWaiting
<1>4. CASE DequeueLoad \/ DequeueAdvance
  <2>1. /\ cons.pc # "process" /\ cons'.pc # "process"
        /\ UNCHANGED <<prod, log, taken>>
    BY <1>4 DEF DequeueLoad, DequeueAdvance, QueueInv, Queue_TypeOK
  <2>. QED BY <2>1 DEF SameWaiting, Waiting, CommandNo, RT
<1>5. CASE DequeueCount
  <2>1. /\ cons.pc = "count" /\ cons'.pc = "process" /\ cons'.cmd = cons.cmd
        /\ taken' = taken + 1 /\ UNCHANGED <<prod, log>>
    BY <1>5 DEF DequeueCount, QueueInv, Queue_TypeOK
  <2>2. taken < Len(log) /\ cons.cmd = log[taken + 1]
    BY <2>1 DEF QueueInv, OldestFirst
  <2>3. Waiting' = Waiting
    BY <2>1 DEF Waiting, RT
  <2>4. ASSUME NEW k \in Waiting PROVE CommandNo(k)' = CommandNo(k)
    <3>1. CASE k = taken + 1
      <4>1. k <= Len(log)
        BY <1>1, <2>2, <3>1, SMT
      <4>. QED BY <2>1, <2>2, <3>1, <4>1 DEF CommandNo
    <3>2. CASE k # taken + 1
      BY <2>1, <3>2 DEF CommandNo
    <3>. QED BY <3>1, <3>2
  <2>. QED BY <2>3, <2>4 DEF SameWaiting
<1>6. CASE UNCHANGED queueVars
  BY <1>6 DEF queueVars, SameWaiting, Waiting, CommandNo, RT
<1>. QED BY <1>2, <1>3, <1>4, <1>5, <1>6 DEF Enqueue, Dequeue

LEMMA ProcessedWaits ==
    ASSUME QueueInv, Processed
    PROVE  OldestGone
<1>1. /\ cons.pc = "process" /\ cons'.pc = "idle" /\ UNCHANGED <<prod, log, taken>>
  BY DEF Processed, Idle
<1>2. Len(log) \in Nat /\ taken \in Nat /\ taken <= Len(log) /\ taken >= 1
  BY <1>1 DEF QueueInv, Queue_TypeOK, Positioned, OldestFirst
<1>3. /\ Waiting = taken .. (Len(log) + (IF RT THEN 0 ELSE 1))
      /\ Waiting' = (taken + 1) .. (Len(log) + (IF RT THEN 0 ELSE 1))
  BY <1>1 DEF Waiting, RT
<1>4. taken \in Waiting /\ Waiting' = Waiting \ {taken} /\ \A k \in Waiting' : taken < k /\ k # taken
  BY <1>2, <1>3, SMT
<1>5. CommandNo(taken) = cons.cmd
  BY <1>1 DEF CommandNo
<1>6. \A k \in Waiting' : CommandNo(k)' = CommandNo(k)
  BY <1>1, <1>4 DEF CommandNo
<1>. QED BY <1>4, <1>5, <1>6 DEF OldestGone

LEMMA WaitingInts == Waiting \subseteq Int
  BY DEF Waiting

PosKept(a) == /\ MovesOf(a) = {} /\ a \notin failed => posCmd[a] = sent[a]
              /\ \A k \in LastOf(MovesOf(a)) : posCmd[a] = CommandNo(k).pos[a]

CommandInv ==
    /\ \A a \in Axes : a \notin changed \cup dropped => PosKept(a)
    /\ LastOutputsKept

\* What is waiting for an axis or for the outputs, after each kind of step.
LEMMA SameWaits ==
    ASSUME SameWaiting
    PROVE  /\ \A a : /\ MovesOf(a)' = MovesOf(a)
                     /\ \A k \in MovesOf(a) : CommandNo(k)' = CommandNo(k)
           /\ OutsOf' = OutsOf /\ \A k \in OutsOf : CommandNo(k)' = CommandNo(k)
  BY DEF SameWaiting, MovesOf, OutsOf

LEMMA NewIsLast ==
    ASSUME NEW n \in Nat, NEW S, S \subseteq Int, \A k \in S : k < n
    PROVE  LastOf(S \cup {n}) = {n}
<1>1. n <= n /\ \A k \in S : k <= n /\ ~(n <= k)
  BY SMT
<1>. QED BY <1>1 DEF LastOf

LEMMA MoreWaits ==
    ASSUME NEW cmd, OneMoreWaiting(cmd)
    PROVE  /\ \A a : IF cmd.type = "MOVE_PV" /\ a \in cmd.mask
                     THEN \E n : LastOf(MovesOf(a))' = {n} /\ CommandNo(n)' = cmd
                                 /\ MovesOf(a)' # {}
                     ELSE /\ MovesOf(a)' = MovesOf(a)
                          /\ \A k \in MovesOf(a) : CommandNo(k)' = CommandNo(k)
           /\ IF cmd.type = "EXTERNAL_OUTPUT_SET"
              THEN \E n : LastOf(OutsOf)' = {n} /\ CommandNo(n)' = cmd /\ OutsOf' # {}
              ELSE /\ OutsOf' = OutsOf
                   /\ \A k \in OutsOf : CommandNo(k)' = CommandNo(k)
<1>1. PICK n \in Nat : /\ Waiting' = Waiting \cup {n} /\ CommandNo(n)' = cmd
                       /\ \A k \in Waiting : k < n /\ CommandNo(k)' = CommandNo(k)
  BY DEF OneMoreWaiting
<1>2. ASSUME NEW a, cmd.type = "MOVE_PV" /\ a \in cmd.mask
      PROVE  LastOf(MovesOf(a))' = {n} /\ MovesOf(a)' # {}
  <2>1. MovesOf(a)' = MovesOf(a) \cup {n}
    BY <1>1, <1>2 DEF MovesOf
  <2>2. MovesOf(a) \subseteq Int /\ \A k \in MovesOf(a) : k < n
    BY <1>1, WaitingInts DEF MovesOf
  <2>3. LastOf(MovesOf(a) \cup {n}) = {n}
    BY <2>2, NewIsLast
  <2>. QED BY <2>1, <2>3 DEF LastOf
<1>3. ASSUME NEW a, ~(cmd.type = "MOVE_PV" /\ a \in cmd.mask)
      PROVE  MovesOf(a)' = MovesOf(a)
  BY <1>1, <1>3 DEF MovesOf
<1>4. ASSUME cmd.type = "EXTERNAL_OUTPUT_SET"
      PROVE  LastOf(OutsOf)' = {n} /\ OutsOf' # {}
  <2>1. OutsOf' = OutsOf \cup {n}
    BY <1>1, <1>4 DEF OutsOf
  <2>2. OutsOf \subseteq Int /\ \A k \in OutsOf : k < n
    BY <1>1, WaitingInts DEF OutsOf
  <2>3. LastOf(OutsOf \cup {n}) = {n}
    BY <2>2, NewIsLast
  <2>. QED BY <2>1, <2>3 DEF LastOf
<1>5. ASSUME cmd.type # "EXTERNAL_OUTPUT_SET" PROVE OutsOf' = OutsOf
  BY <1>1, <1>5 DEF OutsOf
<1>6. /\ \A a : \A k \in MovesOf(a) : CommandNo(k)' = CommandNo(k)
      /\ \A k \in OutsOf : CommandNo(k)' = CommandNo(k)
  BY <1>1 DEF MovesOf, OutsOf
<1>. QED BY <1>1, <1>2, <1>3, <1>4, <1>5, <1>6

\* The command taken away is the last of its kind only if there is no other.
LEMMA LessWaits ==
    ASSUME OldestGone, QueueInv, NEW cmd, cmd = cons.cmd
    PROVE  /\ \A a : IF cmd.type = "MOVE_PV" /\ a \in cmd.mask
                     THEN \/ /\ MovesOf(a)' = {}
                             /\ \E n \in LastOf(MovesOf(a)) : CommandNo(n) = cmd
                          \/ /\ MovesOf(a)' # {}
                             /\ LastOf(MovesOf(a))' = LastOf(MovesOf(a))
                     ELSE MovesOf(a)' = MovesOf(a)
           /\ IF cmd.type = "EXTERNAL_OUTPUT_SET"
              THEN \/ OutsOf' = {} /\ \E n \in LastOf(OutsOf) : CommandNo(n) = cmd
                   \/ OutsOf' # {} /\ LastOf(OutsOf)' = LastOf(OutsOf)
              ELSE OutsOf' = OutsOf
           /\ \A k \in Waiting' : CommandNo(k)' = CommandNo(k)
<1>1. PICK n \in Waiting : /\ Waiting' = Waiting \ {n} /\ CommandNo(n) = cmd
                           /\ \A k \in Waiting' : n < k /\ CommandNo(k)' = CommandNo(k)
  BY DEF OldestGone
<1>2. ASSUME NEW S, NEW T, n \in S, T = S \ {n}, T \subseteq Waiting', T # {}
      PROVE  LastOf(T) = LastOf(S)
  <2>1. T \subseteq Int /\ n \in Int /\ \A k \in T : n < k
    BY <1>1, <1>2, WaitingInts
  <2>2. \A k \in T : ~(k <= n) /\ n <= k
    BY <2>1, SMT
  <2>. QED BY <1>2, <2>2 DEF LastOf
<1>3. LastOf({n}) = {n}
  BY <1>1, WaitingInts, SMT DEF LastOf
<1>4. ASSUME NEW a, cmd.type = "MOVE_PV" /\ a \in cmd.mask
      PROVE  \/ /\ MovesOf(a)' = {}
                /\ \E m \in LastOf(MovesOf(a)) : CommandNo(m) = cmd
             \/ /\ MovesOf(a)' # {}
                /\ LastOf(MovesOf(a))' = LastOf(MovesOf(a))
  <2>1. n \in MovesOf(a) /\ MovesOf(a)' = MovesOf(a) \ {n} /\ MovesOf(a)' \subseteq Waiting'
    BY <1>1, <1>4 DEF MovesOf
  <2>2. CASE MovesOf(a)' = {}
    <3>1. MovesOf(a) = {n}
      BY <2>1, <2>2
    <3>. QED BY <1>1, <1>3, <2>2, <3>1
  <2>3. CASE MovesOf(a)' # {}
    <3>1. LastOf(MovesOf(a)') = LastOf(MovesOf(a))
      BY <1>2, <2>1, <2>3
    <3>. QED BY <2>3, <3>1 DEF LastOf
  <2>. QED BY <2>2, <2>3
<1>5. ASSUME NEW a, ~(cmd.type = "MOVE_PV" /\ a \in cmd.mask)
      PROVE  MovesOf(a)' = MovesOf(a)
  BY <1>1, <1>5 DEF MovesOf
<1>6. ASSUME cmd.type = "EXTERNAL_OUTPUT_SET"
      PROVE  \/ OutsOf' = {} /\ \E m \in LastOf(OutsOf) : CommandNo(m) = cmd
             \/ OutsOf' # {} /\ LastOf(OutsOf)' = LastOf(OutsOf)
  <2>1. n \in OutsOf /\ OutsOf' = OutsOf \ {n} /\ OutsOf' \subseteq Waiting'
    BY <1>1, <1>6 DEF OutsOf
  <2>2. CASE OutsOf' = {}
    <3>1. OutsOf = {n}
      BY <2>1, <2>2
    <3>. QED BY <1>1, <1>3, <2>2, <3>1
  <2>3. CASE OutsOf' # {}
    <3>1. LastOf(OutsOf') = LastOf(OutsOf)
      BY <1>2, <2>1, <2>3
    <3>. QED BY <2>3, <3>1 DEF LastOf
  <2>. QED BY <2>2, <2>3
<1>7. ASSUME cmd.type # "EXTERNAL_OUTPUT_SET" PROVE OutsOf' = OutsOf
  BY <1>1, <1>7 DEF OutsOf
<1>. QED BY <1>1, <1>4, <1>5, <1>6, <1>7

\* Steps that leave the commands waiting and the requests made as they are.
LEMMA SameKeeps ==
    ASSUME CommandInv, SameWaiting, UNCHANGED made, dropped \subseteq dropped',
           \A a \in Axes : a \notin changed' \cup dropped' =>
               a \notin changed \cup dropped /\ posCmd'[a] = posCmd[a],
           droppedOut' \/ UNCHANGED <<droppedOut, lastOuts>>
    PROVE  CommandInv'
<1>1. ASSUME NEW a \in Axes, a \notin changed' \cup dropped' PROVE PosKept(a)'
  <2>1. PosKept(a) /\ posCmd'[a] = posCmd[a]
    BY <1>1 DEF CommandInv
  <2>2. MovesOf(a)' = MovesOf(a) /\ \A k \in MovesOf(a) : CommandNo(k)' = CommandNo(k)
    BY SameWaits
  <2>. QED BY <2>1, <2>2 DEF PosKept, LastOf, made
<1>2. LastOutputsKept'
  <2>1. OutsOf' = OutsOf /\ \A k \in OutsOf : CommandNo(k)' = CommandNo(k)
    BY SameWaits
  <2>. QED BY <2>1 DEF CommandInv, LastOutputsKept, LastOf, made
<1>. QED BY <1>1, <1>2 DEF CommandInv

\* A new command, which is the last for every axis or output it is for.
LEMMA MoreKeeps ==
    ASSUME CommandInv, NEW cmd, OneMoreWaiting(cmd), UNCHANGED <<made, posCmd>>,
           IF cmd.type = "MOVE_PV"
           THEN /\ cmd = MoveOf(changed)
                /\ changed' = {} /\ dropped' = dropped \ changed
           ELSE UNCHANGED <<changed, dropped>>,
           IF cmd.type = "EXTERNAL_OUTPUT_SET" THEN lastOuts' = cmd.out
           ELSE UNCHANGED <<droppedOut, lastOuts>>
    PROVE  CommandInv'
<1> DEFINE Moved(a) == cmd.type = "MOVE_PV" /\ a \in cmd.mask
<1>1. ASSUME NEW a \in Axes, Moved(a)
      PROVE  PosKept(a)'
  <2>1. cmd.pos = posCmd
    BY <1>1 DEF MoveOf
  <2>2. PICK n : LastOf(MovesOf(a))' = {n} /\ CommandNo(n)' = cmd /\ MovesOf(a)' # {}
    BY <1>1, MoreWaits
  <2>. QED BY <2>1, <2>2 DEF PosKept
<1>2. ASSUME NEW a \in Axes, ~Moved(a), a \notin changed' \cup dropped'
      PROVE  PosKept(a)'
  <2>1. MovesOf(a)' = MovesOf(a) /\ \A k \in MovesOf(a) : CommandNo(k)' = CommandNo(k)
    BY <1>2, MoreWaits
  <2>2. a \notin changed \cup dropped
    BY <1>2 DEF MoveOf
  <2>. QED BY <2>1, <2>2 DEF CommandInv, PosKept, LastOf, made
<1>3. LastOutputsKept'
  <2>1. CASE cmd.type = "EXTERNAL_OUTPUT_SET"
    <3>1. PICK n : LastOf(OutsOf)' = {n} /\ CommandNo(n)' = cmd /\ OutsOf' # {}
      BY <2>1, MoreWaits
    <3>. QED BY <2>1, <3>1 DEF LastOutputsKept
  <2>2. CASE cmd.type # "EXTERNAL_OUTPUT_SET"
    <3>1. OutsOf' = OutsOf /\ \A k \in OutsOf : CommandNo(k)' = CommandNo(k)
      BY <2>2, MoreWaits
    <3>. QED BY <2>2, <3>1 DEF CommandInv, LastOutputsKept, LastOf, made
  <2>. QED BY <2>1, <2>2
<1>. QED BY <1>1, <1>2, <1>3 DEF CommandInv

\* process_async_commands() has processed the oldest command: if it was the
\* last of its kind, the request made for it carries what was read last.
LEMMA LessKeeps ==
    ASSUME PulseInv, CommandInv, OldestGone, cons.cmd \in Command, NEW ok \in BOOLEAN,
           ProcessMove(ok) \/ ProcessHome(ok) \/ ProcessOut(ok),
           UNCHANGED <<posCmd, changed, lastOuts, dropped, droppedOut>>
    PROVE  CommandInv'
<1>0. PICK cmd : cmd = cons.cmd
  OBVIOUS
<1>1. QueueInv
  BY DEF PulseInv
<1> DEFINE Moved(a) == cmd.type = "MOVE_PV" /\ a \in cmd.mask
<1>2. \A k \in Waiting' : CommandNo(k)' = CommandNo(k)
  BY <1>0, <1>1, LessWaits
<1>3. \A a : MovesOf(a)' \subseteq Waiting' /\ OutsOf' \subseteq Waiting'
  BY DEF MovesOf, OutsOf
<1>4. \A a \in Axes : ~Moved(a) => sent'[a] = sent[a] /\ (a \in failed' <=> a \in failed)
  BY <1>0 DEF ProcessMove, ProcessHome, ProcessOut, made
<1>5. \A a \in Axes : Moved(a) /\ a \notin failed' => sent'[a] = cmd.pos[a]
  BY <1>0 DEF ProcessMove, ProcessHome, ProcessOut, made
<1>6. ASSUME NEW a \in Axes, a \notin changed \cup dropped, ~Moved(a)
      PROVE  PosKept(a)'
  <2>1. MovesOf(a)' = MovesOf(a)
    BY <1>0, <1>1, <1>6, LessWaits
  <2>2. PosKept(a) /\ sent'[a] = sent[a] /\ (a \in failed' <=> a \in failed)
    BY <1>4, <1>6 DEF CommandInv
  <2>. QED BY <1>2, <1>3, <2>1, <2>2 DEF PosKept, LastOf
<1>7. ASSUME NEW a \in Axes, a \notin changed \cup dropped, Moved(a)
      PROVE  PosKept(a)'
  <2>1. PosKept(a) /\ (a \notin failed' => sent'[a] = cmd.pos[a])
    BY <1>5, <1>7 DEF CommandInv
  <2>2. CASE MovesOf(a)' = {}
    <3>1. PICK n \in LastOf(MovesOf(a)) : CommandNo(n) = cmd
      BY <1>0, <1>1, <1>7, <2>2, LessWaits
    <3>. QED BY <2>1, <2>2, <3>1 DEF PosKept, LastOf
  <2>3. CASE MovesOf(a)' # {}
    <3>1. LastOf(MovesOf(a))' = LastOf(MovesOf(a))
      BY <1>0, <1>1, <1>7, <2>3, LessWaits
    <3>2. \A k \in LastOf(MovesOf(a))' : CommandNo(k)' = CommandNo(k)
      BY <1>2, <1>3 DEF LastOf
    <3>. QED BY <2>1, <2>3, <3>1, <3>2 DEF PosKept
  <2>. QED BY <2>2, <2>3
<1>8. LastOutputsKept'
  <2>1. CASE cmd.type = "EXTERNAL_OUTPUT_SET"
    <3>1. ~failedOut' => sentOut' = cmd.out
      BY <1>0, <2>1 DEF ProcessMove, ProcessHome, ProcessOut
    <3>2. CASE OutsOf' = {}
      <4>1. PICK n \in LastOf(OutsOf) : CommandNo(n) = cmd
        BY <1>0, <1>1, <2>1, <3>2, LessWaits
      <4>. QED BY <3>1, <3>2, <4>1 DEF CommandInv, LastOutputsKept, LastOf
    <3>3. CASE OutsOf' # {}
      <4>1. LastOf(OutsOf)' = LastOf(OutsOf)
        BY <1>0, <1>1, <2>1, <3>3, LessWaits
      <4>2. \A k \in LastOf(OutsOf)' : CommandNo(k)' = CommandNo(k)
        BY <1>2, <1>3 DEF LastOf
      <4>. QED BY <3>3, <4>1, <4>2 DEF CommandInv, LastOutputsKept
    <3>. QED BY <3>2, <3>3
  <2>2. CASE cmd.type # "EXTERNAL_OUTPUT_SET"
    <3>1. UNCHANGED <<sentOut, failedOut>>
      BY <1>0, <2>2 DEF ProcessMove, ProcessHome, ProcessOut, made
    <3>2. OutsOf' = OutsOf
      BY <1>0, <1>1, <2>2, LessWaits
    <3>. QED BY <1>2, <1>3, <3>1, <3>2 DEF CommandInv, LastOutputsKept, LastOf
  <2>. QED BY <2>1, <2>2
<1>9. \A a \in Axes : a \notin changed' \cup dropped' => PosKept(a)'
  BY <1>6, <1>7
<1>. QED BY <1>8, <1>9 DEF CommandInv

LEMMA CommandStep == PulseInv /\ CommandInv /\ [PulseNext]_pulseVars => CommandInv'
<1> SUFFICES ASSUME PulseInv, CommandInv, [PulseNext]_pulseVars PROVE CommandInv'
  OBVIOUS
<1>1. TypeOK /\ QueueInv
  BY DEF PulseInv
<1>2. UNCHANGED queueVars => SameWaiting
  BY <1>1, QueueStepsWait
<1>3. CASE ReadCommandPins
  <2>1. \A a \in Axes : a \notin changed' => a \notin changed /\ posCmd'[a] = posCmd[a]
    BY <1>3 DEF ReadCommandPins, ChangesMarked
  <2>. QED BY <1>2, <1>3, <2>1, SameKeeps DEF ReadCommandPins, ghosts
<1>4. CASE ClearMotionCommands \/ ReadDeviceCache
  BY <1>2, <1>4, SameKeeps DEF ClearMotionCommands, ReadDeviceCache
<1>5. CASE UpdateMotionCommands
  <2>1. changed # {} /\ changed' = {}
        /\ UNCHANGED <<posCmd, lastOuts, made, droppedOut>>
    BY <1>5 DEF UpdateMotionCommands
  <2>2. CASE EnqueueStart(MoveOf(changed)) /\ dropped' = dropped \ changed
    <3>1. PICK cmd : cmd = MoveOf(changed)
      OBVIOUS
    <3>2. cmd \in Command /\ cmd.type = "MOVE_PV" /\ EnqueueStart(cmd)
      BY <1>1, <2>1, <2>2, <3>1, MovesAreCommands DEF MoveOf, EnqueueStart
    <3>3. OneMoreWaiting(cmd)
      BY <1>1, <3>2, EnqueueWaits
    <3>. QED BY <2>1, <2>2, <3>1, <3>2, <3>3, MoreKeeps
  <2>3. CASE dropped' = dropped \cup changed /\ UNCHANGED queueVars
    BY <1>2, <2>1, <2>3, SameKeeps
  <2>. QED BY <1>5, <2>2, <2>3 DEF UpdateMotionCommands
<1>6. CASE HandleHomingCommands
  <2>1. UNCHANGED <<posCmd, changed, lastOuts, made, dropped, droppedOut>>
    BY <1>6 DEF HandleHomingCommands, ghosts
  <2>2. ASSUME homing \ lastHoming # {},
               EnqueueStart([type |-> "HOME_START", mask |-> homing \ lastHoming])
        PROVE  CommandInv'
    <3>1. PICK cmd : cmd = [type |-> "HOME_START", mask |-> homing \ lastHoming]
      OBVIOUS
    <3>2. cmd \in Command
      <4>1. homing \ lastHoming \in (SUBSET Axes) \ {{}}
        BY <1>1, <2>2 DEF TypeOK
      <4>2. cmd \in HomeCommand
        BY <3>1, <4>1, Zenon DEF HomeCommand
      <4>. QED BY <4>2, PulseCommandsAssumption DEF PulseCommand
    <3>3. EnqueueStart(cmd) /\ cmd.type = "HOME_START"
      BY <2>2, <3>1 DEF EnqueueStart
    <3>4. OneMoreWaiting(cmd)
      BY <1>1, <3>2, <3>3, EnqueueWaits
    <3>. QED BY <2>1, <3>3, <3>4, MoreKeeps
  <2>3. CASE UNCHANGED queueVars
    BY <1>2, <2>1, <2>3, SameKeeps
  <2>. QED BY <1>6, <2>2, <2>3 DEF HandleHomingCommands
<1>7. CASE UpdateExternalOutputs
  <2>1. UNCHANGED <<posCmd, changed, made, dropped>> /\ lastOuts' = outs
    BY <1>7 DEF UpdateExternalOutputs
  <2>2. CASE EnqueueStart([type |-> "EXTERNAL_OUTPUT_SET", out |-> outs])
    <3>1. PICK cmd : cmd = [type |-> "EXTERNAL_OUTPUT_SET", out |-> outs]
      OBVIOUS
    <3>2. cmd \in Command
      BY <1>1, <3>1, PulseCommandsAssumption DEF TypeOK, PulseCommand, OutCommand
    <3>3. EnqueueStart(cmd) /\ cmd.type = "EXTERNAL_OUTPUT_SET" /\ cmd.out = lastOuts'
      BY <2>1, <2>2, <3>1 DEF EnqueueStart
    <3>4. OneMoreWaiting(cmd)
      BY <1>1, <3>2, <3>3, EnqueueWaits
    <3>. QED BY <2>1, <3>3, <3>4, MoreKeeps
  <2>3. CASE droppedOut' = TRUE /\ UNCHANGED queueVars
    BY <1>2, <2>1, <2>3, SameKeeps
  <2>. QED BY <1>7, <2>2, <2>3 DEF UpdateExternalOutputs
<1>8. CASE EnqueueStep \/ DequeueStep
  <2>1. SameWaiting
    BY <1>1, <1>8, QueueStepsWait DEF EnqueueStep, DequeueStep
  <2>. QED BY <1>8, <2>1, SameKeeps DEF EnqueueStep, DequeueStep, motion, ghosts
<1>9. CASE ProcessStart \/ ProcessEnd \/ UpdateDeviceCache \/ Event
  BY <1>2, <1>9, SameKeeps DEF ProcessStart, ProcessEnd, UpdateDeviceCache, Event, motion,
                               ghosts
<1>10. CASE ProcessCommand
  <2>1. PICK ok \in BOOLEAN : ProcessMove(ok) \/ ProcessHome(ok) \/ ProcessOut(ok)
    BY <1>10, Zenon DEF ProcessCommand
  <2>2. Processed /\ UNCHANGED <<posCmd, changed, lastOuts, dropped, droppedOut>>
    BY <1>10 DEF ProcessCommand, motion
  <2>3. cons.cmd \in Command
    BY <1>1, <2>2 DEF Processed, QueueInv, Queue_TypeOK, OldestFirst
  <2>. QED BY <1>1, <2>1, <2>2, <2>3, ProcessedWaits, LessKeeps
<1>11. CASE UNCHANGED pulseVars
  BY <1>2, <1>11, SameKeeps DEF pulseVars, motion, ghosts
<1>. QED BY <1>3, <1>4, <1>5, <1>6, <1>7, <1>8, <1>9, <1>10, <1>11
     DEF PulseNext, RealtimeFunctions, ProcessAsyncCommands

LEMMA CommandInvariant == PulseSpec => []CommandInv
<1>1. PulseInit => CommandInv
  <2> SUFFICES ASSUME PulseInit PROVE CommandInv
    OBVIOUS
  <2>1. Waiting = {}
    <3>1. Len(log) = 0 /\ taken = 0 /\ RT /\ cons.pc = "idle"
      BY DEF PulseInit, Init, Idle, RT
    <3>. QED BY <3>1, SMT DEF Waiting
  <2>2. OutsOf = {} /\ \A a : MovesOf(a) = {}
    BY <2>1 DEF OutsOf, MovesOf
  <2>. QED BY <2>2 DEF PulseInit, CommandInv, PosKept, LastOutputsKept, LastOf
<1>. QED BY <1>1, PulseInvariant, CommandStep, PTL DEF PulseSpec

(* For any number of axes and any interleaving of the two threads, the      *)
(* positions and the external outputs last read from the pins are in the    *)
(* last command waiting, or with none waiting in the last request made for  *)
(* them, unless the code has dropped them or could not make the request.    *)
THEOREM NoCommandLost == FairPulseSpec => []LastCommandKept
<1>1. CommandInv => LastCommandKept
  BY DEF CommandInv, LastCommandKept, LastPositionsKept, PosKept
<1>. QED BY <1>1, CommandInvariant, PTL DEF FairPulseSpec
=============================================================================
