-------------------------- MODULE MotionBuffer_proof -------------------------
(***************************************************************************)
(* Proofs about MotionBuffer: its types, and that no fraction of a step is  *)
(* lost or counted twice, for every number of axes, resolution, clamping    *)
(* limit, buffer size and sequence of commands.                             *)
(***************************************************************************)
EXTENDS MotionBuffer, SequenceTheorems, TLAPS

\* floorf() and the fraction it cuts off.
LEMMA FloorAndRest ==
    \A d \in Int : /\ d \div StepUnits \in Int
                   /\ d % StepUnits \in 0..StepUnits-1
                   /\ d = StepUnits * (d \div StepUnits) + (d % StepUnits)
  BY MotionBufferAssumption, SMT

LEMMA Distributes ==
    \A x, y, z \in Int : /\ x * z \in Int /\ x * z = z * x
                        /\ (x + y) * z = x * z + y * z
                        /\ 0 * z = 0 /\ 1 * z = z
  BY SMT

LEMMA RoomIsNarrow ==
    \A n \in Nat \ {0} : MaxEntries(n) \in Nat /\ MaxEntries(n) < CountMod
  BY MotionBufferAssumption, SMT DEF MaxEntries

LEMMA AxesInUsePositive == TypeOK => AxesInUse \in 1..NumAxes
  BY MotionBufferAssumption, SMT DEF TypeOK, AxesInUse

LEMMA FitsInCount ==
    ASSUME NEW r \in Fill
    PROVE  Fits(r) \in 0..CountMod-1
<1>1. CASE r.axes = 0
  BY <1>1, MotionBufferAssumption, SMT DEF Fits
<1>2. CASE r.axes # 0
  <2>1. r.axes \in Nat \ {0} /\ r.count \in 0..CountMod-1
    BY <1>2, MotionBufferAssumption, SMT DEF Fill
  <2>2. MaxEntries(r.axes) \in Nat /\ MaxEntries(r.axes) < CountMod
    BY <2>1, RoomIsNarrow
  <2>. QED BY <1>2, <2>1, <2>2, MotionBufferAssumption, SMT DEF Fits
<1>. QED BY <1>1, <1>2

(* One axis of rt_motion_buffer_fill keeps the sum of steps and fraction.   *)
LEMMA StepKeepsSum ==
    ASSUME NEW a \in Axes, NEW d \in Int,
           lastPos[a] \in Int, leftover[a] \in 0..StepUnits-1
    PROVE  LET st == Step(d, a)
           IN  /\ st.last \in Int /\ st.pulses \in Int /\ st.wanted \in Int
               /\ st.left \in 0..StepUnits-1
               /\ st.pulses = st.wanted =>
                    st.pulses * StepUnits + st.left = leftover[a] + (st.last - lastPos[a])
<1> DEFINE q == d \div StepUnits
           r == d % StepUnits
           c == CarryOf(Rest(d, a))
           p == q + c
<1>1. q \in Int /\ r \in 0..StepUnits-1 /\ d = StepUnits * q + r
  BY FloorAndRest
<1>2. Rest(d, a) \in Int /\ Rest(d, a) = leftover[a] + r
  BY <1>1, MotionBufferAssumption, SMT DEF Rest
<1>3. /\ c \in {0, 1}
      /\ c = 1 => Rest(d, a) >= StepUnits
      /\ c = 0 => Rest(d, a) < StepUnits
  BY <1>1, <1>2, MotionBufferAssumption, SMT DEF CarryOf
<1>4. p \in Int /\ Clamp(p) \in Int
  <2>1. \A x \in Int : Clamp(x) \in Int
    BY MotionBufferAssumption, SMT DEF Clamp
  <2>2. p \in Int
    BY <1>1, <1>3, SMT
  <2>. QED BY <2>1, <2>2
<1>5. CASE Moves(d)
  <2>1. Step(d, a) = [last |-> lastPos[a] + d, left |-> Rest(d, a) - c * StepUnits,
                      pulses |-> Clamp(p), wanted |-> p]
    BY <1>5, Zenon DEF Step, Whole
  <2>2. /\ Rest(d, a) - c * StepUnits \in 0..StepUnits-1
        /\ p * StepUnits = StepUnits * q + c * StepUnits
    <3>0. /\ (q + c) * StepUnits = StepUnits * q + c * StepUnits
          /\ c * StepUnits = IF c = 1 THEN StepUnits ELSE 0
      <4>1. q \in Int /\ c \in Int /\ StepUnits \in Int
        BY <1>1, <1>3, MotionBufferAssumption
      <4> HIDE DEF q, c
      <4>. QED BY <1>3, <4>1, Distributes
    <3> HIDE DEF q, r, c
    <3>1. CASE c = 0
      BY <1>1, <1>2, <1>3, <3>0, <3>1, MotionBufferAssumption, SMT DEF p
    <3>2. CASE c = 1
      BY <1>1, <1>2, <1>3, <3>0, <3>2, MotionBufferAssumption, SMT DEF p
    <3>. QED BY <1>3, <3>1, <3>2
  <2>4. p * StepUnits + (Rest(d, a) - c * StepUnits) = leftover[a] + d
    <3> HIDE DEF q, r, c, p
    <3>1. p * StepUnits \in Int /\ c * StepUnits \in Int /\ StepUnits * q \in Int
      BY <1>1, <1>3, MotionBufferAssumption, SMT DEF p
    <3>. QED BY <1>1, <1>2, <2>2, <3>1, SMT
  <2>5. lastPos[a] + d - lastPos[a] = d /\ lastPos[a] + d \in Int /\ p \in Int
    BY <1>1, <1>3, SMT
  <2>. HIDE DEF q, r, c, p
  <2>. QED BY <1>4, <2>1, <2>2, <2>4, <2>5
<1>6. CASE ~Moves(d)
  <2>1. Step(d, a) = [last |-> lastPos[a], left |-> leftover[a], pulses |-> 0, wanted |-> 0]
    BY <1>6, Zenon DEF Step
  <2>. QED BY <2>1, MotionBufferAssumption, SMT
<1>. QED BY <1>5, <1>6

-----------------------------------------------------------------------------
LEMMA TypeInit == Init => TypeOK
<1>1. BlankByte \in Byte
  BY DEF BlankByte, Byte
<1>2. AxisCounts \subseteq 0..NumAxes /\ 0 \in 0..CountMod-1
  BY MotionBufferAssumption, SMT
<1> SUFFICES ASSUME Init PROVE TypeOK
  OBVIOUS
<1>3. /\ lastPos \in [Axes -> Int] /\ leftover \in [Axes -> Int]
      /\ pulsed \in [Axes -> Int] /\ clamped \in [Axes -> BOOLEAN]
      /\ buffer \in [0..BufBytes-1 -> Byte]
  BY <1>1 DEF Init
<1>4. /\ entries \in 0..CountMod-1 /\ accepted \in 0..CountMod-1
      /\ enabled \in 0..NumAxes /\ devEnabled \in 0..NumAxes
      /\ requests \in Nat /\ faults \in Nat /\ made \in Nat
  BY <1>2 DEF Init
<1>5. pending \cup wire = {} /\ replies = {}
  BY DEF Init
<1>. QED BY <1>3, <1>4, <1>5, Zenon DEF Init, TypeOK

LEMMA StepIsInt ==
    ASSUME TypeOK, NEW a \in Axes, NEW d \in Int
    PROVE  LET st == Step(d, a)
           IN  st.last \in Int /\ st.left \in Int /\ st.pulses \in Int /\ st.wanted \in Int
<1>1. lastPos[a] \in Int /\ leftover[a] \in Int
  BY DEF TypeOK
<1>2. Whole(d) \in Int /\ Rest(d, a) \in Int
  <2>1. d \div StepUnits \in Int /\ d % StepUnits \in Int
    BY FloorAndRest, MotionBufferAssumption, SMT
  <2>. QED BY <1>1, <2>1, SMT DEF Whole, Rest
<1>3. \A x \in Int : Clamp(x) \in Int /\ CarryOf(x) \in Int
  BY MotionBufferAssumption, SMT DEF Clamp, CarryOf
<1> DEFINE c == CarryOf(Rest(d, a))
<1>4. /\ c \in Int /\ Whole(d) + c \in Int /\ Clamp(Whole(d) + c) \in Int
      /\ Rest(d, a) - c * StepUnits \in Int /\ lastPos[a] + d \in Int
  <2>1. c \in Int /\ StepUnits \in Int
    BY <1>2, <1>3, MotionBufferAssumption
  <2> HIDE DEF c
  <2>2. c * StepUnits \in Int /\ Whole(d) + c \in Int
    BY <1>2, <2>1, SMT
  <2>. QED BY <1>1, <1>2, <1>3, <2>1, <2>2, SMT
<1>5. Step(d, a) =
        IF Moves(d)
        THEN [last |-> lastPos[a] + d, left |-> Rest(d, a) - c * StepUnits,
              pulses |-> Clamp(Whole(d) + c), wanted |-> Whole(d) + c]
        ELSE [last |-> lastPos[a], left |-> leftover[a], pulses |-> 0, wanted |-> 0]
  BY Zenon DEF Step
<1> HIDE DEF c
<1>. QED BY <1>1, <1>2, <1>4, <1>5, SMT

(* Type correctness, one step per action.                                   *)
LEMMA TypeFill ==
    ASSUME TypeOK, NEW cmd \in Commands, MotionBufferFill(cmd)
    PROVE  TypeOK'
<1> DEFINE n == AxesInUse
           st(a) == Step(Diff(cmd, a), a)
<1>1. n \in 1..NumAxes /\ entries + 1 \in 0..CountMod-1
  <2>1. n \in Nat \ {0}
    BY AxesInUsePositive, MotionBufferAssumption
  <2>2. MaxEntries(n) \in Nat /\ MaxEntries(n) < CountMod
    BY <2>1, RoomIsNarrow
  <2>3. entries < MaxEntries(n)
    BY DEF MotionBufferFill, HasRoom
  <2>4. n \in 1..NumAxes /\ entries \in 0..CountMod-1
    BY AxesInUsePositive DEF TypeOK
  <2> HIDE DEF n
  <2>. QED BY <2>2, <2>3, <2>4, MotionBufferAssumption, SMT
<1>2. \A a \in Axes : st(a).last \in Int /\ st(a).left \in Int /\ st(a).pulses \in Int
  <2>1. \A a \in Axes : Diff(cmd, a) \in Int
    BY MotionBufferAssumption, SMT DEF Diff, TypeOK, Axes
  <2>. QED BY <2>1, StepIsInt
<1>3. /\ lastPos' \in [Axes -> Int] /\ leftover' \in [Axes -> Int]
      /\ pulsed' \in [Axes -> Int]
  <2> HIDE DEF st
  <2>1. /\ lastPos' = [a \in Axes |-> IF a <= n THEN st(a).last ELSE lastPos[a]]
        /\ leftover' = [a \in Axes |-> IF a <= n THEN st(a).left ELSE leftover[a]]
        /\ pulsed' = [a \in Axes |-> IF a <= n THEN pulsed[a] + st(a).pulses ELSE pulsed[a]]
    BY DEF MotionBufferFill, st
  <2>. QED BY <1>2, <2>1, SMT DEF TypeOK
<1>4. clamped' \in [Axes -> BOOLEAN]
  BY Zenon DEF MotionBufferFill, TypeOK
<1>5. buffer' \in [0..BufBytes-1 -> Byte]
  <2>1. buffer' = [k \in 0..BufBytes-1 |->
                     IF k \in entries*n .. entries*n+n-1
                     THEN [entry |-> made + 1, axis |-> k - entries*n + 1] ELSE buffer[k]]
    BY DEF MotionBufferFill, TypeOK
  <2>2. made \in Nat /\ entries \in Nat /\ n \in Nat /\ entries * n \in Int
    BY <1>1, MotionBufferAssumption, SMT DEF TypeOK
  <2> HIDE DEF n
  <2>. QED BY <2>1, <2>2, SMT DEF TypeOK, Byte
<1>. QED BY <1>1, <1>3, <1>4, <1>5, SMT
     DEF MotionBufferFill, TypeOK, netVars, devVars

LEMMA TypeRequest ==
    ASSUME TypeOK, MotionBufferSend \/ MotionBufferSendFails \/ TimeoutCheck \/ SetReady
    PROVE  TypeOK'
<1>1. CASE MotionBufferSend
  <2>1. NewFill \in Fill /\ NewFill.id = requests + 1
    BY MotionBufferAssumption, SMT DEF NewFill, Fill, TypeOK
  <2>. QED BY <1>1, <2>1, SMT DEF MotionBufferSend, TypeOK, hostVars, devVars, history, Fill
<1>2. CASE MotionBufferSendFails
  BY <1>2, SMT DEF MotionBufferSendFails, TypeOK, hostVars, history, Fill
<1>3. CASE TimeoutCheck
  <2>1. PICK p \in pending :
          \/ /\ pending' = (pending \ {p}) \cup {[p EXCEPT !.retries = 0]}
             /\ wire' = wire \cup {[p EXCEPT !.retries = 0]}
             /\ faults' = faults + 1
          \/ /\ pending' = pending \ {p}
             /\ UNCHANGED <<wire, faults>>
    BY <1>3, Zenon DEF TimeoutCheck
  <2>2. [p EXCEPT !.retries = 0] \in Fill /\ [p EXCEPT !.retries = 0].id <= requests
    <3>1. p \in Fill /\ p.id <= requests
      BY DEF TypeOK
    <3>. QED BY <3>1 DEF Fill
  <2>3. UNCHANGED <<hostVars, ready, pc, requests, replies, devEnabled, taken, history>>
    BY <1>3 DEF TimeoutCheck
  <2>4. faults' \in Nat
    BY <2>1, SMT DEF TypeOK
  <2>5. \A r \in pending' \cup wire' : r \in Fill /\ r.id <= requests
    BY <2>1, <2>2, Zenon DEF TypeOK
  <2>. QED BY <2>3, <2>4, <2>5 DEF TypeOK, hostVars, history
<1>4. CASE SetReady
  BY <1>4, SMT DEF SetReady, TypeOK, hostVars, netVars, devVars, history
<1>. QED BY <1>1, <1>2, <1>3, <1>4

LEMMA TypeStatus ==
    ASSUME TypeOK, Status
    PROVE  enabled' \in 0..NumAxes /\ faults' \in Nat /\ moved' \in BOOLEAN
<1>1. faults \in Nat /\ devEnabled \in 0..NumAxes /\ moved \in BOOLEAN /\ 0 \in 0..NumAxes
  BY MotionBufferAssumption, SMT DEF TypeOK
<1>2. CASE enabled' = devEnabled /\ moved' = (moved \/ devEnabled # enabled) /\ faults' = faults
  BY <1>1, <1>2
<1>3. CASE faults' = faults + 1 /\ enabled' = 0 /\ moved' = TRUE
  BY <1>1, <1>3, SMT
<1>. QED BY <1>2, <1>3 DEF Status

LEMMA TypeParsed ==
    ASSUME TypeOK, NEW r \in replies, Parsed(r)
    PROVE  /\ enabled' \in 0..NumAxes /\ moved' \in BOOLEAN
           /\ replies' \subseteq Answer /\ pending' \subseteq pending
  BY SMT DEF Parsed, TypeOK, Answer

LEMMA TypeRemove ==
    ASSUME TypeOK, NEW acc \in 0..CountMod-1, NEW n \in Nat, RemoveAccepted(acc, n)
    PROVE  /\ buffer' \in [0..BufBytes-1 -> Byte]
           /\ entries' \in 0..CountMod-1 /\ accepted' \in 0..CountMod-1
<1>1. entries' \in 0..CountMod-1 /\ accepted' \in 0..CountMod-1
  BY MotionBufferAssumption, SMT DEF RemoveAccepted, EntriesLeft, TypeOK
<1>2. Shifted(acc, n) \in [0..BufBytes-1 -> Byte]
  <2>1. BlankByte \in Byte /\ DOMAIN buffer = 0..BufBytes-1
    BY SMT DEF BlankByte, Byte, TypeOK
  <2>2. \A k \in 0..BufBytes-1 : Shifted(acc, n)[k] \in Byte
    BY <2>1, Zenon DEF Shifted, TypeOK
  <2>. QED BY <2>1, <2>2, Zenon DEF Shifted
<1>. QED BY <1>1, <1>2, Zenon DEF RemoveAccepted, TypeOK

LEMMA TypeDispatch ==
    ASSUME TypeOK, Collect \/ DispatchStatus \/ \E r \in replies : DispatchAnswer(r)
    PROVE  TypeOK'
<1>1. AxesInUse \in Nat
  BY AxesInUsePositive, MotionBufferAssumption
<1>2. CASE CollectNothing
  <2>1. RemoveAccepted(accepted, AxesInUse)
    BY <1>2 DEF CollectNothing
  <2>2. /\ buffer' \in [0..BufBytes-1 -> Byte]
        /\ entries' \in 0..CountMod-1 /\ accepted' \in 0..CountMod-1
    BY <1>1, <2>1, TypeRemove DEF TypeOK
  <2>3. enabled' \in 0..NumAxes /\ faults' \in Nat /\ moved' \in BOOLEAN
    BY <1>2, TypeStatus, SMT DEF CollectNothing, TypeOK
  <2>. QED BY <1>2, <2>2, <2>3, SMT DEF CollectNothing, SendReturns, TypeOK
<1>3. ASSUME NEW r \in replies, CollectAnswer(r) PROVE TypeOK'
  <2>1. r.accepted \in 0..CountMod-1
    BY DEF TypeOK, Answer
  <2>2. /\ buffer' \in [0..BufBytes-1 -> Byte]
        /\ entries' \in 0..CountMod-1 /\ accepted' \in 0..CountMod-1
    BY <1>1, <1>3, <2>1, TypeRemove DEF CollectAnswer
  <2>3. /\ enabled' \in 0..NumAxes /\ moved' \in BOOLEAN
        /\ replies' \subseteq Answer /\ pending' \subseteq pending
    BY <1>3, TypeParsed DEF CollectAnswer
  <2>4. missed' \in BOOLEAN
    BY <1>3, Zenon DEF CollectAnswer, TypeOK
  <2>. QED BY <1>3, <2>2, <2>3, <2>4, SMT DEF CollectAnswer, SendReturns, TypeOK
<1>4. CASE DispatchStatus
  BY <1>4, TypeStatus, SMT DEF DispatchStatus, TypeOK, netVars
<1>5. ASSUME NEW r \in replies, DispatchAnswer(r) PROVE TypeOK'
  <2>1. /\ enabled' \in 0..NumAxes /\ moved' \in BOOLEAN
        /\ replies' \subseteq Answer /\ pending' \subseteq pending
    BY <1>5, TypeParsed DEF DispatchAnswer
  <2>2. accepted' \in 0..CountMod-1
    BY <1>5 DEF DispatchAnswer, TypeOK, Answer
  <2>. QED BY <1>5, <2>1, <2>2, SMT DEF DispatchAnswer, TypeOK, devVars
<1>. QED BY <1>2, <1>3, <1>4, <1>5 DEF Collect

LEMMA TypeDevice ==
    ASSUME TypeOK, Device \/ \E n \in AxisCounts : DeviceSetup(n)
    PROVE  TypeOK'
<1>1. ASSUME NEW r \in wire, NEW acc \in 0..Fits(r), DeviceTakes(r, acc)
      PROVE  TypeOK'
  <2>1. r \in Fill
    BY DEF TypeOK
  <2>2. acc \in 0..CountMod-1
    BY <2>1, FitsInCount, MotionBufferAssumption, SMT
  <2>3. [id |-> r.id, accepted |-> acc, enabled |-> devEnabled] \in Answer
    BY <2>1, <2>2, SMT DEF TypeOK, Answer, Fill
  <2>4. replies' \subseteq Answer /\ wire' \subseteq wire
    BY <1>1, <2>3 DEF DeviceTakes, TypeOK
  <2>. QED BY <1>1, <2>4, SMT DEF DeviceTakes, TypeOK, hostVars, history
<1>2. ASSUME NEW n \in AxisCounts, DeviceSetup(n)
      PROVE  TypeOK'
  BY <1>2, MotionBufferAssumption, SMT DEF DeviceSetup, TypeOK, hostVars, netVars
<1>. QED BY <1>1, <1>2 DEF Device

(* TypeOK holds for every value of the constants.                           *)
THEOREM TypeCorrect == Spec => []TypeOK
<1>1. Init => TypeOK
  BY TypeInit
<1>2. TypeOK /\ [Next]_vars => TypeOK'
  <2> SUFFICES ASSUME TypeOK, [Next]_vars PROVE TypeOK'
    OBVIOUS
  <2>1. CASE Next
    BY <2>1, TypeFill, TypeRequest, TypeDispatch, TypeDevice DEF Next
  <2>2. CASE UNCHANGED vars
    BY <2>2, SMT DEF vars, hostVars, netVars, devVars, history, TypeOK
  <2>. QED BY <2>1, <2>2
<1>. QED BY <1>1, <1>2, PTL DEF Spec

-----------------------------------------------------------------------------
(* StepsConserved for every resolution and sequence of commands: the fill   *)
(* rounds each move down, but the fractions it cuts off come back.          *)
THEOREM NoStepLost == Spec => []StepsConserved
<1>1. Init => StepsConserved
  BY MotionBufferAssumption, SMT DEF Init, StepsConserved, Axes
<1>2. TypeOK /\ StepsConserved /\ [Next]_vars => StepsConserved'
  <2> SUFFICES ASSUME TypeOK, StepsConserved, [Next]_vars PROVE StepsConserved'
    OBVIOUS
  <2>1. ASSUME NEW cmd \in Commands, MotionBufferFill(cmd)
        PROVE  StepsConserved'
    <3> SUFFICES ASSUME NEW a \in Axes, ~clamped'[a]
                 PROVE  /\ pulsed'[a] * StepUnits + leftover'[a] = lastPos'[a]
                        /\ leftover'[a] \in 0..StepUnits-1
      BY DEF StepsConserved
    <3> DEFINE st == Step(Diff(cmd, a), a)
    <3>1. /\ clamped'[a] = (clamped[a] \/ (a <= AxesInUse /\ st.pulses # st.wanted))
          /\ pulsed'[a] = IF a <= AxesInUse THEN pulsed[a] + st.pulses ELSE pulsed[a]
          /\ leftover'[a] = IF a <= AxesInUse THEN st.left ELSE leftover[a]
          /\ lastPos'[a] = IF a <= AxesInUse THEN st.last ELSE lastPos[a]
      BY <2>1 DEF MotionBufferFill
    <3>2. /\ pulsed[a] * StepUnits + leftover[a] = lastPos[a]
          /\ leftover[a] \in 0..StepUnits-1
      BY <3>1 DEF StepsConserved
    <3>3. lastPos[a] \in Int /\ pulsed[a] \in Int /\ Diff(cmd, a) \in Int
      BY MotionBufferAssumption, SMT DEF TypeOK, Diff, Axes
    <3>4. /\ st.last \in Int /\ st.pulses \in Int /\ st.wanted \in Int
          /\ st.left \in 0..StepUnits-1
          /\ st.pulses = st.wanted =>
               st.pulses * StepUnits + st.left = leftover[a] + (st.last - lastPos[a])
      BY <3>2, <3>3, StepKeepsSum
    <3> HIDE DEF st
    <3>5. (pulsed[a] + st.pulses) * StepUnits = pulsed[a] * StepUnits + st.pulses * StepUnits
      BY <3>3, <3>4, MotionBufferAssumption, SMT
    <3>6. /\ pulsed[a] * StepUnits \in Int /\ st.pulses * StepUnits \in Int
          /\ st.left \in Int /\ leftover[a] \in Int
      BY <3>2, <3>3, <3>4, MotionBufferAssumption, SMT
    <3>7. CASE a <= AxesInUse
      <4>1. st.pulses = st.wanted
        BY <3>1, <3>7
      <4>2. pulsed[a] * StepUnits + st.pulses * StepUnits + st.left = st.last
        BY <3>2, <3>3, <3>4, <3>6, <4>1, SMT
      <4>. QED BY <3>1, <3>4, <3>5, <3>7, <4>2
    <3>8. CASE ~(a <= AxesInUse)
      BY <3>1, <3>2, <3>8
    <3>. QED BY <3>7, <3>8
  <2>2. CASE UNCHANGED <<lastPos, leftover, pulsed, clamped>>
    BY <2>2 DEF StepsConserved
  <2>3. CASE Next /\ ~\E cmd \in Commands : MotionBufferFill(cmd)
    BY <2>2, <2>3 DEF Next, MotionBufferSend, MotionBufferSendFails, Collect, CollectAnswer,
          CollectNothing, SendReturns, DispatchAnswer, DispatchStatus, TimeoutCheck,
          SetReady, Device, DeviceTakes, DeviceSetup, hostVars, history
  <2>. QED BY <2>1, <2>2, <2>3 DEF vars, hostVars, history
<1>. QED BY <1>1, <1>2, TypeCorrect, PTL DEF Spec

-----------------------------------------------------------------------------
(***************************************************************************)
(* No entry is lost, repeated or shifted.  While the calls collect their    *)
(* own answers and the axes stay as they are, at most one request is under  *)
(* way, and it carries the buffer as it is now; between its acceptance by   *)
(* the device and the memmove() that follows the answer, its first acc      *)
(* entries are both in the device and in the buffer.                        *)
(***************************************************************************)
Calm == ~missed /\ ~moved

Entry == [1..AxesInUse -> Byte]

\* The entries in the buffer are those made after the first "from" ones.
Lined(from) ==
    \A k \in 1..entries, i \in 1..AxesInUse :
        /\ buffer[(k - 1) * AxesInUse + i - 1].entry = from + k
        /\ buffer[(k - 1) * AxesInUse + i - 1].axis = i

FillNow == [id |-> requests, count |-> entries, axes |-> enabled,
            data |-> buffer, retries |-> 1]
AnswerNow(acc) == [id |-> requests, accepted |-> acc, enabled |-> devEnabled]

UnderWay(acc) ==
    /\ Len(taken) + entries = made + acc
    /\ Lined(Len(taken) - acc)
    /\ \A p \in pending : p.id = requests
    /\ \/ acc = 0 /\ replies = {} /\ wire \subseteq {FillNow}
       \/ wire = {} /\ replies = {AnswerNow(acc)}

Quiet ==
    /\ pending = {} /\ wire = {} /\ replies = {}
    /\ Len(taken) + entries = made
    /\ Lined(Len(taken))

OrderInv ==
    Calm => /\ enabled = devEnabled
            /\ entries <= MaxEntries(AxesInUse)
            /\ accepted = 0
            /\ taken \in Seq(Entry) /\ InOrder(taken, 0)
            /\ IF pc = "idle" THEN Quiet ELSE \E acc \in 0..entries : UnderWay(acc)

\* The bytes of m entries of n axes come first, and those that fit are there.
LEMMA ByteIndex ==
    ASSUME NEW n \in Nat \ {0}, NEW m \in Nat, NEW k \in 1..m, NEW i \in 1..n
    PROVE  (k - 1) * n + i - 1 \in 0..(m * n - 1)
<1> DEFINE x == k - 1
           y == m - k
<1>1. x \in Nat /\ y \in Nat /\ m = x + y + 1
  BY SMT
<1> HIDE DEF x, y
<1>2. /\ x * n \in Nat /\ y * n \in Nat
      /\ (x + y + 1) * n = (x + y) * n + 1 * n /\ (x + y) * n = x * n + y * n /\ 1 * n = n
  BY <1>1, Distributes, SMT
<1>3. m * n = x * n + y * n + n
  BY <1>1, <1>2
<1>4. x * n + i - 1 \in 0..(m * n - 1)
  BY <1>2, <1>3, SMT
<1>. QED BY <1>4 DEF x

LEMMA RoomFits ==
    ASSUME NEW n \in Nat \ {0}, NEW m \in Nat, m <= MaxEntries(n)
    PROVE  m * n \in Nat /\ m * n <= BufBytes
<1> DEFINE q == BufBytes \div n
           y == q - m
<1>1. q \in Nat /\ BufBytes = n * q + (BufBytes % n) /\ BufBytes % n \in Nat
  BY MotionBufferAssumption, SMT
<1>2. y \in Nat /\ q = m + y
  BY <1>1, SMT DEF MaxEntries
<1> HIDE DEF q, y
<1>3. /\ m * n \in Nat /\ y * n \in Nat
      /\ (m + y) * n = m * n + y * n /\ q * n = n * q
  BY <1>1, <1>2, Distributes, SMT
<1>. QED BY <1>1, <1>2, <1>3, MotionBufferAssumption, SMT

\* What holds while nothing concerns the order of the entries.
LEMMA OrderUntouched ==
    ASSUME OrderInv, Calm,
           UNCHANGED <<enabled, devEnabled, entries, accepted, taken, pc, pending, wire,
                       replies, made, buffer, requests>>
    PROVE  OrderInv'
  BY DEF OrderInv, Calm, Entry, Lined, FillNow, AnswerNow, UnderWay, Quiet, AxesInUse,
         MaxEntries, InOrder

\* The entry filled in goes behind the others and leaves them as they are.
LEMMA FillKeepsOrder ==
    ASSUME TypeOK, OrderInv, Calm, NEW cmd \in Commands, MotionBufferFill(cmd)
    PROVE  OrderInv'
<1> DEFINE n  == AxesInUse
           at == entries * n
<1>1. n \in Nat \ {0} /\ entries \in Nat /\ made \in Nat /\ at \in Nat
  <2>1. n \in Nat \ {0} /\ entries \in Nat /\ made \in Nat
    BY AxesInUsePositive, MotionBufferAssumption DEF TypeOK
  <2> HIDE DEF n
  <2>. QED BY <2>1, SMT
<1>2. /\ pc = "idle" /\ pc' = pc /\ entries' = entries + 1 /\ made' = made + 1
      /\ UNCHANGED <<accepted, enabled, devEnabled, pending, wire, replies, taken>>
      /\ entries < MaxEntries(n)
  BY DEF MotionBufferFill, netVars, devVars, HasRoom
<1>3. AxesInUse' = n /\ MaxEntries(n)' = MaxEntries(n)
  BY <1>2 DEF AxesInUse, MaxEntries
<1>4. /\ Quiet /\ accepted = 0 /\ enabled = devEnabled
      /\ taken \in Seq(Entry) /\ InOrder(taken, 0)
  BY <1>2 DEF OrderInv
<1>5. MaxEntries(n) \in Nat /\ entries + 1 <= MaxEntries(n)
  <2>1. MaxEntries(n) \in Nat
    BY <1>1, RoomIsNarrow
  <2> HIDE DEF n
  <2>. QED BY <1>1, <1>2, <2>1, SMT
<1>6. (entries + 1) * n <= BufBytes /\ (entries + 1) * n = at + n
  <2> HIDE DEF n
  <2>1. (entries + 1) * n <= BufBytes
    BY <1>1, <1>5, RoomFits
  <2>. QED BY <1>1, <2>1, Distributes, SMT
<1>7. DOMAIN buffer = 0..BufBytes-1 /\ Len(taken) \in Nat
  BY <1>4, LenProperties DEF TypeOK
<1>8. ASSUME NEW k \in 1..entries+1, NEW i \in 1..n
      PROVE  LET b == buffer'[(k - 1) * n + i - 1]
             IN  b.entry = Len(taken) + k /\ b.axis = i
  <2> DEFINE x == (k - 1) * n + i - 1
  <2>1. x \in 0..BufBytes-1
    <3> HIDE DEF n
    <3>1. x \in 0..((entries + 1) * n - 1)
      BY <1>1, ByteIndex
    <3> HIDE DEF x
    <3>. QED BY <1>1, <1>6, <3>1, MotionBufferAssumption, SMT
  <2>2. buffer'[x] = IF x \in at..at+n-1
                     THEN [entry |-> made + 1, axis |-> x - at + 1]
                     ELSE buffer[x]
    BY <1>7, <2>1 DEF MotionBufferFill
  <2>3. CASE k \in 1..entries
    <3>1. x \notin at..at+n-1
      <4> HIDE DEF n
      <4>1. x \in 0..at-1
        BY <1>1, <2>3, ByteIndex
      <4> HIDE DEF x, at
      <4>. QED BY <1>1, <4>1, SMT
    <3>2. buffer'[x] = buffer[x]
      BY <2>2, <3>1
    <3>. QED BY <1>4, <2>3, <3>2 DEF Quiet, Lined
  <2>4. CASE k = entries + 1
    <3>1. x = at + i - 1
      <4> HIDE DEF n
      <4>1. k - 1 = entries
        BY <1>1, <2>4, SMT
      <4>. QED BY <4>1
    <3>2. x \in at..at+n-1 /\ x - at + 1 = i
      <4> HIDE DEF n, at, x
      <4>. QED BY <1>1, <3>1, SMT
    <3>3. made + 1 = Len(taken) + k
      BY <1>1, <1>4, <1>7, <2>4, SMT DEF Quiet
    <3>. QED BY <2>2, <3>2, <3>3
  <2>5. k \in 1..entries \/ k = entries + 1
    BY <1>1, SMT
  <2>. QED BY <2>3, <2>4, <2>5
<1>9. Quiet'
  <2>1. Len(taken) + (entries + 1) = made + 1
    BY <1>1, <1>4, <1>7, SMT DEF Quiet
  <2> HIDE DEF n
  <2>. QED BY <1>2, <1>3, <1>4, <1>8, <2>1 DEF Quiet, Lined
<1>10. Entry' = Entry /\ InOrder(taken, 0)'
  BY <1>2, <1>3, <1>4 DEF Entry, InOrder
<1>. QED BY <1>2, <1>3, <1>4, <1>5, <1>9, <1>10 DEF OrderInv

\* The request sent is the buffer; nothing of it is accepted yet.
LEMMA SendKeepsOrder ==
    ASSUME TypeOK, OrderInv, Calm, MotionBufferSend \/ MotionBufferSendFails
    PROVE  OrderInv'
<1>1. /\ pc = "idle" /\ pc' = "sent" /\ requests' = requests + 1
      /\ UNCHANGED <<accepted, enabled, devEnabled, replies, taken, entries, buffer, made>>
      /\ pending' \subseteq pending \cup {NewFill} /\ wire' \subseteq wire \cup {NewFill}
  BY DEF MotionBufferSend, MotionBufferSendFails, hostVars, devVars, history
<1>2. /\ Quiet /\ accepted = 0 /\ enabled = devEnabled /\ entries <= MaxEntries(AxesInUse)
      /\ taken \in Seq(Entry) /\ InOrder(taken, 0)
  BY <1>1 DEF OrderInv
<1>3. AxesInUse' = AxesInUse /\ MaxEntries(AxesInUse)' = MaxEntries(AxesInUse)
      /\ Entry' = Entry /\ InOrder(taken, 0)'
  BY <1>1, <1>2 DEF AxesInUse, MaxEntries, Entry, InOrder
<1>4. FillNow' = NewFill /\ NewFill.id = requests'
  BY <1>1 DEF FillNow, NewFill
<1>5. Len(taken) \in Nat /\ 0 \in 0..entries' /\ made \in Nat
  BY <1>1, <1>2, LenProperties, MotionBufferAssumption, SMT DEF TypeOK
<1>6. Len(taken') + entries' = made' + 0 /\ Len(taken) - 0 = Len(taken)
  BY <1>1, <1>2, <1>5, SMT DEF Quiet
<1>7. Lined(Len(taken))'
  BY <1>1, <1>2, <1>3 DEF Quiet, Lined
<1>8. UnderWay(0)'
  <2>1. Lined(Len(taken) - 0)'
    BY <1>1, <1>6, <1>7
  <2>2. (\A p \in pending : p.id = requests)' /\ wire' \subseteq {FillNow'} /\ replies' = {}
    BY <1>1, <1>2, <1>4 DEF Quiet
  <2>. QED BY <1>6, <2>1, <2>2 DEF UnderWay
<1>. QED BY <1>1, <1>2, <1>3, <1>5, <1>8 DEF OrderInv

\* The entries the device takes are the first of the request, so those it has
\* followed by the rest of the buffer are all the entries there are.
LEMMA DeviceKeepsOrder ==
    ASSUME TypeOK, OrderInv, Calm, NEW r \in wire, NEW acc \in 0..Fits(r),
           DeviceTakes(r, acc)
    PROVE  OrderInv'
<1> DEFINE n == AxesInUse
           s == [k \in 1..acc |-> EntryAt(r, k)]
<1>1. /\ wire' = wire \ {r} /\ taken' = taken \o s
      /\ replies' = replies \cup {[id |-> r.id, accepted |-> acc, enabled |-> devEnabled]}
      /\ UNCHANGED <<accepted, enabled, devEnabled, entries, buffer, made, pc,
                     requests, pending, missed, moved>>
  BY DEF DeviceTakes, hostVars, history
<1>2. /\ accepted = 0 /\ enabled = devEnabled /\ entries <= MaxEntries(n)
      /\ taken \in Seq(Entry) /\ InOrder(taken, 0)
  BY DEF OrderInv
<1>3. pc # "idle"
  BY DEF OrderInv, Quiet
<1>4. PICK old \in 0..entries : UnderWay(old)
  BY <1>3 DEF OrderInv
<1>5. old = 0 /\ replies = {} /\ r = FillNow /\ wire' = {}
  BY <1>1, <1>4 DEF UnderWay
<1>6. /\ r.axes = enabled /\ r.count = entries /\ r.data = buffer /\ r.id = requests
  BY <1>5 DEF FillNow
<1>7. n \in Nat \ {0} /\ entries \in Nat /\ enabled \in Nat /\ made \in Nat
  BY AxesInUsePositive, MotionBufferAssumption DEF TypeOK
\* What the device accepts fits the buffer and what was sent.
<1>8. acc \in 0..entries /\ (acc # 0 => n = enabled)
  <2>1. CASE enabled = 0
    <3>1. Fits(r) = 0
      BY <1>6, <2>1 DEF Fits
    <3>. QED BY <1>7, <3>1, SMT
  <2>2. CASE enabled # 0
    <3>1. n = enabled /\ enabled \in Nat \ {0}
      BY <1>7, <2>2 DEF AxesInUse
    <3>2. MaxEntries(enabled) \in Nat
      BY <3>1, RoomIsNarrow
    <3>3. Fits(r) = IF entries < MaxEntries(enabled) THEN entries ELSE MaxEntries(enabled)
      BY <1>6, <2>2 DEF Fits
    <3>4. Fits(r) \in Nat /\ Fits(r) <= entries
      BY <1>7, <3>2, <3>3, SMT
    <3>5. acc \in 0..entries
      BY <1>7, <3>4, SMT
    <3>. QED BY <3>1, <3>5
  <2>. QED BY <2>1, <2>2
<1>9. acc \in Nat /\ entries * n \in Nat /\ entries * n <= BufBytes
  <2>1. acc \in Nat
    BY <1>7, <1>8, SMT
  <2> HIDE DEF n
  <2>. QED BY <1>2, <1>7, <2>1, RoomFits
<1>10. ASSUME NEW k \in 1..acc
       PROVE  /\ s[k] \in Entry /\ DOMAIN s[k] = 1..n
              /\ \A i \in 1..n : s[k][i].entry = Len(taken) + k /\ s[k][i].axis = i
  <2>1. n = enabled /\ k \in 1..entries
    BY <1>7, <1>8, SMT
  <2>2. s[k] = [i \in 1..n |-> buffer[(k - 1) * n + i - 1]]
    BY <1>6, <2>1 DEF EntryAt
  <2>3. ASSUME NEW i \in 1..n
        PROVE  /\ buffer[(k - 1) * n + i - 1] \in Byte
               /\ buffer[(k - 1) * n + i - 1].entry = Len(taken) + k
               /\ buffer[(k - 1) * n + i - 1].axis = i
    <3>1. (k - 1) * n + i - 1 \in 0..BufBytes-1
      <4> HIDE DEF n
      <4>1. (k - 1) * n + i - 1 \in 0..(entries * n - 1)
        BY <1>7, <2>1, ByteIndex
      <4>2. 0..(entries * n - 1) \subseteq 0..BufBytes-1
        BY <1>9, MotionBufferAssumption, SMT
      <4>. QED BY <4>1, <4>2
    <3>2. Len(taken) - 0 = Len(taken)
      BY <1>2, LenProperties, SMT
    <3>3. Lined(Len(taken))
      BY <1>4, <1>5, <3>2 DEF UnderWay
    <3>. QED BY <2>1, <3>1, <3>3 DEF Lined, TypeOK
  <2>. QED BY <2>2, <2>3 DEF Entry
<1>11. s \in Seq(Entry) /\ Len(s) = acc
  <2>1. \A k \in 1..acc : EntryAt(r, k) \in Entry
    BY <1>10
  <2>. QED BY <1>9, <2>1, IsASeq
<1>12. /\ taken' \in Seq(Entry) /\ Len(taken') = Len(taken) + acc /\ Len(taken) \in Nat
       /\ \A k \in 1..Len(taken) + acc :
            taken'[k] = IF k <= Len(taken) THEN taken[k] ELSE s[k - Len(taken)]
  BY <1>1, <1>2, <1>11, ConcatProperties, LenProperties
<1>13. InOrder(taken', 0)
  <2> SUFFICES ASSUME NEW k \in 1..Len(taken'), NEW i \in DOMAIN taken'[k]
               PROVE  taken'[k][i].entry = 0 + k /\ taken'[k][i].axis = i
    BY DEF InOrder
  <2>1. CASE k \in 1..Len(taken)
    <3>1. k <= Len(taken) /\ k \in 1..Len(taken) + acc
      <4> HIDE DEF n, s
      <4>. QED BY <1>9, <1>12, <2>1, SMT
    <3>2. taken'[k] = taken[k]
      BY <1>12, <3>1
    <3>. QED BY <1>2, <2>1, <3>2 DEF InOrder
  <2>2. CASE k \notin 1..Len(taken)
    <3> DEFINE j == k - Len(taken)
    <3>1. j \in 1..acc /\ taken'[k] = s[j] /\ Len(taken) + j = 0 + k
      <4> HIDE DEF s
      <4>. QED BY <1>9, <1>12, <2>2, SMT
    <3> HIDE DEF j, s
    <3>. QED BY <1>10, <3>1
  <2>. QED BY <2>1, <2>2
<1>14. /\ AxesInUse' = n /\ MaxEntries(n)' = MaxEntries(n) /\ Entry' = Entry
  BY <1>1 DEF AxesInUse, MaxEntries, Entry
<1>15. UnderWay(acc)'
  <2>1. Len(taken) + entries = made + 0
    BY <1>4, <1>5 DEF UnderWay
  <2>2. Len(taken') + entries = made + acc /\ Len(taken') - acc = Len(taken) - 0
    <3> HIDE DEF n
    <3>. QED BY <1>7, <1>9, <1>12, <2>1, SMT
  <2>3. Lined(Len(taken) - 0)
    BY <1>4, <1>5 DEF UnderWay
  <2>4. Lined(Len(taken) - acc)'
    BY <1>1, <1>14, <2>2, <2>3 DEF Lined
  <2>5. replies' = {AnswerNow(acc)'}
    BY <1>1, <1>5, <1>6 DEF AnswerNow
  <2>6. (\A p \in pending : p.id = requests)'
    BY <1>1, <1>4 DEF UnderWay
  <2>. QED BY <1>1, <1>5, <2>2, <2>4, <2>5, <2>6 DEF UnderWay
<1>16. acc \in 0..entries' /\ pc' # "idle"
  BY <1>1, <1>3, <1>8
<1>. QED BY <1>1, <1>2, <1>12, <1>13, <1>14, <1>15, <1>16 DEF OrderInv, InOrder

\* memmove() takes out exactly the entries the device has accepted.
LEMMA CollectKeepsOrder ==
    ASSUME TypeOK, OrderInv, Calm, NEW r \in replies, CollectAnswer(r), Calm'
    PROVE  OrderInv'
<1> DEFINE n == AxesInUse
<1>1. /\ pc = "sent" /\ pc' = "idle"
      /\ UNCHANGED <<requests, wire, devEnabled, taken, made>>
      /\ enabled' = r.enabled /\ replies' = replies \ {r}
      /\ pending' = {p \in pending : p.id # r.id}
      /\ RemoveAccepted(r.accepted, n)
      /\ missed' = (missed \/ r.id # requests)
  BY DEF CollectAnswer, SendReturns, Parsed
<1>2. /\ accepted = 0 /\ enabled = devEnabled /\ entries <= MaxEntries(n)
      /\ taken \in Seq(Entry) /\ InOrder(taken, 0)
  BY DEF OrderInv
<1>3. PICK acc \in 0..entries : UnderWay(acc)
  BY <1>1 DEF OrderInv
<1>4. wire = {} /\ r = AnswerNow(acc) /\ replies' = {}
  BY <1>1, <1>3 DEF UnderWay
<1>5. r.id = requests /\ r.accepted = acc /\ r.enabled = enabled
  BY <1>2, <1>4 DEF AnswerNow
<1>6. pending' = {} /\ enabled' = enabled /\ AxesInUse' = n /\ MaxEntries(n)' = MaxEntries(n)
      /\ Entry' = Entry /\ InOrder(taken, 0)'
  BY <1>1, <1>2, <1>3, <1>5 DEF UnderWay, AxesInUse, MaxEntries, Entry, InOrder
<1>7. /\ n \in Nat \ {0} /\ entries \in 0..CountMod-1 /\ made \in Nat /\ Len(taken) \in Nat
      /\ acc \in Nat /\ acc <= entries /\ entries \in Nat
  <2>1. n \in Nat \ {0} /\ entries \in 0..CountMod-1 /\ made \in Nat
    BY AxesInUsePositive, MotionBufferAssumption DEF TypeOK
  <2>2. Len(taken) \in Nat
    BY <1>2, LenProperties
  <2>3. acc \in Nat /\ acc <= entries /\ entries \in Nat
    BY <2>1, MotionBufferAssumption, SMT
  <2>. QED BY <2>1, <2>2, <2>3
<1>8. /\ entries' = entries - acc /\ entries' \in Nat /\ entries' <= entries /\ accepted' = 0
      /\ buffer' = IF acc > 0 /\ acc < entries THEN Shifted(acc, n) ELSE buffer
  <2>1. (entries - acc) % CountMod = entries - acc /\ entries - acc \in Nat
        /\ entries - acc <= entries
    <3> HIDE DEF n
    <3>. QED BY <1>7, MotionBufferAssumption, SMT
  <2>. QED BY <1>1, <1>5, <2>1 DEF RemoveAccepted, EntriesLeft
<1>9. Len(taken) + entries = made + acc /\ Lined(Len(taken) - acc)
  BY <1>3 DEF UnderWay
<1>10. /\ entries * n \in Nat /\ entries * n <= BufBytes
       /\ (entries - acc) * n = entries * n - acc * n /\ acc * n \in Nat
  <2> HIDE DEF n
  <2>1. entries * n \in Nat /\ entries * n <= BufBytes /\ acc * n \in Nat
    BY <1>2, <1>7, RoomFits, SMT
  <2>2. ((entries - acc) + acc) * n = (entries - acc) * n + acc * n
        /\ (entries - acc) * n \in Int /\ (entries - acc) + acc = entries
    BY <1>7, Distributes, SMT
  <2>. QED BY <2>1, <2>2, SMT
<1>11. ASSUME NEW k \in 1..entries', NEW i \in 1..n
       PROVE  LET b == buffer'[(k - 1) * n + i - 1]
              IN  b.entry = Len(taken) + k /\ b.axis = i
  <2> DEFINE x == (k - 1) * n + i - 1
             y == ((k + acc) - 1) * n + i - 1
  <2>1. k \in Nat /\ k >= 1 /\ k + acc \in 1..entries /\ (Len(taken) - acc) + (k + acc) = Len(taken) + k
    <3> HIDE DEF n
    <3>. QED BY <1>7, <1>8, SMT
  <2>2. buffer[y].entry = Len(taken) + k /\ buffer[y].axis = i
    BY <1>9, <2>1 DEF Lined
  <2>3. y = x + acc * n
    <3> HIDE DEF n
    <3>1. ((k - 1) + acc) * n = (k - 1) * n + acc * n /\ (k - 1) * n \in Int
          /\ (k - 1) + acc = (k + acc) - 1
      BY <1>7, <2>1, Distributes, SMT
    <3>. QED BY <1>7, <1>10, <3>1, SMT
  <2>4. buffer'[x] = buffer[y]
    <3>1. CASE acc = 0
      <4>1. x + acc * n = x
        <5> HIDE DEF n
        <5>1. x \in Int /\ 0 * n = 0
          BY <1>7, <2>1, SMT
        <5> HIDE DEF x
        <5>. QED BY <3>1, <5>1, SMT
      <4>. QED BY <1>8, <2>3, <3>1, <4>1
    <3>2. CASE acc # 0
      <4>1. acc > 0 /\ acc < entries
        <5> HIDE DEF n
        <5>. QED BY <1>7, <1>8, <2>1, <3>2, SMT
      <4>2. x \in 0..(entries - acc) * n - 1 /\ y \in 0..entries * n - 1
        <5> HIDE DEF n
        <5>. QED BY <1>7, <1>8, <2>1, ByteIndex
      <4>3. x \in 0..BufBytes-1 /\ y \in 0..BufBytes-1 /\ ~(x >= (entries - acc) * n)
        <5> HIDE DEF n, x, y
        <5>. QED BY <1>7, <1>10, <4>2, MotionBufferAssumption, SMT
      <4>4. DOMAIN buffer = 0..BufBytes-1
        BY DEF TypeOK
      <4>. QED BY <1>8, <2>3, <4>1, <4>3, <4>4 DEF Shifted
    <3>. QED BY <3>1, <3>2
  <2>. QED BY <2>2, <2>4
<1>12. Quiet'
  <2>1. Len(taken) + entries' = made
    <3> HIDE DEF n
    <3>. QED BY <1>7, <1>8, <1>9, SMT
  <2> HIDE DEF n
  <2>. QED BY <1>1, <1>4, <1>6, <1>11, <2>1 DEF Quiet, Lined
<1>13. entries' <= MaxEntries(n)
  <2>1. MaxEntries(n) \in Nat
    BY <1>7, RoomIsNarrow
  <2> HIDE DEF n
  <2>. QED BY <1>2, <1>7, <1>8, <2>1, SMT
<1>. QED BY <1>1, <1>2, <1>6, <1>8, <1>12, <1>13 DEF OrderInv

LEMMA OrderInductive == TypeOK /\ OrderInv /\ [Next]_vars => OrderInv'
<1> SUFFICES ASSUME TypeOK, OrderInv, [Next]_vars, Calm' PROVE OrderInv'
  BY DEF OrderInv
<1>1. Calm
  <2>1. CASE UNCHANGED <<missed, moved>>
    BY <2>1, Zenon DEF Calm
  <2>2. CASE Collect
    <3>1. CASE CollectNothing
      BY <3>1 DEF Calm, CollectNothing
    <3>2. ASSUME NEW r \in replies, CollectAnswer(r) PROVE Calm
      <4>1. ~missed
        BY <3>2, Zenon DEF Calm, CollectAnswer
      <4>2. ~moved
        BY <3>2, Zenon DEF Calm, CollectAnswer, Parsed
      <4>. QED BY <4>1, <4>2 DEF Calm
    <3>. QED BY <2>2, <3>1, <3>2 DEF Collect
  <2>3. CASE \E r \in replies : DispatchAnswer(r)
    <3>1. ~missed
      BY <2>3 DEF Calm, DispatchAnswer
    <3>2. ~moved
      BY <2>3, Zenon DEF Calm, DispatchAnswer, Parsed
    <3>. QED BY <3>1, <3>2 DEF Calm
  <2>4. CASE DispatchStatus
    BY <2>4, Zenon DEF Calm, DispatchStatus, Status
  <2>5. CASE \E m \in AxisCounts : DeviceSetup(m)
    BY <2>5, Zenon DEF Calm, DeviceSetup
  <2>. QED BY <2>1, <2>2, <2>3, <2>4, <2>5
       DEF Next, vars, history, MotionBufferFill, MotionBufferSend, MotionBufferSendFails,
           TimeoutCheck, SetReady, Device, DeviceTakes
<1>2. pc = "idle" => pending = {} /\ replies = {}
  BY <1>1 DEF OrderInv, Quiet
<1>3. CASE \E cmd \in Commands : MotionBufferFill(cmd)
  BY <1>1, <1>3, FillKeepsOrder
<1>4. CASE MotionBufferSend \/ MotionBufferSendFails
  BY <1>1, <1>4, SendKeepsOrder
<1>5. CASE Collect
  BY <1>1, <1>5, CollectKeepsOrder DEF Collect, CollectNothing, Calm
<1>6. CASE \E r \in replies : DispatchAnswer(r)
  BY <1>2, <1>6 DEF DispatchAnswer
<1>7. CASE DispatchStatus
  <2>1. enabled' = devEnabled /\ enabled = devEnabled
    BY <1>1, <1>7, Zenon DEF DispatchStatus, Status, Calm, OrderInv
  <2>. QED BY <1>1, <1>7, <2>1, OrderUntouched DEF DispatchStatus, netVars
<1>8. CASE TimeoutCheck
  BY <1>2, <1>8 DEF TimeoutCheck
<1>9. CASE SetReady
  BY <1>1, <1>9, OrderUntouched DEF SetReady, hostVars, netVars, devVars, history
<1>10. CASE Device
  BY <1>1, <1>10, DeviceKeepsOrder DEF Device
<1>11. CASE \E m \in AxisCounts : DeviceSetup(m)
  BY <1>11 DEF DeviceSetup, Calm
<1>12. CASE UNCHANGED vars
  BY <1>1, <1>12, OrderUntouched DEF vars, hostVars, netVars, devVars, history
<1>. QED BY <1>3, <1>4, <1>5, <1>6, <1>7, <1>8, <1>9, <1>10, <1>11, <1>12 DEF Next

LEMMA OrderInvariant == Spec => []OrderInv
<1>1. Init => OrderInv
  <2> SUFFICES ASSUME Init PROVE OrderInv
    OBVIOUS
  <2>1. TypeOK
    BY TypeInit
  <2>2. taken = <<>> /\ Len(taken) = 0 /\ taken \in Seq(Entry)
    BY EmptySeq DEF Init
  <2>3. /\ pc = "idle" /\ entries = 0 /\ made = 0 /\ accepted = 0 /\ enabled = devEnabled
        /\ pending = {} /\ wire = {} /\ replies = {}
    BY DEF Init
  <2>4. InOrder(taken, 0) /\ Lined(Len(taken))
    BY <2>2, <2>3, SMT DEF InOrder, Lined
  <2>5. 0 <= MaxEntries(AxesInUse)
    <3>1. AxesInUse \in Nat \ {0}
      BY <2>1, AxesInUsePositive, MotionBufferAssumption
    <3>. QED BY <3>1, RoomIsNarrow, SMT
  <2>. QED BY <2>2, <2>3, <2>4, <2>5, SMT DEF OrderInv, Quiet
<1>. QED BY <1>1, TypeCorrect, OrderInductive, PTL DEF Spec

\* The entries the device has followed by those in the buffer are all the
\* entries made, each once, in order and for the right axis, for every size of
\* the buffer, number of axes and way of accepting a request in part.
THEOREM NoEntryLostOrRepeated == Spec => []EachEntryOnce
<1>1. TypeOK /\ OrderInv => EachEntryOnce
  <2> SUFFICES ASSUME TypeOK, OrderInv, pc = "idle", Calm
               PROVE  /\ Len(taken) + entries = made /\ InOrder(taken, 0)
                      /\ InOrder([k \in 1..entries |-> BufferedEntry(k)], Len(taken))
    BY DEF EachEntryOnce, Calm
  <2>1. Quiet /\ InOrder(taken, 0)
    BY DEF OrderInv
  <2> DEFINE log == [k \in 1..entries |-> BufferedEntry(k)]
  <2>2. ASSUME NEW k \in 1..Len(log), NEW i \in DOMAIN log[k], k \in 1..entries
        PROVE  log[k][i].entry = Len(taken) + k /\ log[k][i].axis = i
    <3>1. i \in 1..AxesInUse /\ log[k][i] = buffer[(k - 1) * AxesInUse + i - 1]
      BY <2>2 DEF BufferedEntry
    <3>. QED BY <2>1, <2>2, <3>1 DEF Quiet, Lined
  <2>3. Len(log) = entries
    <3>1. entries \in Nat
      BY MotionBufferAssumption, SMT DEF TypeOK
    <3>. QED BY <3>1
  <2> HIDE DEF log
  <2>4. InOrder(log, Len(taken))
    BY <2>2, <2>3 DEF InOrder
  <2>. QED BY <2>1, <2>4 DEF Quiet, log
<1>. QED BY <1>1, TypeCorrect, OrderInvariant, PTL

\* The count of entries leaves the range of the buffer only after some call has
\* missed its own answer, or after the number of axes has changed.
THEOREM CountStaysInRoom == Spec => []CountStaysInRange
<1>1. OrderInv => CountStaysInRange
  BY DEF OrderInv, Calm, CountStaysInRange
<1>. QED BY <1>1, OrderInvariant, PTL
=============================================================================
