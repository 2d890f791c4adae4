----------------------- MODULE PoKeysLibAsync_proof -------------------------
(***************************************************************************)
(* Theorems about the mailbox of PoKeysLibAsync, for any number of slots,  *)
(* any width of the request ids, any timeouts and any number of requests.  *)
(***************************************************************************)
EXTENDS MailboxOutcomes, TLAPS

USE AsyncAssumption

LEMMA NextRequestIdType ==
    \A id \in 0..(IdMod-1) : NextRequestId(id) \in 0..(IdMod-1)
BY DEF NextRequestId

LEMMA ClearedType == Cleared \in Transaction
BY DEF Cleared, Transaction, Statuses, Expired, LifeCap

LEMMA NewTransactionType ==
    ASSUME NEW id \in 0..(IdMod-1), NEW c \in Commands, NEW s \in Nat
    PROVE  NewTransaction(id, c, s) \in Transaction
<1>1. ASSUME NEW t \in Transaction
      PROVE  [t EXCEPT !.id = id, !.cmd = c, !.retries = 1, !.serial = s] \in Transaction
  BY DEF Transaction
<1> QED
  BY <1>1, ClearedType DEF NewTransaction

LEMMA AfterRetryType ==
    ASSUME NEW t \in Transaction, t.retries > 0
    PROVE  AfterRetry(t) \in Transaction
<1>1. t.retries = 1 /\ 0 \in 0..Expired
  BY DEF Transaction, Expired
<1>2. AfterRetry(t) = [t EXCEPT !.age = 0, !.retries = 0]
  BY <1>1 DEF AfterRetry
<1> QED
  BY <1>1, <1>2 DEF Transaction

LEMMA AgedType ==
    ASSUME NEW t \in Transaction
    PROVE  Aged(t) \in Transaction
<1> DEFINE a == IF t.age < Expired THEN t.age + 1 ELSE t.age
           l == IF t.life < LifeCap /\ t.serial # 0 THEN t.life + 1 ELSE t.life
<1>1. a \in 0..Expired
  BY DEF Transaction, Expired
<1>2. l \in 0..LifeCap
  BY DEF Transaction, Expired, LifeCap
<1>3. Aged(t) = [t EXCEPT !.age = a, !.life = l]
  BY DEF Aged
<1> QED
  BY <1>1, <1>2, <1>3 DEF Transaction

LEMMA CountedType ==
    ASSUME sends \in [1..MaxRequests -> 0..SendsCap], NEW t
    PROVE  Counted(t) \in [1..MaxRequests -> 0..SendsCap]
BY DEF Counted, SendsCap

\* Every action keeps every variable within its type.
LEMMA TypeInductive == TypeOK /\ [Next]_vars => TypeOK'
<1> SUFFICES ASSUME TypeOK, [Next]_vars PROVE TypeOK'
  OBVIOUS
<1>1. ASSUME NEW c \in Commands, NEW sent \in BOOLEAN,
             CreateAndSendRequestAsync(c, sent)
      PROVE  TypeOK'
  <2>1. PICK i \in Slots, j \in Slots :
          LET id  == NextRequestId(currentId)
              tbl == [trans EXCEPT ![i] = NewTransaction(id, c, created + 1)]
          IN  /\ currentId' = id
              /\ created' = created + 1
              /\ IF handle /\ sent
                 THEN /\ wire' = wire \cup {PacketOf(tbl[j])}
                      /\ trans' = [tbl EXCEPT ![j].age = 0]
                      /\ sends' = Counted(tbl[j])
                 ELSE trans' = tbl /\ UNCHANGED <<wire, sends>>
    BY <1>1, Zenon DEF CreateAndSendRequestAsync
  <2> DEFINE id  == NextRequestId(currentId)
             tbl == [trans EXCEPT ![i] = NewTransaction(id, c, created + 1)]
  <2>2. id \in 0..(IdMod-1)
    BY NextRequestIdType DEF TypeOK
  <2>3. NewTransaction(id, c, created + 1) \in Transaction
    BY <2>2, NewTransactionType DEF TypeOK
  <2>4. tbl \in [Slots -> Transaction]
    BY <2>3 DEF TypeOK
  <2>5. [tbl EXCEPT ![j].age = 0] \in [Slots -> Transaction]
    BY <2>4 DEF Transaction, Expired
  <2>6. PacketOf(tbl[j]) \in Packet
    BY <2>4 DEF PacketOf, Packet, Transaction
  <2>7. Counted(tbl[j]) \in [1..MaxRequests -> 0..SendsCap]
    BY CountedType DEF TypeOK
  <2>8. trans' \in [Slots -> Transaction] /\ wire' \subseteq Packet
        /\ sends' \in [1..MaxRequests -> 0..SendsCap]
    BY <2>1, <2>4, <2>5, <2>6, <2>7 DEF TypeOK
  <2> QED
    BY <1>1, <2>1, <2>2, <2>8 DEF CreateAndSendRequestAsync, TypeOK
<1>2. ASSUME CreateRequestTooBig PROVE TypeOK'
  BY <1>2, NextRequestIdType, ClearedType DEF CreateRequestTooBig, TypeOK
<1>3. ASSUME NEW p \in replies, ReceiveDiscard(p) PROVE TypeOK'
  BY <1>3 DEF ReceiveDiscard, Discarded, hostVars, TypeOK
<1>4. ASSUME NEW p \in replies, ReceiveDispatch(p) PROVE TypeOK'
  <2>1. replies' \subseteq Packet
    BY <1>4 DEF ReceiveDispatch, TypeOK
  <2>2. PICK i \in Slots :
          /\ trans' = [trans EXCEPT ![i].status = "COMPLETED"]
          /\ disp' = [owner |-> trans[i].serial, answer |-> p.serial]
    BY <1>4 DEF ReceiveDispatch, Dispatched
  <2>3. trans' \in [Slots -> Transaction]
    BY <2>2 DEF TypeOK, Transaction, Statuses
  <2>4. disp' \in [owner : Nat, answer : Nat]
    BY <2>2 DEF TypeOK, Transaction, Packet
  <2> QED
    BY <1>4, <2>1, <2>3, <2>4 DEF ReceiveDispatch, Dispatched, TypeOK
<1>5. ASSUME TimeoutCheckNoHandle PROVE TypeOK'
  <2>1. trans \in [Slots -> Transaction]
    BY DEF TypeOK
  <2>2. ASSUME NEW i \in Slots PROVE AfterFailedRetry(trans[i]) \in Transaction
    BY <2>1 DEF AfterFailedRetry, Transaction, Statuses
  <2>3. trans' \in [Slots -> Transaction]
    BY <1>5, <2>1, <2>2 DEF TimeoutCheckNoHandle
  <2> QED
    BY <1>5, <2>3 DEF TimeoutCheckNoHandle, TypeOK
<1>6. ASSUME TimeoutCheckBackoff PROVE TypeOK'
  BY <1>6 DEF TimeoutCheckBackoff, hostVars, TypeOK
<1>7. ASSUME TimeoutCheckStart PROVE TypeOK'
  BY <1>7 DEF TimeoutCheckStart, TypeOK
<1>8. ASSUME TimeoutSlotSkip PROVE TypeOK'
  BY <1>8 DEF TimeoutSlotSkip, Advance, hostVars, TypeOK
<1>9. ASSUME TimeoutSlotRetry PROVE TypeOK'
  <2>1. scan \in Slots /\ scan' \in 0..MAX_TRANSACTIONS
    BY <1>9 DEF TimeoutSlotRetry, Advance, Slots, TypeOK
  <2>2. trans' \in [Slots -> Transaction]
    BY <1>9, <2>1, AfterRetryType DEF TimeoutSlotRetry, TypeOK
  <2>3. PacketOf(trans[scan]) \in Packet
    BY <2>1 DEF TypeOK, Transaction, Packet, PacketOf
  <2>4. sends' \in [1..MaxRequests -> 0..SendsCap]
    BY <1>9, CountedType DEF TimeoutSlotRetry, TypeOK
  <2> QED
    BY <1>9, <2>1, <2>2, <2>3, <2>4 DEF TimeoutSlotRetry, TypeOK
<1>10. ASSUME TimeoutSlotRetryFails PROVE TypeOK'
  <2>1. scan \in Slots /\ scan' \in 0..MAX_TRANSACTIONS
    BY <1>10 DEF TimeoutSlotRetryFails, Advance, Slots, TypeOK
  <2>2. trans' \in [Slots -> Transaction]
    BY <1>10, <2>1 DEF TimeoutSlotRetryFails, AfterFailedRetry, TypeOK, Transaction,
                       Statuses
  <2> QED
    BY <1>10, <2>1, <2>2 DEF TimeoutSlotRetryFails, TypeOK
<1>11. ASSUME TimeoutSlotGiveUp PROVE TypeOK'
  <2>1. scan \in Slots /\ scan' \in 0..MAX_TRANSACTIONS
    BY <1>11 DEF TimeoutSlotGiveUp, Advance, Slots, TypeOK
  <2>2. trans' \in [Slots -> Transaction]
    BY <1>11, <2>1 DEF TimeoutSlotGiveUp, TypeOK, Transaction, Statuses
  <2> QED
    BY <1>11, <2>1, <2>2 DEF TimeoutSlotGiveUp, TypeOK
<1>12. ASSUME Network PROVE TypeOK'
  BY <1>12 DEF Network, DeviceAnswers, LoseRequest, LoseReply, hostVars, TypeOK
<1>13. ASSUME Tick PROVE TypeOK'
  <2>1. trans' \in [Slots -> Transaction]
    BY <1>13, AgedType DEF Tick, ClockMoves, TypeOK
  <2>2. disp' \in [owner : Nat, answer : Nat]
    BY <1>13 DEF Tick, ClockMoves, NoDispatch, Statuses
  <2>3. errAge' \in 0..ERROR_BACKOFF_TIME
    BY <1>13 DEF Tick, ClockMoves, TypeOK
  <2>4. polled' \in BOOLEAN
    BY <1>13 DEF Tick, ClockMoves
  <2> QED
    BY <1>13, <2>1, <2>2, <2>3, <2>4 DEF Tick, ClockMoves, TypeOK
<1>14. CASE UNCHANGED vars
  BY <1>14 DEF vars, TypeOK
<1> QED
  BY <1>1, <1>2, <1>3, <1>4, <1>5, <1>6, <1>7, <1>8, <1>9, <1>10, <1>11, <1>12,
     <1>13, <1>14 DEF Next, Create, TimeoutCheck, TimeoutSlot

\* The mailbox starts with every variable within its type.
LEMMA InitTypes == Init => TypeOK
<1> SUFFICES ASSUME Init PROVE TypeOK
  OBVIOUS
<1>1. trans \in [Slots -> Transaction]
  BY ClearedType DEF Init
<1>2. replies \subseteq Packet
  BY DEF Init, Packet
<1>3. sends \in [1..MaxRequests -> 0..SendsCap]
  BY DEF Init, SendsCap
<1>4. disp \in [owner : Nat, answer : Nat]
  BY DEF Init, NoDispatch, Statuses
<1>5. errAge \in 0..ERROR_BACKOFF_TIME /\ currentId \in 0..(IdMod-1)
      /\ scan \in 0..MAX_TRANSACTIONS
  BY DEF Init
<1>6. polled \in BOOLEAN
  BY DEF Init
<1> QED
  BY <1>1, <1>2, <1>3, <1>4, <1>5, <1>6 DEF Init, TypeOK

\* Every variable of the mailbox stays within its type.
THEOREM TypeCorrect == Spec => []TypeOK
  BY InitTypes, TypeInductive, PTL DEF Spec

-----------------------------------------------------------------------------
(* Request ids.  The ids of consecutive requests run through 1..IdMod-1 in *)
(* circles, so that the serial of a request and its id agree modulo        *)
(* IdMod - 1; the invariant says so of every slot and every datagram.      *)

CarriesId(id, s) == id # 0 /\ \E q \in Nat : s = q * (IdMod - 1) + id

IdInv ==
    /\ (created = 0 /\ currentId = 0) \/ CarriesId(currentId, created)
    /\ \A i \in Slots : trans[i].serial # 0 => CarriesId(trans[i].id, trans[i].serial)
    /\ \A p \in wire \cup replies : p.serial # 0 => CarriesId(p.id, p.serial)
    /\ MisdeliveryNeedsWrap

LEMMA MultipleIsLarger ==
    ASSUME NEW m \in Nat, NEW a \in Nat, NEW b \in Nat, a > b
    PROVE  a * m >= b * m + m
<1>1. PICK d \in Nat : a = b + 1 + d
  <2>1. a - b - 1 \in Nat /\ a = b + 1 + (a - b - 1)
    OBVIOUS
  <2> QED
    BY <2>1
<1>2. (b + 1 + d) * m = b * m + m + d * m
  OBVIOUS
<1>3. d * m >= 0
  OBVIOUS
<1> QED
  BY <1>1, <1>2, <1>3

\* Different requests with the same id are a cycle of ids apart.
LEMMA SameIdApart ==
    ASSUME NEW id \in 0..(IdMod-1), NEW s \in Nat, NEW t \in Nat, s # t,
           CarriesId(id, s), CarriesId(id, t)
    PROVE  CycleApart(s, t)
<1> DEFINE m == IdMod - 1
<1>1. m \in Nat
  OBVIOUS
<1>2. PICK a \in Nat : s = a * m + id
  BY DEF CarriesId
<1>3. PICK b \in Nat : t = b * m + id
  BY DEF CarriesId
<1>4. a * m \in Int /\ b * m \in Int
  BY <1>1
<1>5. CASE a > b
  <2>1. a * m >= b * m + m
    BY <1>1, <1>5, MultipleIsLarger
  <2> QED
    BY <1>2, <1>3, <1>4, <2>1 DEF CycleApart
<1>6. CASE b > a
  <2>1. b * m >= a * m + m
    BY <1>1, <1>6, MultipleIsLarger
  <2> QED
    BY <1>2, <1>3, <1>4, <2>1 DEF CycleApart
<1>7. CASE a = b
  BY <1>2, <1>3, <1>7
<1> QED
  BY <1>5, <1>6, <1>7

\* next_request_id() keeps id and serial in step.
LEMMA NextCarriesId ==
    ASSUME NEW id \in 0..(IdMod-1), NEW s \in Nat,
           (s = 0 /\ id = 0) \/ CarriesId(id, s)
    PROVE  CarriesId(NextRequestId(id), s + 1)
<1> DEFINE m == IdMod - 1
<1>1. m \in Nat \ {0}
  OBVIOUS
<1>2. PICK q \in Nat : s = q * m + id
  <2>1. CASE s = 0 /\ id = 0
    <3>1. s = 0 * m + id
      BY <1>1, <2>1
    <3> QED
      BY <3>1
  <2>2. CASE CarriesId(id, s)
    BY <2>2 DEF CarriesId
  <2> QED
    BY <2>1, <2>2
<1>3. CASE id = m
  <2>1. NextRequestId(id) = 1
    BY <1>3 DEF NextRequestId
  <2>2. s + 1 = (q + 1) * m + 1
    BY <1>1, <1>2, <1>3
  <2>3. q + 1 \in Nat
    OBVIOUS
  <2>4. \E k \in Nat : s + 1 = k * (IdMod - 1) + 1
    BY <2>2, <2>3, Zenon
  <2>5. 1 # 0
    OBVIOUS
  <2>6. CarriesId(1, s + 1)
    BY <2>4, <2>5, Zenon DEF CarriesId
  <2> QED
    BY <2>1, <2>6, Zenon
<1>4. CASE id < m
  <2>1. NextRequestId(id) = id + 1
    BY <1>4 DEF NextRequestId
  <2>2. q * m \in Int
    BY <1>1
  <2>3. s + 1 = q * m + (id + 1)
    BY <1>2, <2>2
  <2>4. \E k \in Nat : s + 1 = k * (IdMod - 1) + (id + 1)
    BY <2>3, Zenon
  <2>5. id + 1 # 0
    OBVIOUS
  <2>6. CarriesId(id + 1, s + 1)
    BY <2>4, <2>5, Zenon DEF CarriesId
  <2> QED
    BY <2>1, <2>6, Zenon
<1> QED
  BY <1>3, <1>4

\* A step that changes no id and no serial keeps the invariant.
SameIds ==
    /\ UNCHANGED <<created, currentId>>
    /\ \A i \in Slots : trans'[i].id = trans[i].id /\ trans'[i].serial = trans[i].serial
    /\ wire' \cup replies' \subseteq wire \cup replies

LEMMA SameIdsKeep ==
    ASSUME IdInv, SameIds, MisdeliveryNeedsWrap'
    PROVE  IdInv'
BY DEF IdInv, SameIds

LEMMA MisdeliveryKept ==
    ASSUME MisdeliveryNeedsWrap, UNCHANGED disp
    PROVE  MisdeliveryNeedsWrap'
BY DEF MisdeliveryNeedsWrap

LEMMA IdInvInductive == TypeOK /\ IdInv /\ [Next]_vars => IdInv'
<1> SUFFICES ASSUME TypeOK, IdInv, [Next]_vars PROVE IdInv'
  OBVIOUS
<1> DEFINE newId == NextRequestId(currentId)
<1>0. CarriesId(newId, created + 1) /\ newId \in 0..(IdMod-1)
  BY NextCarriesId, NextRequestIdType DEF IdInv, TypeOK
<1>1. ASSUME NEW c \in Commands, NEW sent \in BOOLEAN,
             CreateAndSendRequestAsync(c, sent)
      PROVE  IdInv'
  <2>1. PICK i \in Slots, j \in Slots :
          LET tbl == [trans EXCEPT ![i] = NewTransaction(newId, c, created + 1)]
          IN  /\ currentId' = newId
              /\ created' = created + 1
              /\ IF handle /\ sent
                 THEN /\ wire' = wire \cup {PacketOf(tbl[j])}
                      /\ trans' = [tbl EXCEPT ![j].age = 0]
                 ELSE trans' = tbl /\ UNCHANGED wire
    BY <1>1, Zenon DEF CreateAndSendRequestAsync
  <2> DEFINE tbl == [trans EXCEPT ![i] = NewTransaction(newId, c, created + 1)]
  <2>2. tbl \in [Slots -> Transaction]
    BY <1>0, NewTransactionType DEF TypeOK
  <2>3. \A k \in Slots : tbl[k].serial # 0 => CarriesId(tbl[k].id, tbl[k].serial)
    <3>1. tbl[i].serial = created + 1 /\ tbl[i].id = newId
      BY DEF TypeOK, NewTransaction, Cleared
    <3> QED
      BY <1>0, <3>1 DEF IdInv, TypeOK
  <2>4. \A k \in Slots : trans'[k].serial # 0 => CarriesId(trans'[k].id, trans'[k].serial)
    <3>1. \A k \in Slots : trans'[k].serial = tbl[k].serial /\ trans'[k].id = tbl[k].id
      BY <2>1, <2>2 DEF Transaction
    <3> QED
      BY <2>3, <3>1
  <2>5. \A p \in wire' : p.serial # 0 => CarriesId(p.id, p.serial)
    <3>1. PacketOf(tbl[j]).serial = tbl[j].serial /\ PacketOf(tbl[j]).id = tbl[j].id
      BY DEF PacketOf
    <3> QED
      BY <2>1, <2>3, <3>1 DEF IdInv
  <2>6. UNCHANGED <<replies, disp>>
    BY <1>1 DEF CreateAndSendRequestAsync
  <2>7. MisdeliveryNeedsWrap'
    BY <2>6, MisdeliveryKept DEF IdInv
  <2> QED
    BY <1>0, <2>1, <2>4, <2>5, <2>6, <2>7 DEF IdInv
<1>2. ASSUME CreateRequestTooBig PROVE IdInv'
  <2>1. PICK i \in Slots : trans' = [trans EXCEPT ![i] = Cleared]
    BY <1>2 DEF CreateRequestTooBig
  <2>2. \A k \in Slots : trans'[k].serial # 0 => trans'[k] = trans[k]
    BY <2>1 DEF Cleared, TypeOK
  <2>3. MisdeliveryNeedsWrap'
    BY <1>2, MisdeliveryKept DEF CreateRequestTooBig, IdInv
  <2> QED
    BY <1>0, <1>2, <2>2, <2>3 DEF CreateRequestTooBig, IdInv
<1>3. ASSUME NEW p \in replies, ReceiveDiscard(p) PROVE IdInv'
  <2>1. MisdeliveryNeedsWrap'
    BY <1>3, MisdeliveryKept DEF ReceiveDiscard, Discarded, hostVars, IdInv
  <2>2. SameIds
    BY <1>3 DEF ReceiveDiscard, Discarded, hostVars, SameIds
  <2> QED
    BY <2>1, <2>2, SameIdsKeep
<1>4. ASSUME NEW p \in replies, ReceiveDispatch(p) PROVE IdInv'
  <2>1. PICK i \in Slots :
          /\ trans[i].id = p.id
          /\ trans' = [trans EXCEPT ![i].status = "COMPLETED"]
          /\ disp' = [owner |-> trans[i].serial, answer |-> p.serial]
    BY <1>4 DEF ReceiveDispatch, Dispatched, Finds
  <2>2. MisdeliveryNeedsWrap'
    <3> SUFFICES ASSUME trans[i].serial # 0, p.serial # 0, trans[i].serial # p.serial
                 PROVE  CycleApart(trans[i].serial, p.serial)
      BY <2>1 DEF MisdeliveryNeedsWrap
    <3>1. CarriesId(p.id, trans[i].serial) /\ CarriesId(p.id, p.serial)
      BY <2>1 DEF IdInv
    <3>2. p.id \in 0..(IdMod-1) /\ trans[i].serial \in Nat /\ p.serial \in Nat
      BY DEF TypeOK, Transaction, Packet
    <3> QED
      BY <3>1, <3>2, SameIdApart
  <2>3. SameIds
    <3>1. \A k \in Slots : trans'[k].id = trans[k].id /\ trans'[k].serial = trans[k].serial
      BY <2>1 DEF TypeOK, Transaction
    <3> QED
      BY <1>4, <3>1 DEF ReceiveDispatch, Dispatched, SameIds
  <2> QED
    BY <2>2, <2>3, SameIdsKeep
<1>5. ASSUME TimeoutCheckNoHandle PROVE IdInv'
  <2>1. SameIds
    BY <1>5 DEF TimeoutCheckNoHandle, AfterFailedRetry, TypeOK, Transaction, SameIds
  <2> QED
    BY <1>5, <2>1, SameIdsKeep, MisdeliveryKept DEF TimeoutCheckNoHandle, IdInv
<1>6. ASSUME TimeoutCheckBackoff PROVE IdInv'
  <2>1. SameIds
    BY <1>6 DEF TimeoutCheckBackoff, hostVars, SameIds
  <2> QED
    BY <1>6, <2>1, SameIdsKeep, MisdeliveryKept DEF TimeoutCheckBackoff, hostVars, IdInv
<1>7. ASSUME TimeoutCheckStart PROVE IdInv'
  <2>1. SameIds
    BY <1>7 DEF TimeoutCheckStart, SameIds
  <2> QED
    BY <1>7, <2>1, SameIdsKeep, MisdeliveryKept DEF TimeoutCheckStart, IdInv
<1>8. ASSUME TimeoutSlotSkip PROVE IdInv'
  <2>1. SameIds
    BY <1>8 DEF TimeoutSlotSkip, hostVars, SameIds
  <2> QED
    BY <1>8, <2>1, SameIdsKeep, MisdeliveryKept DEF TimeoutSlotSkip, hostVars, IdInv
<1>9. ASSUME TimeoutSlotRetry PROVE IdInv'
  <2>1. scan \in Slots
    BY <1>9 DEF TimeoutSlotRetry, Slots, TypeOK
  <2>2. \A k \in Slots : trans'[k].id = trans[k].id /\ trans'[k].serial = trans[k].serial
    BY <1>9, <2>1 DEF TimeoutSlotRetry, AfterRetry, TypeOK, Transaction
  <2>3. PacketOf(trans[scan]).serial = trans[scan].serial
        /\ PacketOf(trans[scan]).id = trans[scan].id
    BY DEF PacketOf
  <2>4. \A p \in wire' : p.serial # 0 => CarriesId(p.id, p.serial)
    BY <1>9, <2>1, <2>3 DEF TimeoutSlotRetry, IdInv
  <2>5. MisdeliveryNeedsWrap'
    BY <1>9, MisdeliveryKept DEF TimeoutSlotRetry, IdInv
  <2> QED
    BY <1>9, <2>2, <2>4, <2>5 DEF TimeoutSlotRetry, IdInv
<1>10. ASSUME TimeoutSlotRetryFails PROVE IdInv'
  <2>1. scan \in Slots
    BY <1>10 DEF TimeoutSlotRetryFails, Slots, TypeOK
  <2>2. SameIds
    BY <1>10, <2>1 DEF TimeoutSlotRetryFails, AfterFailedRetry, TypeOK, Transaction, SameIds
  <2> QED
    BY <1>10, <2>2, SameIdsKeep, MisdeliveryKept DEF TimeoutSlotRetryFails, IdInv
<1>11. ASSUME TimeoutSlotGiveUp PROVE IdInv'
  <2>1. scan \in Slots
    BY <1>11 DEF TimeoutSlotGiveUp, Slots, TypeOK
  <2>2. SameIds
    BY <1>11, <2>1 DEF TimeoutSlotGiveUp, TypeOK, Transaction, SameIds
  <2> QED
    BY <1>11, <2>2, SameIdsKeep, MisdeliveryKept DEF TimeoutSlotGiveUp, IdInv
<1>12. ASSUME Network PROVE IdInv'
  <2>1. SameIds
    BY <1>12 DEF Network, DeviceAnswers, LoseRequest, LoseReply, hostVars, SameIds
  <2>2. UNCHANGED disp
    BY <1>12 DEF Network, DeviceAnswers, LoseRequest, LoseReply, hostVars
  <2> QED
    BY <2>1, <2>2, SameIdsKeep, MisdeliveryKept DEF IdInv
<1>13. ASSUME Tick PROVE IdInv'
  <2>1. \A k \in Slots : trans'[k].id = trans[k].id /\ trans'[k].serial = trans[k].serial
    BY <1>13 DEF Tick, ClockMoves, Aged, TypeOK, Transaction
  <2>2. SameIds
    BY <1>13, <2>1 DEF Tick, ClockMoves, SameIds
  <2>3. MisdeliveryNeedsWrap'
    BY <1>13 DEF Tick, ClockMoves, NoDispatch, MisdeliveryNeedsWrap
  <2> QED
    BY <2>2, <2>3, SameIdsKeep
<1>14. CASE UNCHANGED vars
  <2>1. SameIds /\ UNCHANGED disp
    BY <1>14 DEF vars, SameIds
  <2> QED
    BY <2>1, SameIdsKeep, MisdeliveryKept DEF IdInv
<1> QED
  BY <1>1, <1>2, <1>3, <1>4, <1>5, <1>6, <1>7, <1>8, <1>9, <1>10, <1>11, <1>12,
     <1>13, <1>14 DEF Next, Create, TimeoutCheck, TimeoutSlot

LEMMA IdInvInvariant == Spec => []IdInv
<1>1. Init => IdInv
  BY DEF Init, IdInv, Cleared, NoDispatch, MisdeliveryNeedsWrap
<1> QED
  BY <1>1, TypeCorrect, IdInvInductive, PTL DEF Spec

\* However many answers are lost, late, repeated or out of order, an answer
\* is never handed to the parser of another request unless their request
\* ids have come round in between.
THEOREM MisdeliveryOnlyByWrap == Spec => []MisdeliveryNeedsWrap
<1>1. IdInv => MisdeliveryNeedsWrap
  BY DEF IdInv
<1> QED
  BY <1>1, IdInvInvariant, PTL

\* Two slots share a request id only a whole cycle of ids apart, so that
\* transaction_find() is unambiguous until a slot is as old as that.
THEOREM SharedIdOnlyByWrap == Spec => []SharedIdNeedsWrap
<1>1. TypeOK /\ IdInv => SharedIdNeedsWrap
  <2> SUFFICES ASSUME TypeOK, IdInv, NEW i \in Slots, NEW j \in Slots,
                      trans[i].serial # 0, trans[j].serial # 0,
                      trans[i].serial # trans[j].serial, trans[i].id = trans[j].id
               PROVE  CycleApart(trans[i].serial, trans[j].serial)
    BY DEF SharedIdNeedsWrap
  <2>1. /\ CarriesId(trans[i].id, trans[i].serial)
        /\ CarriesId(trans[i].id, trans[j].serial)
    BY DEF IdInv
  <2>2. trans[i].id \in 0..(IdMod-1) /\ trans[i].serial \in Nat /\ trans[j].serial \in Nat
    BY DEF TypeOK, Transaction
  <2> QED
    BY <2>1, <2>2, SameIdApart
<1> QED
  BY <1>1, TypeCorrect, IdInvInvariant, PTL

-----------------------------------------------------------------------------
(* The circuit breaker.  A call starts with fewer errors than open it, and *)
(* every slot it looks at adds one at most.                                *)

ErrorInv ==
    /\ ErrorsBounded
    /\ scan # 0 => consecErrors < MAX_CONSECUTIVE_ERRORS + (scan - 1)

LEMMA ErrorInvInductive == TypeOK /\ ErrorInv /\ [Next]_vars => ErrorInv'
<1> SUFFICES ASSUME TypeOK, ErrorInv, [Next]_vars PROVE ErrorInv'
  OBVIOUS
<1> USE DEF ErrorInv, ErrorsBounded, TypeOK
<1>1. ASSUME UNCHANGED <<scan, consecErrors>> PROVE ErrorInv'
  BY <1>1
<1>2. CASE Create
  BY <1>1, <1>2 DEF Create, CreateAndSendRequestAsync, CreateRequestTooBig
<1>3. ASSUME NEW p \in replies, ReceiveDiscard(p) \/ ReceiveDispatch(p) PROVE ErrorInv'
  BY <1>1, <1>3 DEF ReceiveDiscard, Discarded, ReceiveDispatch, Dispatched, hostVars
<1>4. CASE TimeoutCheckNoHandle \/ TimeoutCheckBackoff
  BY <1>1, <1>4 DEF TimeoutCheckNoHandle, TimeoutCheckBackoff, hostVars
<1>5. CASE TimeoutCheckStart
  BY <1>5 DEF TimeoutCheckStart, BreakerOpen
<1>6. CASE TimeoutSlotSkip \/ TimeoutSlotGiveUp
  <2>1. scan # 0 /\ Advance /\ UNCHANGED consecErrors
    BY <1>6 DEF TimeoutSlotSkip, TimeoutSlotGiveUp, hostVars
  <2> QED
    BY <2>1 DEF Advance
<1>7. CASE TimeoutSlotRetry
  BY <1>7 DEF TimeoutSlotRetry, Advance
<1>8. CASE TimeoutSlotRetryFails
  BY <1>8 DEF TimeoutSlotRetryFails, Advance
<1>9. CASE Network
  BY <1>1, <1>9 DEF Network, DeviceAnswers, LoseRequest, LoseReply, hostVars
<1>10. CASE Tick
  BY <1>1, <1>10 DEF Tick, ClockMoves
<1>11. CASE UNCHANGED vars
  BY <1>1, <1>11 DEF vars
<1> QED
  BY <1>2, <1>3, <1>4, <1>5, <1>6, <1>7, <1>8, <1>9, <1>10, <1>11
  DEF Next, TimeoutCheck, TimeoutSlot

\* Failing sends overshoot the threshold of the breaker by less than one
\* table of transactions, however large the table and the threshold are.
THEOREM BreakerOvershoot == Spec => []ErrorsBounded
<1>1. Init => ErrorInv
  BY DEF Init, ErrorInv, ErrorsBounded
<1>2. ErrorInv => ErrorsBounded
  BY DEF ErrorInv
<1> QED
  BY <1>1, <1>2, TypeCorrect, ErrorInvInductive, PTL DEF Spec

-----------------------------------------------------------------------------
(* Transmissions.  Every open slot has a budget of two, of which what is   *)
(* left is in retries; only a request whose id has come round again can    *)
(* exceed it.                                                              *)

Wrapped(s) == created - s >= IdMod - 1

OutOfRetries(t) == t.status = "TIMEOUT" \/ (t.status = "PENDING" /\ t.retries = 0)

SendInv ==
    /\ created <= MaxRequests
    /\ \A i \in Slots : trans[i].serial <= created
    /\ \A i, j \in Slots :
         trans[i].serial = trans[j].serial /\ trans[i].serial # 0 => i = j
    /\ \A s \in 1..MaxRequests : s > created => sends[s] = 0
    /\ \A i \in Slots :
         trans[i].serial # 0
         => /\ OutOfRetries(trans[i]) => sends[trans[i].serial] > 0
            /\ sends[trans[i].serial] + trans[i].retries <= 2 \/ Wrapped(trans[i].serial)
    /\ ThirdSendNeedsWrap

\* A step that sends nothing, and gives no slot more retries.
SlotKept(t, u) == /\ u.serial = t.serial
                  /\ u.retries <= t.retries
                  /\ OutOfRetries(u) => OutOfRetries(t)

NothingSent == /\ UNCHANGED <<created, sends>>
               /\ \A i \in Slots : SlotKept(trans[i], trans'[i])

LEMMA SlotKeptCases ==
    ASSUME NEW t \in Transaction
    PROVE  /\ SlotKept(t, t)
           /\ SlotKept(t, [t EXCEPT !.status = "COMPLETED"])
           /\ SlotKept(t, AfterFailedRetry(t))
           /\ OutOfRetries(t) => SlotKept(t, [t EXCEPT !.status = "TIMEOUT"])
           /\ SlotKept(t, Aged(t))
<1>1. t.retries \in {0, 1} /\ t.retries <= t.retries /\ 0 <= t.retries
  BY DEF Transaction
<1>2. SlotKept(t, t)
  BY <1>1 DEF SlotKept
<1>3. SlotKept(t, [t EXCEPT !.status = "COMPLETED"])
  BY <1>1 DEF SlotKept, OutOfRetries, Transaction
<1>4. SlotKept(t, AfterFailedRetry(t))
  BY <1>1 DEF SlotKept, OutOfRetries, AfterFailedRetry, Transaction
<1>5. OutOfRetries(t) => SlotKept(t, [t EXCEPT !.status = "TIMEOUT"])
  BY <1>1 DEF SlotKept, Transaction
<1>6. SlotKept(t, Aged(t))
  <2>1. Aged(t).serial = t.serial /\ Aged(t).retries = t.retries
        /\ Aged(t).status = t.status
    BY DEF Aged, Transaction
  <2> QED
    BY <1>1, <2>1 DEF SlotKept, OutOfRetries
<1> QED
  BY <1>2, <1>3, <1>4, <1>5, <1>6

LEMMA SlotsKept ==
    ASSUME TypeOK, NEW i \in Slots, NEW u, SlotKept(trans[i], u),
           trans' = [trans EXCEPT ![i] = u]
    PROVE  \A k \in Slots : SlotKept(trans[k], trans'[k])
<1>1. ASSUME NEW k \in Slots PROVE SlotKept(trans[k], trans'[k])
  <2>1. trans[k] \in Transaction
    BY DEF TypeOK
  <2>2. CASE k = i
    BY <2>2 DEF TypeOK
  <2>3. CASE k # i
    <3>1. trans'[k] = trans[k]
      BY <2>3 DEF TypeOK
    <3> QED
      BY <2>1, <3>1, SlotKeptCases
  <2> QED
    BY <2>2, <2>3
<1> QED
  BY <1>1

LEMMA NothingSentKeeps ==
    ASSUME TypeOK, TypeOK', SendInv, NothingSent
    PROVE  SendInv'
<1>1. \A i \in Slots : /\ trans[i].retries \in {0, 1} /\ trans'[i].retries \in {0, 1}
                       /\ trans[i].serial \in Nat
  BY DEF TypeOK, Transaction
<1>2. \A s \in 1..MaxRequests : sends[s] \in Nat
  <2>1. sends \in [1..MaxRequests -> 0..SendsCap]
    BY DEF TypeOK
  <2> QED
    BY <2>1 DEF SendsCap
<1>3. ThirdSendNeedsWrap'
  BY DEF SendInv, NothingSent, ThirdSendNeedsWrap
<1>4. ASSUME NEW i \in Slots, trans'[i].serial # 0
      PROVE  /\ OutOfRetries(trans'[i]) => sends'[trans'[i].serial] > 0
             /\ sends'[trans'[i].serial] + trans'[i].retries <= 2
                \/ created' - trans'[i].serial >= IdMod - 1
  <2> DEFINE s == trans[i].serial
  <2>1. s # 0 /\ trans'[i].serial = s
    BY <1>4 DEF NothingSent, SlotKept
  <2>2. s <= created /\ created <= MaxRequests /\ created \in Nat
    BY DEF SendInv, TypeOK
  <2>3. s \in 1..MaxRequests
    BY <1>1, <2>1, <2>2
  <2>4. (OutOfRetries(trans[i]) => sends[s] > 0)
        /\ (sends[s] + trans[i].retries <= 2 \/ Wrapped(s))
    BY <2>1 DEF SendInv
  <2>5. sends[s] + trans'[i].retries <= 2 \/ Wrapped(s)
    BY <1>1, <1>2, <2>3, <2>4 DEF NothingSent, SlotKept
  <2>6. sends' = sends /\ created' = created
    BY DEF NothingSent, SlotKept
  <2>7. OutOfRetries(trans'[i]) => sends[s] > 0
    BY <2>4 DEF NothingSent, SlotKept
  <2> QED
    BY <2>1, <2>5, <2>6, <2>7 DEF Wrapped
<1>5. \A i \in Slots : trans'[i].serial = trans[i].serial
  BY DEF NothingSent, SlotKept
<1>6. sends' = sends /\ created' = created
  BY DEF NothingSent, SlotKept
<1>7. \A i \in Slots : trans'[i].serial <= created'
  BY <1>5, <1>6 DEF SendInv
<1>8. \A i, j \in Slots :
        trans'[i].serial = trans'[j].serial /\ trans'[i].serial # 0 => i = j
  BY <1>5 DEF SendInv
<1>9. \A s \in 1..MaxRequests : s > created' => sends'[s] = 0
  BY <1>6 DEF SendInv
<1>10. created' <= MaxRequests
  BY <1>6 DEF SendInv
<1> QED
  BY <1>3, <1>4, <1>7, <1>8, <1>9, <1>10 DEF SendInv, Wrapped

\* What Counted() does to the counter of a slot's request, and to no other.
LEMMA CountedOne ==
    ASSUME TypeOK, NEW t \in Transaction
    PROVE  /\ Counted(t) \in [1..MaxRequests -> 0..3]
           /\ \A s \in 1..MaxRequests :
                /\ s # t.serial => Counted(t)[s] = sends[s]
                /\ s = t.serial => /\ Counted(t)[s] > 0
                                  /\ Counted(t)[s] <= sends[s] + 1
<1>1. sends \in [1..MaxRequests -> 0..3]
  BY DEF TypeOK, SendsCap
<1>2. CASE t.serial \in 1..MaxRequests
  <2>1. Counted(t) = [sends EXCEPT ![t.serial] = IF @ < 3 THEN @ + 1 ELSE @]
    BY <1>1, <1>2 DEF Counted, SendsCap
  <2>2. sends[t.serial] \in 0..3
    BY <1>1, <1>2
  <2> QED
    BY <1>1, <1>2, <2>1, <2>2
<1>3. CASE t.serial \notin 1..MaxRequests
  BY <1>1, <1>3 DEF Counted
<1> QED
  BY <1>2, <1>3

LEMMA CreateKeepsSendInv ==
    ASSUME TypeOK, TypeOK', IdInv, SendInv,
           NEW c \in Commands, NEW sent \in BOOLEAN, CreateAndSendRequestAsync(c, sent)
    PROVE  SendInv'
<1> DEFINE newId == NextRequestId(currentId)
<1>1. PICK i \in Slots, j \in Slots :
        LET tbl == [trans EXCEPT ![i] = NewTransaction(newId, c, created + 1)]
        IN  /\ created' = created + 1
            /\ Finds(tbl, newId, j)
            /\ IF handle /\ sent
               THEN /\ trans' = [tbl EXCEPT ![j].age = 0]
                    /\ sends' = Counted(tbl[j])
               ELSE trans' = tbl /\ UNCHANGED sends
  BY Zenon DEF CreateAndSendRequestAsync
<1> DEFINE tbl == [trans EXCEPT ![i] = NewTransaction(newId, c, created + 1)]
           new == created + 1
<1>2. CarriesId(newId, new) /\ newId \in 0..(IdMod-1) /\ new \in Nat /\ new # 0
  <2>1. created \in Nat /\ currentId \in 0..(IdMod-1)
    BY DEF TypeOK
  <2>2. (created = 0 /\ currentId = 0) \/ CarriesId(currentId, created)
    BY DEF IdInv
  <2>3. CarriesId(newId, new)
    BY <2>1, <2>2, NextCarriesId
  <2>4. newId \in 0..(IdMod-1)
    BY <2>1, NextRequestIdType
  <2> QED
    BY <2>1, <2>3, <2>4
<1>3. tbl \in [Slots -> Transaction]
  BY <1>2, NewTransactionType DEF TypeOK
<1>4. new <= MaxRequests /\ created' = new /\ created < new /\ created \in Nat
  BY <1>1 DEF CreateAndSendRequestAsync, TypeOK
<1>5. tbl[i].serial = new /\ tbl[i].id = newId /\ tbl[i].retries = 1
      /\ tbl[i].status = "PENDING"
  BY DEF TypeOK, NewTransaction, Cleared
<1>6. \A k \in Slots : k # i => tbl[k] = trans[k] /\ trans[k].serial <= created
  BY DEF TypeOK, SendInv
<1>7. \A k \in Slots :
        /\ trans'[k].serial = tbl[k].serial
        /\ trans'[k].retries = tbl[k].retries
        /\ trans'[k].status = tbl[k].status
  BY <1>1, <1>3 DEF Transaction
<1>8. \A k \in Slots : tbl[k].serial \in Nat /\ tbl[k].retries \in {0, 1}
  BY <1>3 DEF Transaction
\* A slot SendRequestAsync() takes for the new one carries the same id.
<1>9. ASSUME j # i, tbl[j].serial # 0 PROVE new - tbl[j].serial >= IdMod - 1
  <2>1. tbl[j].id = newId
    BY <1>1 DEF Finds
  <2>2. tbl[j].serial <= created /\ CarriesId(newId, tbl[j].serial)
    BY <1>6, <1>9, <2>1 DEF IdInv
  <2>3. CycleApart(tbl[j].serial, new) /\ tbl[j].serial < new
    BY <1>2, <1>4, <1>8, <2>2, SameIdApart
  <2> QED
    BY <1>4, <1>8, <2>3 DEF CycleApart
<1>10. /\ \A s \in 1..MaxRequests : sends[s] \in 0..3 /\ sends'[s] \in 0..3
       /\ \A s \in 1..MaxRequests :
            /\ s # tbl[j].serial => sends'[s] = sends[s]
            /\ sends'[s] <= sends[s] + 1
            /\ sends[s] > 0 => sends'[s] > 0
  <2>1. sends \in [1..MaxRequests -> 0..3]
    BY DEF TypeOK, SendsCap
  <2>2. CASE UNCHANGED sends
    BY <2>1, <2>2
  <2>3. CASE sends' = Counted(tbl[j])
    <3>1. tbl[j] \in Transaction
      BY <1>3
    <3> QED
      BY <2>1, <2>3, <3>1, CountedOne
  <2> QED
    BY <1>1, <2>2, <2>3
<1>11. sends[new] = 0 /\ new \in 1..MaxRequests
  BY <1>2, <1>4 DEF SendInv
<1>12. \A k \in Slots : trans'[k].serial <= created'
  BY <1>4, <1>5, <1>6, <1>7, <1>8
<1>13. \A k, l \in Slots :
         trans'[k].serial = trans'[l].serial /\ trans'[k].serial # 0 => k = l
  <2> SUFFICES ASSUME NEW k \in Slots, NEW l \in Slots,
                      tbl[k].serial = tbl[l].serial, tbl[k].serial # 0
               PROVE  k = l
    BY <1>7
  <2>1. CASE k = i \/ l = i
    BY <1>4, <1>5, <1>6, <1>8, <2>1
  <2>2. CASE k # i /\ l # i
    BY <1>6, <2>2 DEF SendInv
  <2> QED
    BY <2>1, <2>2
<1>14. \A s \in 1..MaxRequests : s > created' => sends'[s] = 0
  <2> SUFFICES ASSUME NEW s \in 1..MaxRequests, s > new PROVE sends'[s] = 0
    BY <1>4
  <2>1. tbl[j].serial <= new
    BY <1>4, <1>5, <1>6, <1>8
  <2>2. s # tbl[j].serial /\ sends[s] = 0
    BY <1>4, <1>8, <2>1 DEF SendInv
  <2> QED
    BY <1>10, <2>2
<1>15. ASSUME NEW k \in Slots, trans'[k].serial # 0
       PROVE  /\ OutOfRetries(trans'[k]) => sends'[trans'[k].serial] > 0
              /\ \/ sends'[trans'[k].serial] + trans'[k].retries <= 2
                 \/ created' - trans'[k].serial >= IdMod - 1
  <2>1. CASE k = i
    <3>1. ~OutOfRetries(trans'[k])
      BY <1>5, <1>7, <2>1 DEF OutOfRetries
    <3>2. sends'[new] <= 1
      BY <1>10, <1>11
    <3>3. trans'[k].serial = new /\ trans'[k].retries = 1
      BY <1>5, <1>7, <2>1
    <3>4. sends'[new] \in 0..3
      BY <1>10, <1>11
    <3> QED
      BY <3>1, <3>2, <3>3, <3>4
  <2>2. CASE k # i
    <3> DEFINE s == trans[k].serial
    <3>1. /\ trans'[k].serial = s /\ trans'[k].retries = trans[k].retries
          /\ trans'[k].status = trans[k].status /\ tbl[k].serial = s
      BY <1>6, <1>7, <2>2
    <3>2. s # 0 /\ s \in Nat /\ s <= created /\ s \in 1..MaxRequests
          /\ trans[k].retries \in {0, 1}
      BY <1>4, <1>6, <1>8, <1>15, <2>2, <3>1
    <3>3. /\ OutOfRetries(trans[k]) => sends[s] > 0
          /\ sends[s] + trans[k].retries <= 2 \/ created - s >= IdMod - 1
      BY <3>2 DEF SendInv, Wrapped
    <3>4. OutOfRetries(trans'[k]) => sends'[s] > 0
      BY <1>10, <3>1, <3>2, <3>3 DEF OutOfRetries
    <3>5. sends'[s] + trans[k].retries <= 2 \/ new - s >= IdMod - 1
      <4>1. CASE s = tbl[j].serial
        <5>1. j # i
          BY <1>4, <1>5, <3>2, <4>1
        <5> QED
          BY <1>9, <3>2, <4>1, <5>1
      <4>2. CASE s # tbl[j].serial
        BY <1>4, <1>10, <3>2, <3>3, <4>2
      <4> QED
        BY <4>1, <4>2
    <3> QED
      BY <1>4, <3>1, <3>4, <3>5
  <2> QED
    BY <2>1, <2>2
<1>16. ThirdSendNeedsWrap'
  <2> SUFFICES ASSUME NEW s \in 1..MaxRequests, sends'[s] > 2
               PROVE  new - s >= IdMod - 1
    BY <1>4 DEF ThirdSendNeedsWrap
  <2>1. CASE s # tbl[j].serial
    BY <1>4, <1>10, <2>1 DEF SendInv, ThirdSendNeedsWrap
  <2>2. CASE s = tbl[j].serial
    <3>1. s # new
      BY <1>10, <1>11
    <3>2. j # i /\ s # 0
      BY <1>5, <2>2, <3>1
    <3> QED
      BY <1>9, <2>2, <3>2
  <2> QED
    BY <2>1, <2>2
<1> QED
  BY <1>4, <1>12, <1>13, <1>14, <1>15, <1>16 DEF SendInv, Wrapped

LEMMA TooBigKeepsSendInv ==
    ASSUME TypeOK, SendInv, CreateRequestTooBig
    PROVE  SendInv'
<1>1. PICK i \in Slots : trans' = [trans EXCEPT ![i] = Cleared]
  BY DEF CreateRequestTooBig
<1>2. trans'[i] = Cleared /\ \A k \in Slots : k # i => trans'[k] = trans[k]
  BY <1>1 DEF TypeOK
<1>3. Cleared.serial = 0
  BY DEF Cleared
<1>4. created' = created + 1 /\ sends' = sends /\ created < MaxRequests /\ created \in Nat
  BY DEF CreateRequestTooBig, TypeOK
<1>5. \A k \in Slots : trans[k].serial \in Nat
  BY DEF TypeOK, Transaction
<1>6. created' <= MaxRequests
  BY <1>4
<1>7. \A k \in Slots : trans'[k].serial <= created'
  BY <1>2, <1>3, <1>4, <1>5 DEF SendInv
<1>8. \A k, l \in Slots :
        trans'[k].serial = trans'[l].serial /\ trans'[k].serial # 0 => k = l
  BY <1>2, <1>3 DEF SendInv
<1>9. \A s \in 1..MaxRequests : s > created' => sends'[s] = 0
  BY <1>4 DEF SendInv
<1>10. ASSUME NEW k \in Slots, trans'[k].serial # 0
       PROVE  /\ OutOfRetries(trans'[k]) => sends'[trans'[k].serial] > 0
              /\ \/ sends'[trans'[k].serial] + trans'[k].retries <= 2
                 \/ created' - trans'[k].serial >= IdMod - 1
  <2>1. trans'[k] = trans[k]
    BY <1>2, <1>3, <1>10
  <2>2. /\ OutOfRetries(trans[k]) => sends[trans[k].serial] > 0
        /\ \/ sends[trans[k].serial] + trans[k].retries <= 2
           \/ created - trans[k].serial >= IdMod - 1
    BY <1>10, <2>1 DEF SendInv, Wrapped
  <2> QED
    BY <1>4, <1>5, <2>1, <2>2
<1>11. ThirdSendNeedsWrap'
  BY <1>4 DEF SendInv, ThirdSendNeedsWrap
<1> QED
  BY <1>6, <1>7, <1>8, <1>9, <1>10, <1>11 DEF SendInv, Wrapped

LEMMA RetryKeepsSendInv ==
    ASSUME TypeOK, SendInv, TimeoutSlotRetry
    PROVE  SendInv'
<1> DEFINE s == trans[scan].serial
<1>1. scan \in Slots /\ trans[scan] \in Transaction
  BY DEF TimeoutSlotRetry, TypeOK, Slots
<1>2. trans[scan].retries = 1 /\ s \in Nat
  BY <1>1 DEF TimeoutSlotRetry, Transaction
<1>3. /\ trans'[scan].serial = s /\ trans'[scan].retries = 0
      /\ \A k \in Slots : k # scan => trans'[k] = trans[k]
  <2>1. trans' = [trans EXCEPT ![scan] = AfterRetry(trans[scan])]
    BY DEF TimeoutSlotRetry
  <2>2. AfterRetry(trans[scan]).serial = s /\ AfterRetry(trans[scan]).retries = 0
    BY <1>1, <1>2 DEF AfterRetry, Transaction
  <2> QED
    BY <1>1, <2>1, <2>2 DEF TypeOK
<1>4. created' = created /\ created \in Nat /\ created <= MaxRequests
  BY DEF TimeoutSlotRetry, TypeOK, SendInv
<1>5. /\ sends' \in [1..MaxRequests -> 0..3]
      /\ \A r \in 1..MaxRequests :
           /\ r # s => sends'[r] = sends[r]
           /\ r = s => sends'[r] > 0 /\ sends'[r] <= sends[r] + 1
  BY <1>1, CountedOne DEF TimeoutSlotRetry
<1>6. \A r \in 1..MaxRequests : sends[r] \in 0..3 /\ sends'[r] \in 0..3
  BY <1>5 DEF TypeOK, SendsCap
<1>7. \A k \in Slots : trans'[k].serial = trans[k].serial
                       /\ trans[k].serial \in Nat /\ trans[k].serial <= created
                       /\ trans[k].retries \in {0, 1}
  BY <1>1, <1>3 DEF TypeOK, Transaction, SendInv
<1>8. s # 0 => sends[s] + 1 <= 2 \/ Wrapped(s)
  BY <1>1, <1>2 DEF SendInv
<1>9. \A k \in Slots : trans'[k].serial <= created'
  BY <1>4, <1>7
<1>10. \A k, l \in Slots :
         trans'[k].serial = trans'[l].serial /\ trans'[k].serial # 0 => k = l
  BY <1>7 DEF SendInv
<1>11. \A r \in 1..MaxRequests : r > created' => sends'[r] = 0
  BY <1>1, <1>4, <1>5, <1>7 DEF SendInv
<1>12. ASSUME NEW k \in Slots, trans'[k].serial # 0
       PROVE  /\ OutOfRetries(trans'[k]) => sends'[trans'[k].serial] > 0
              /\ \/ sends'[trans'[k].serial] + trans'[k].retries <= 2
                 \/ created' - trans'[k].serial >= IdMod - 1
  <2>1. trans[k].serial \in 1..MaxRequests /\ trans'[k].serial = trans[k].serial
    BY <1>4, <1>7, <1>12
  <2>2. CASE k = scan
    BY <1>2, <1>3, <1>4, <1>5, <1>6, <1>8, <2>1, <2>2 DEF Wrapped
  <2>3. CASE k # scan
    <3>1. trans[k].serial # s
      BY <1>1, <1>7, <1>12, <2>1, <2>3 DEF SendInv
    <3>2. sends'[trans[k].serial] = sends[trans[k].serial]
      BY <1>5, <2>1, <3>1
    <3>3. trans'[k] = trans[k]
      BY <1>3, <2>3
    <3> QED
      BY <1>4, <1>12, <2>1, <3>2, <3>3 DEF SendInv, Wrapped
  <2> QED
    BY <2>2, <2>3
<1>13. ThirdSendNeedsWrap'
  <2> SUFFICES ASSUME NEW r \in 1..MaxRequests, sends'[r] > 2
               PROVE  created - r >= IdMod - 1
    BY <1>4 DEF ThirdSendNeedsWrap
  <2>1. CASE r = s
    BY <1>5, <1>6, <1>8, <2>1 DEF Wrapped
  <2>2. CASE r # s
    BY <1>5, <2>2 DEF SendInv, ThirdSendNeedsWrap
  <2> QED
    BY <2>1, <2>2
<1> QED
  BY <1>4, <1>9, <1>10, <1>11, <1>12, <1>13 DEF SendInv, Wrapped

LEMMA SendInvInductive == TypeOK /\ IdInv /\ SendInv /\ [Next]_vars => SendInv'
<1> SUFFICES ASSUME TypeOK, IdInv, SendInv, [Next]_vars PROVE SendInv'
  OBVIOUS
<1>1. TypeOK'
  BY TypeInductive
<1>2. ASSUME NothingSent PROVE SendInv'
  BY <1>1, <1>2, NothingSentKeeps
<1>3. ASSUME UNCHANGED <<trans, created, sends>> PROVE SendInv'
  <2>1. \A i \in Slots : SlotKept(trans[i], trans'[i])
    BY <1>3, SlotKeptCases DEF TypeOK
  <2> QED
    BY <1>2, <1>3, <2>1 DEF NothingSent
<1>4. ASSUME NEW c \in Commands, NEW sent \in BOOLEAN, CreateAndSendRequestAsync(c, sent)
      PROVE  SendInv'
  BY <1>1, <1>4, CreateKeepsSendInv
<1>5. CASE CreateRequestTooBig
  BY <1>5, TooBigKeepsSendInv
<1>6. ASSUME NEW p \in replies, ReceiveDiscard(p) PROVE SendInv'
  BY <1>3, <1>6 DEF ReceiveDiscard, Discarded, hostVars
<1>7. ASSUME NEW p \in replies, ReceiveDispatch(p) PROVE SendInv'
  <2>1. PICK i \in Slots : trans' = [trans EXCEPT ![i].status = "COMPLETED"]
    BY <1>7 DEF ReceiveDispatch, Dispatched
  <2>2. trans' = [trans EXCEPT ![i] = [trans[i] EXCEPT !.status = "COMPLETED"]]
        /\ SlotKept(trans[i], [trans[i] EXCEPT !.status = "COMPLETED"])
    BY <2>1, SlotKeptCases DEF TypeOK
  <2>3. \A k \in Slots : SlotKept(trans[k], trans'[k])
    BY <2>2, SlotsKept
  <2> QED
    BY <1>2, <1>7, <2>3 DEF ReceiveDispatch, Dispatched, NothingSent
<1>8. CASE TimeoutCheckNoHandle
  <2>1. \A i \in Slots : trans'[i] = trans[i] \/ trans'[i] = AfterFailedRetry(trans[i])
    BY <1>8 DEF TimeoutCheckNoHandle
  <2>2. \A i \in Slots : SlotKept(trans[i], trans'[i])
    BY <2>1, SlotKeptCases DEF TypeOK
  <2> QED
    BY <1>2, <1>8, <2>2 DEF TimeoutCheckNoHandle, NothingSent
<1>9. CASE TimeoutCheckBackoff \/ TimeoutCheckStart \/ TimeoutSlotSkip
  BY <1>3, <1>9 DEF TimeoutCheckBackoff, TimeoutCheckStart, TimeoutSlotSkip, hostVars
<1>10. CASE TimeoutSlotRetry
  BY <1>10, RetryKeepsSendInv
<1>11. CASE TimeoutSlotRetryFails
  <2>1. scan \in Slots
    BY <1>11 DEF TimeoutSlotRetryFails, TypeOK, Slots
  <2>2. trans' = [trans EXCEPT ![scan] = AfterFailedRetry(trans[scan])]
        /\ SlotKept(trans[scan], AfterFailedRetry(trans[scan]))
    BY <1>11, <2>1, SlotKeptCases DEF TimeoutSlotRetryFails, TypeOK
  <2>3. \A k \in Slots : SlotKept(trans[k], trans'[k])
    BY <2>1, <2>2, SlotsKept
  <2> QED
    BY <1>2, <1>11, <2>3 DEF TimeoutSlotRetryFails, NothingSent
<1>12. CASE TimeoutSlotGiveUp
  <2>1. scan \in Slots
    BY <1>12 DEF TimeoutSlotGiveUp, TypeOK, Slots
  <2>2. OutOfRetries(trans[scan])
    BY <1>12 DEF TimeoutSlotGiveUp, GivesUp, Overdue, OutOfRetries
  <2>3. trans' = [trans EXCEPT ![scan] = [trans[scan] EXCEPT !.status = "TIMEOUT"]]
        /\ SlotKept(trans[scan], [trans[scan] EXCEPT !.status = "TIMEOUT"])
    BY <1>12, <2>1, <2>2, SlotKeptCases DEF TimeoutSlotGiveUp, TypeOK
  <2>4. \A k \in Slots : SlotKept(trans[k], trans'[k])
    BY <2>1, <2>3, SlotsKept
  <2> QED
    BY <1>2, <1>12, <2>4 DEF TimeoutSlotGiveUp, NothingSent
<1>13. CASE Network
  BY <1>3, <1>13 DEF Network, DeviceAnswers, LoseRequest, LoseReply, hostVars
<1>14. CASE Tick
  <2>1. \A i \in Slots : trans'[i] = Aged(trans[i])
    BY <1>14 DEF Tick, ClockMoves
  <2>2. \A i \in Slots : SlotKept(trans[i], trans'[i])
    BY <2>1, SlotKeptCases DEF TypeOK
  <2> QED
    BY <1>2, <1>14, <2>2 DEF Tick, ClockMoves, NothingSent
<1>15. CASE UNCHANGED vars
  BY <1>3, <1>15 DEF vars
<1> QED
  BY <1>4, <1>5, <1>6, <1>7, <1>8, <1>9, <1>10, <1>11, <1>12, <1>13, <1>14, <1>15
  DEF Next, Create, TimeoutCheck, TimeoutSlot

LEMMA SendInvInvariant == Spec => []SendInv
<1>1. Init => SendInv
  BY DEF Init, SendInv, Cleared, ThirdSendNeedsWrap
<1> QED
  BY <1>1, TypeCorrect, IdInvInvariant, SendInvInductive, PTL DEF Spec

\* A request is transmitted twice at most, unless its id has come round and
\* SendRequestAsync() takes its slot for that of the new request.
THEOREM ThirdSendOnlyByWrap == Spec => []ThirdSendNeedsWrap
<1>1. SendInv => ThirdSendNeedsWrap
  BY DEF SendInv
<1> QED
  BY <1>1, SendInvInvariant, PTL

\* No request is reported TIMEOUT that never left the host, in whatever
\* order its sends, its retries and the reuse of its slot fail.
THEOREM TimeoutOnlyIfSent == Spec => []TimeoutMeansSent
<1>1. SendInv => TimeoutMeansSent
  <2> SUFFICES ASSUME SendInv, NEW i \in Slots, trans[i].status = "TIMEOUT",
                      trans[i].serial \in 1..MaxRequests
               PROVE  sends[trans[i].serial] > 0
    BY DEF TimeoutMeansSent
  <2>1. trans[i].serial # 0
    OBVIOUS
  <2>2. OutOfRetries(trans[i])
    BY DEF OutOfRetries
  <2> QED
    BY <2>1, <2>2 DEF SendInv
<1> QED
  BY <1>1, SendInvInvariant, PTL


(***************************************************************************)
(* A slot is freed within two timeouts.  Two things would keep it longer:  *)
(* the back-off, during which PK_TimeoutAndRetryCheck() looks at no slot,   *)
(* and an id that has come round to a slot that still holds it, whose       *)
(* timestamp SendRequestAsync() then renews in place of the new one's.      *)
(*                                                                         *)
(* InTime says how old a request may be by its age and its retries; Seen    *)
(* that the check has gone past the slot in this period, Clear that it has  *)
(* left nothing overdue there but what was created since.                   *)
(***************************************************************************)
BackedOff == BreakerOpen /\ errAge < ERROR_BACKOFF_TIME
NextIdFree == \A i \in Slots : trans[i].id # NextRequestId(currentId)

InTime(t) ==
    /\ t.serial = 0 => t.life = 0 /\ t.retries = 0
    /\ t.retries = 1 => t.life = t.age \/ (t.age = Expired /\ t.life <= 1)
    /\ t.retries = 0 => t.life <= t.age + Expired
Clear(t) == t.age < Expired \/ t.life = 0
Seen(i) == polled /\ (scan = 0 \/ scan > i)

TimeInv ==
    \A i \in Slots :
        trans[i].status = "PENDING" => InTime(trans[i]) /\ (Seen(i) => Clear(trans[i]))

LEMMA AgedInTime ==
    ASSUME NEW t \in Transaction, InTime(t), Clear(t)
    PROVE  InTime(Aged(t)) /\ Aged(t).status = t.status
<1> DEFINE a == IF t.age < Expired THEN t.age + 1 ELSE t.age
           l == IF t.life < LifeCap /\ t.serial # 0 THEN t.life + 1 ELSE t.life
<1>1. /\ Aged(t).age = a /\ Aged(t).life = l /\ Aged(t).serial = t.serial
      /\ Aged(t).retries = t.retries /\ Aged(t).status = t.status
  BY DEF Aged, Transaction
<1>2. /\ t.age \in 0..Expired /\ t.life \in Nat /\ t.retries \in {0, 1}
      /\ Expired \in Nat /\ Expired >= 1 /\ LifeCap = 2 * Expired + 1
  BY DEF Transaction, Expired, LifeCap
<1>3. t.serial = 0 => l = 0 /\ t.retries = 0
  BY DEF InTime
<1>4. t.retries = 1 => l = a \/ (a = Expired /\ l <= 1)
  BY <1>2, <1>3 DEF InTime, Clear
<1>5. t.retries = 0 => l <= a + Expired
  BY <1>2, <1>3 DEF InTime, Clear
<1>. QED BY <1>1, <1>3, <1>4, <1>5 DEF InTime

LEMMA RetriedInTime ==
    ASSUME NEW t \in Transaction, InTime(t), t.retries > 0
    PROVE  InTime(AfterRetry(t)) /\ Clear(AfterRetry(t))
<1>1. /\ t.age \in 0..Expired /\ t.life \in Nat /\ t.retries = 1
      /\ Expired \in Nat /\ Expired >= 1
  BY DEF Transaction, Expired
<1>2. /\ AfterRetry(t).age = 0 /\ AfterRetry(t).life = t.life
      /\ AfterRetry(t).serial = t.serial /\ AfterRetry(t).retries = 0
  BY <1>1 DEF AfterRetry, Transaction
<1>3. t.life <= Expired
  BY <1>1 DEF InTime
<1>. QED BY <1>1, <1>2, <1>3 DEF InTime, Clear

\* A request just made has not lived yet, sent or not.
LEMMA NewInTime ==
    ASSUME NEW id \in 0..(IdMod-1), NEW c \in Commands, NEW s \in Nat, s # 0
    PROVE  LET t == NewTransaction(id, c, s)
           IN  /\ InTime(t) /\ Clear(t)
               /\ InTime([t EXCEPT !.age = 0]) /\ Clear([t EXCEPT !.age = 0])
<1> DEFINE t == NewTransaction(id, c, s)
<1>1. /\ t \in Transaction /\ t.serial = s /\ t.retries = 1
      /\ t.age = Expired /\ t.life = 0
  BY NewTransactionType DEF NewTransaction, Cleared
<1>2. LET u == [t EXCEPT !.age = 0]
      IN  u.serial = s /\ u.retries = 1 /\ u.age = 0 /\ u.life = 0
  BY <1>1 DEF Transaction
<1> HIDE DEF t
<1>. QED BY <1>1, <1>2 DEF InTime, Clear, t

LEMMA TimeInvInductive ==
    TypeOK /\ TimeInv /\ ~BackedOff /\ NextIdFree /\ [Next]_vars => TimeInv'
<1> SUFFICES ASSUME TypeOK, TimeInv, ~BackedOff, NextIdFree, [Next]_vars,
                    NEW k \in Slots, trans'[k].status = "PENDING"
             PROVE  InTime(trans'[k]) /\ (Seen(k)' => Clear(trans'[k]))
  BY DEF TimeInv
<1>1. /\ trans[k] \in Transaction /\ scan \in 0..MAX_TRANSACTIONS
      /\ \A i \in Slots : trans[i] \in Transaction
      /\ DOMAIN trans = Slots
  BY DEF TypeOK
<1>2. trans[k].status = "PENDING" =>
        InTime(trans[k]) /\ (Seen(k) => Clear(trans[k]))
  BY DEF TimeInv
\* The steps that leave this slot and what has been looked at alone.
<1>3. ASSUME trans'[k] = trans[k], UNCHANGED <<scan, polled>>
      PROVE  InTime(trans'[k]) /\ (Seen(k)' => Clear(trans'[k]))
  BY <1>2, <1>3 DEF Seen
\* The turns of the loop, which leave slot scan cleared of what is overdue.
<1>4. ASSUME scan # 0, Advance, polled' = polled, k # scan => trans'[k] = trans[k],
             k = scan => InTime(trans'[k]) /\ Clear(trans'[k])
      PROVE  InTime(trans'[k]) /\ (Seen(k)' => Clear(trans'[k]))
  <2>1. CASE k = scan
    BY <1>4, <2>1
  <2>2. CASE k # scan
    <3>1. Seen(k)' => Seen(k)
      BY <1>1, <1>4, <2>2 DEF Seen, Advance, Slots
    <3>. QED BY <1>2, <1>4, <2>2, <3>1
  <2>. QED BY <2>1, <2>2
<1>5. ASSUME NEW c \in Commands, NEW sent \in BOOLEAN, CreateAndSendRequestAsync(c, sent)
      PROVE  InTime(trans'[k]) /\ (Seen(k)' => Clear(trans'[k]))
  <2> DEFINE id == NextRequestId(currentId)
             t  == NewTransaction(id, c, created + 1)
  <2>1. PICK i \in Slots, j \in Slots :
          /\ Finds([trans EXCEPT ![i] = t], id, j)
          /\ IF handle /\ sent
             THEN trans' = [[trans EXCEPT ![i] = t] EXCEPT ![j].age = 0]
             ELSE trans' = [trans EXCEPT ![i] = t]
    BY <1>5, Zenon DEF CreateAndSendRequestAsync
  <2>2. id \in 0..(IdMod-1) /\ created + 1 \in Nat /\ created + 1 # 0
    BY NextRequestIdType DEF TypeOK
  <2>3. t \in Transaction
    BY <2>2, NewTransactionType
  <2>4. \A l \in Slots : trans[l].id # id
    BY DEF NextIdFree
  <2> HIDE DEF id
  <2>5. j = i
    BY <1>1, <2>1, <2>4 DEF Finds
  <2>6. \A l \in Slots : l # i => trans'[l] = trans[l]
    BY <1>1, <2>1, <2>5
  <2>7. trans'[i] \in {t, [t EXCEPT !.age = 0]}
    BY <1>1, <2>1, <2>5
  <2>8. InTime(trans'[i]) /\ Clear(trans'[i])
    <3>1. /\ InTime(t) /\ Clear(t)
          /\ InTime([t EXCEPT !.age = 0]) /\ Clear([t EXCEPT !.age = 0])
      BY <2>2, NewInTime, Zenon
    <3>. QED BY <2>7, <3>1, Zenon
  <2>9. UNCHANGED <<scan, polled>>
    BY <1>5 DEF CreateAndSendRequestAsync
  <2>. QED BY <1>3, <2>6, <2>8, <2>9
<1>6. CASE CreateRequestTooBig
  <2>1. PICK i \in Slots : trans' = [trans EXCEPT ![i] = Cleared]
    BY <1>6 DEF CreateRequestTooBig
  <2>2. InTime(Cleared) /\ Clear(Cleared)
    BY DEF InTime, Clear, Cleared, Expired
  <2>3. trans'[k] = trans[k] \/ trans'[k] = Cleared
    BY <1>1, <2>1
  <2>. QED BY <1>3, <1>6, <2>2, <2>3 DEF CreateRequestTooBig
<1>7. ASSUME NEW p \in replies, ReceiveDiscard(p) \/ ReceiveDispatch(p)
      PROVE  InTime(trans'[k]) /\ (Seen(k)' => Clear(trans'[k]))
  <2>1. UNCHANGED <<scan, polled>>
    BY <1>7 DEF ReceiveDiscard, ReceiveDispatch, Discarded, Dispatched
  <2>2. CASE ReceiveDiscard(p)
    BY <1>3, <2>1, <2>2 DEF ReceiveDiscard, Discarded, hostVars
  <2>3. CASE ReceiveDispatch(p)
    <3>1. PICK i \in Slots : trans' = [trans EXCEPT ![i].status = "COMPLETED"]
      BY <2>3 DEF ReceiveDispatch, Dispatched
    <3>2. trans'[i].status = "COMPLETED"
      BY <1>1, <3>1 DEF Transaction
    <3>. QED BY <1>1, <1>3, <2>1, <3>1, <3>2
  <2>. QED BY <1>7, <2>2, <2>3
<1>8. CASE TimeoutCheckNoHandle
  <2>1. trans[k].status = "PENDING" => trans'[k].status = "FAILED"
    BY <1>1, <1>8 DEF TimeoutCheckNoHandle, AfterFailedRetry, Transaction
  <2>2. trans[k].status # "PENDING" => trans'[k] = trans[k]
    BY <1>8 DEF TimeoutCheckNoHandle
  <2>. QED BY <2>1, <2>2
<1>9. CASE TimeoutCheckBackoff
  BY <1>9 DEF TimeoutCheckBackoff, BackedOff
<1>10. CASE TimeoutCheckStart
  <2>1. trans' = trans /\ scan' = 1 /\ ~Seen(k)'
    BY <1>10 DEF TimeoutCheckStart, Seen, Slots
  <2>. QED BY <1>2, <2>1
<1>11. CASE TimeoutSlotSkip
  <2>1. trans' = trans /\ scan # 0 /\ Advance /\ polled' = polled /\ ~Overdue(trans[scan])
    BY <1>11 DEF TimeoutSlotSkip, hostVars
  <2>2. k = scan => Clear(trans[k])
    BY <1>1, <2>1 DEF Overdue, Clear, Transaction, Expired
  <2>. QED BY <1>2, <1>4, <2>1, <2>2
<1>12. CASE TimeoutSlotRetry
  <2>1. /\ scan # 0 /\ Advance /\ polled' = polled /\ Overdue(trans[scan])
        /\ trans[scan].retries > 0
        /\ trans' = [trans EXCEPT ![scan] = AfterRetry(trans[scan])]
    BY <1>12 DEF TimeoutSlotRetry
  <2>2. k # scan => trans'[k] = trans[k]
    BY <1>1, <2>1
  <2>3. k = scan => trans'[k] = AfterRetry(trans[k])
    BY <1>1, <2>1
  <2>4. k = scan => InTime(trans'[k]) /\ Clear(trans'[k])
    BY <1>1, <1>2, <2>1, <2>3, RetriedInTime DEF Overdue
  <2>. QED BY <1>4, <2>1, <2>2, <2>4
<1>13. CASE TimeoutSlotRetryFails \/ TimeoutSlotGiveUp
  <2>1. /\ scan # 0 /\ Advance /\ polled' = polled
        /\ \/ trans' = [trans EXCEPT ![scan] = AfterFailedRetry(trans[scan])]
           \/ trans' = [trans EXCEPT ![scan].status = "TIMEOUT"]
    BY <1>13 DEF TimeoutSlotRetryFails, TimeoutSlotGiveUp
  <2>2. k # scan => trans'[k] = trans[k]
    BY <1>1, <2>1
  <2>3. k # scan
    BY <1>1, <2>1 DEF AfterFailedRetry, Transaction
  <2>. QED BY <1>4, <2>1, <2>2, <2>3
<1>14. CASE Network
  BY <1>3, <1>14 DEF Network, DeviceAnswers, LoseRequest, LoseReply, hostVars
<1>15. CASE Tick
  <2>1. trans'[k] = Aged(trans[k]) /\ Seen(k) /\ ~Seen(k)'
    BY <1>15 DEF Tick, ClockMoves, Seen
  <2>2. trans[k].status = "PENDING"
    BY <1>1, <2>1 DEF Aged, Transaction
  <2>. QED BY <1>1, <1>2, <2>1, <2>2, AgedInTime
<1>16. CASE UNCHANGED vars
  BY <1>3, <1>16 DEF vars
<1>. QED
  BY <1>5, <1>6, <1>7, <1>8, <1>9, <1>10, <1>11, <1>12, <1>13, <1>14, <1>15, <1>16
  DEF Next, Create, TimeoutCheck, TimeoutSlot

\* "a slot is freed within 2 x timeout_us": true of every request as long as
\* the breaker does not hold the check back and no id comes round to a slot
\* that still holds it, whatever is lost, late or failing to be sent.
THEOREM FreedInTime ==
    Spec /\ [](~BackedOff /\ NextIdFree) => []FreedWithinTwoTimeouts
<1>1. Init => TimeInv
  BY DEF Init, TimeInv, InTime, Clear, Cleared, Expired
<1>2. TypeOK /\ TimeInv => FreedWithinTwoTimeouts
  <2> SUFFICES ASSUME TypeOK, TimeInv, NEW i \in Slots, trans[i].status = "PENDING"
               PROVE  trans[i].life <= 2 * Expired
    BY DEF FreedWithinTwoTimeouts
  <2>1. /\ trans[i].age \in 0..Expired /\ trans[i].life \in Nat
        /\ trans[i].retries \in {0, 1} /\ Expired \in Nat /\ Expired >= 1
    BY DEF TypeOK, Transaction, Expired
  <2>2. InTime(trans[i])
    BY DEF TimeInv
  <2>. QED BY <2>1, <2>2 DEF InTime
<1>. QED BY <1>1, <1>2, TypeCorrect, TimeInvInductive, PTL DEF Spec

(***************************************************************************)
(* The mailbox implements RequestOutcomes.  The slots tell the outcome of  *)
(* a request, since no two hold the same one (SendInv); transaction_alloc()*)
(* leaves an open request alone, since its slot has an id (IdInv); and a   *)
(* request that is out of retries was sent (SendInv).                      *)
(***************************************************************************)
\* OutcomeOf() in a table of its own, so that one lemma tells it before a step
\* and after it.
OutcomeIn(tbl, n, s) ==
    IF s > n THEN "none"
    ELSE IF \E i \in Slots : tbl[i].serial = s
         THEN tbl[CHOOSE i \in Slots : tbl[i].serial = s].status
         ELSE "gone"

LEMMA TableTells ==
    ASSUME NEW tbl \in [Slots -> Transaction], NEW n \in Nat, NEW s \in Nat \ {0},
           \A i, j \in Slots : tbl[i].serial = tbl[j].serial /\ tbl[i].serial # 0 => i = j,
           \A i \in Slots : tbl[i].serial <= n
    PROVE  /\ s > n <=> OutcomeIn(tbl, n, s) = "none"
           /\ \A i \in Slots : tbl[i].serial = s => OutcomeIn(tbl, n, s) = tbl[i].status
           /\ s <= n /\ (\A i \in Slots : tbl[i].serial # s) => OutcomeIn(tbl, n, s) = "gone"
<1>1. \A i \in Slots : tbl[i].status \in Statuses /\ tbl[i].serial \in Nat
  BY DEF Transaction
<1>2. ASSUME NEW i \in Slots, tbl[i].serial = s
      PROVE  OutcomeIn(tbl, n, s) = tbl[i].status /\ s <= n
  <2>1. ~(s > n)
    BY <1>1, <1>2
  <2>2. \A j \in Slots : tbl[j].serial = s => j = i
    BY <1>2
  <2>3. (CHOOSE j \in Slots : tbl[j].serial = s) = i
    BY <1>2, <2>2
  <2>. QED BY <1>2, <2>1, <2>3 DEF OutcomeIn
<1>3. s <= n /\ (\A i \in Slots : tbl[i].serial # s) => OutcomeIn(tbl, n, s) = "gone"
  BY DEF OutcomeIn
<1>4. s > n => OutcomeIn(tbl, n, s) = "none"
  BY DEF OutcomeIn
<1>5. s <= n => OutcomeIn(tbl, n, s) # "none"
  BY <1>1, <1>2, <1>3 DEF Statuses
<1>. QED BY <1>2, <1>3, <1>4, <1>5

\* What the table tells of the outcomes before and after a step.
LEMMA Told ==
    ASSUME TypeOK, SendInv, TypeOK', SendInv'
    PROVE  \A s \in 1..MaxRequests :
             /\ s > created <=> OutcomeOf(s) = "none"
             /\ \A i \in Slots : trans[i].serial = s => OutcomeOf(s) = trans[i].status
             /\ s <= created /\ (\A i \in Slots : trans[i].serial # s) => OutcomeOf(s) = "gone"
             /\ s > created' <=> OutcomeOf(s)' = "none"
             /\ \A i \in Slots : trans'[i].serial = s => OutcomeOf(s)' = trans'[i].status
             /\ s <= created' /\ (\A i \in Slots : trans'[i].serial # s)
                    => OutcomeOf(s)' = "gone"
<1> SUFFICES ASSUME NEW s \in 1..MaxRequests
             PROVE  /\ s > created <=> OutcomeOf(s) = "none"
                    /\ \A i \in Slots : trans[i].serial = s => OutcomeOf(s) = trans[i].status
                    /\ s <= created /\ (\A i \in Slots : trans[i].serial # s)
                           => OutcomeOf(s) = "gone"
                    /\ s > created' <=> OutcomeOf(s)' = "none"
                    /\ \A i \in Slots : trans'[i].serial = s => OutcomeOf(s)' = trans'[i].status
                    /\ s <= created' /\ (\A i \in Slots : trans'[i].serial # s)
                           => OutcomeOf(s)' = "gone"
  OBVIOUS
<1>1. s \in Nat \ {0} /\ MaxRequests \in Nat
  BY AsyncAssumption
<1>2. /\ trans \in [Slots -> Transaction] /\ created \in Nat
      /\ trans' \in [Slots -> Transaction] /\ created' \in Nat
  BY DEF TypeOK
<1>3. OutcomeOf(s) = OutcomeIn(trans, created, s) /\ OutcomeOf(s)' = OutcomeIn(trans', created', s)
  BY DEF OutcomeOf, OutcomeIn
<1>4. /\ \A i, j \in Slots :
            trans[i].serial = trans[j].serial /\ trans[i].serial # 0 => i = j
      /\ \A i \in Slots : trans[i].serial <= created
  BY DEF SendInv
<1>5. /\ \A i, j \in Slots :
            trans'[i].serial = trans'[j].serial /\ trans'[i].serial # 0 => i = j
      /\ \A i \in Slots : trans'[i].serial <= created'
  BY DEF SendInv
<1>6. /\ s > created <=> OutcomeOf(s) = "none"
      /\ \A i \in Slots : trans[i].serial = s => OutcomeOf(s) = trans[i].status
      /\ s <= created /\ (\A i \in Slots : trans[i].serial # s) => OutcomeOf(s) = "gone"
  BY <1>1, <1>2, <1>3, <1>4, TableTells
<1>7. /\ s > created' <=> OutcomeOf(s)' = "none"
      /\ \A i \in Slots : trans'[i].serial = s => OutcomeOf(s)' = trans'[i].status
      /\ s <= created' /\ (\A i \in Slots : trans'[i].serial # s) => OutcomeOf(s)' = "gone"
  BY <1>1, <1>2, <1>3, <1>5, TableTells
<1>. QED BY <1>6, <1>7

\* In a step that hands out no request only the slots that change status matter.
SlotsHold == created' = created /\ \A k \in Slots : trans'[k].serial = trans[k].serial

LEMMA ToldOfKept ==
    ASSUME TypeOK, SendInv, TypeOK', SendInv', SlotsHold, NEW s \in 1..MaxRequests
    PROVE  /\ (\A k \in Slots : trans[k].serial = s => trans'[k].status = trans[k].status)
                  => OutcomeOf(s)' = OutcomeOf(s)
           /\ \A k \in Slots : trans[k].serial = s => OutcomeOf(s)' = trans'[k].status
<1>1. created \in Nat /\ created' = created /\ MaxRequests \in Nat
  BY AsyncAssumption DEF TypeOK, SlotsHold
<1>2. CASE \E k \in Slots : trans[k].serial = s
  BY <1>2, Told DEF SlotsHold
<1>3. CASE \A k \in Slots : trans[k].serial # s
  <2>1. CASE s > created
    BY <1>1, <1>3, <2>1, Told
  <2>2. CASE s <= created
    BY <1>1, <1>3, <2>2, Told DEF SlotsHold
  <2>. QED BY <1>1, <2>1, <2>2
<1>. QED BY <1>2, <1>3

\* A step that changes no status and transmits nothing is none to the clients.
LEMMA NothingChanges ==
    ASSUME TypeOK, SendInv, TypeOK', SendInv', SlotsHold,
           \A k \in Slots : trans'[k].status = trans[k].status
    PROVE  Outcomes' = Outcomes
  BY ToldOfKept DEF Outcomes

\* One slot changes its status, which is that of its request - if it has one.
LEMMA OneChanges ==
    ASSUME TypeOK, SendInv, TypeOK', SendInv', SlotsHold, NEW i \in Slots,
           \A k \in Slots : k # i => trans'[k].status = trans[k].status
    PROVE  /\ trans[i].serial \in 0..MaxRequests
           /\ trans[i].serial = 0 => Outcomes' = Outcomes
           /\ trans[i].serial # 0 =>
                /\ Outcomes' = [Outcomes EXCEPT ![trans[i].serial] = trans'[i].status]
                /\ Outcomes[trans[i].serial] = trans[i].status
<1>1. PICK n \in Nat : n = trans[i].serial
  BY DEF TypeOK, Transaction
<1>2. n <= MaxRequests /\ MaxRequests \in Nat
  BY <1>1, AsyncAssumption DEF TypeOK, SendInv
<1>3. \A s \in 1..MaxRequests : s # n => OutcomeOf(s)' = OutcomeOf(s)
  BY <1>1, ToldOfKept
<1>4. CASE n = 0
  <2>1. \A s \in 1..MaxRequests : OutcomeOf(s)' = OutcomeOf(s)
    BY <1>3, <1>4
  <2>2. Outcomes' = Outcomes
    BY <2>1 DEF Outcomes
  <2>. QED BY <1>1, <1>2, <1>4, <2>2
<1>5. CASE n # 0
  <2>1. n \in 1..MaxRequests
    BY <1>2, <1>5
  <2>2. OutcomeOf(n)' = trans'[i].status /\ OutcomeOf(n) = trans[i].status
    BY <1>1, <2>1, ToldOfKept, Told
  <2>3. Outcomes' = [Outcomes EXCEPT ![n] = trans'[i].status] /\ Outcomes[n] = trans[i].status
    BY <1>3, <2>1, <2>2 DEF Outcomes
  <2>. QED BY <1>1, <1>5, <2>1, <2>3
<1>6. trans[i].serial \in 0..MaxRequests
  BY <1>1, <1>2
<1>. QED BY <1>1, <1>4, <1>5, <1>6

\* sendto() adds the request of the slot to those that went out.
LEMMA SentOne ==
    ASSUME TypeOK, TypeOK', NEW t \in Transaction, sends' = Counted(t)
    PROVE  WentOut' = WentOut \cup ({t.serial} \cap 1..MaxRequests)
<1>1. \A s \in 1..MaxRequests : s # t.serial => sends'[s] = sends[s]
  BY CountedOne
<1>2. \A s \in 1..MaxRequests : s = t.serial => sends'[s] > 0
  BY CountedOne
<1>. QED BY <1>1, <1>2 DEF WentOut

\* transaction_alloc() takes a slot whose request is resolved, if it has one.
LEMMA SlotTaken ==
    ASSUME TypeOK, IdInv, SendInv, TypeOK', SendInv', created' = created + 1,
           NEW i \in Slots, Allocatable(trans[i]), trans'[i].serial \in {0, created + 1},
           \A k \in Slots : k # i => trans'[k] = trans[k]
                                     \/ /\ trans'[k].serial = trans[k].serial
                                        /\ trans'[k].status = trans[k].status,
           NEW s \in 1..MaxRequests, s = created + 1, NEW o, Outcomes'[s] = o
    PROVE  Promise!TakesSlot(s, o)
<1>1. created \in Nat /\ MaxRequests \in Nat
  BY AsyncAssumption DEF TypeOK
<1>2. Promise!NextOne(s)
  BY <1>1, Told DEF Promise!NextOne, Promise!Requests, Outcomes
<1>3. PICK n \in Nat : n = trans[i].serial
  BY DEF TypeOK, Transaction
<1>4. n <= created
  BY <1>3 DEF SendInv
<1>5. \A k \in Slots : k # i => /\ trans'[k].serial = trans[k].serial
                                /\ trans'[k].status = trans[k].status
  OBVIOUS
<1>6. ASSUME NEW r \in 1..MaxRequests, r # s, r # n PROVE OutcomeOf(r)' = OutcomeOf(r)
  <2>1. CASE r > created
    BY <1>1, <1>6, <2>1, Told
  <2>2. CASE r <= created /\ \E k \in Slots : trans[k].serial = r
    BY <1>3, <1>5, <1>6, <2>2, Told
  <2>3. CASE r <= created /\ \A k \in Slots : trans[k].serial # r
    <3>1. \A k \in Slots : trans'[k].serial # r
      BY <1>1, <1>5, <1>6, <2>3
    <3>2. r <= created'
      BY <1>1, <2>3
    <3>. QED BY <2>3, <3>1, <3>2, Told
  <2>. QED BY <1>1, <2>1, <2>2, <2>3
<1>7. CASE n = 0
  <2>1. Outcomes' = [r \in 1..MaxRequests |-> IF r = s THEN o
                                              ELSE IF r \in {} THEN "gone" ELSE Outcomes[r]]
    BY <1>6, <1>7 DEF Outcomes
  <2>2. {} \in {{}} \cup {{r} : r \in 1..MaxRequests}
    OBVIOUS
  <2>3. \A r \in {} : Outcomes[r] \in Promise!Resolved
    OBVIOUS
  <2>. QED BY <1>2, <2>1, <2>2, <2>3, Zenon DEF Promise!TakesSlot, Promise!Requests
<1>8. CASE n # 0
  <2>1. n \in 1..MaxRequests /\ n # s
    BY <1>1, <1>4, <1>8
  <2>2. trans[i].status \in Promise!Resolved
    <3>1. trans[i].id # 0
      BY <1>3, <1>8 DEF IdInv, CarriesId
    <3>2. trans[i].status \in Statuses /\ trans[i].status # "PENDING"
      BY <3>1 DEF Allocatable, TypeOK, Transaction
    <3>. QED BY <3>2 DEF Promise!Resolved, Statuses
  <2>3. Outcomes[n] \in Promise!Resolved
    BY <1>3, <2>1, <2>2, Told DEF Outcomes
  <2>4. OutcomeOf(n)' = "gone"
    <3>1. \A k \in Slots : trans'[k].serial # n
      BY <1>1, <1>3, <1>4, <1>5, <1>8 DEF SendInv
    <3>2. n <= created'
      BY <1>1, <1>4
    <3>. QED BY <2>1, <3>1, <3>2, Told
  <2>5. Outcomes' = [r \in 1..MaxRequests |-> IF r = s THEN o
                                              ELSE IF r \in {n} THEN "gone" ELSE Outcomes[r]]
    BY <1>6, <2>1, <2>4 DEF Outcomes
  <2>. QED BY <1>2, <2>1, <2>3, <2>5 DEF Promise!TakesSlot, Promise!Requests
<1>. QED BY <1>7, <1>8

\* CreateRequestAsync() and SendRequestAsync() make the next request, even when
\* SendRequestAsync() finds another slot first.
LEMMA CreateMakes ==
    ASSUME TypeOK, IdInv, SendInv, TypeOK', SendInv',
           NEW c \in Commands, NEW snt \in BOOLEAN, CreateAndSendRequestAsync(c, snt)
    PROVE  Promise!Next
<1>1. created \in Nat /\ MaxRequests \in Nat
  BY AsyncAssumption DEF TypeOK
<1>2. PICK s \in 1..MaxRequests : s = created + 1
  BY <1>1 DEF CreateAndSendRequestAsync
<1>3. PICK id \in 0..(IdMod-1) : id = NextRequestId(currentId)
  BY NextRequestIdType DEF TypeOK
<1>4. PICK i \in Slots, j \in Slots :
        LET tbl == [trans EXCEPT ![i] = NewTransaction(id, c, s)]
        IN  /\ FirstFree(i)
            /\ created' = s
            /\ Finds(tbl, id, j)
            /\ IF handle /\ snt
               THEN /\ trans' = [tbl EXCEPT ![j].age = 0]
                    /\ sends' = Counted(tbl[j])
               ELSE trans' = tbl /\ UNCHANGED sends
  BY <1>2, <1>3, Zenon DEF CreateAndSendRequestAsync
<1>5. PICK tbl : tbl = [trans EXCEPT ![i] = NewTransaction(id, c, s)]
  OBVIOUS
<1>6. tbl \in [Slots -> Transaction]
  <2>1. NewTransaction(id, c, s) \in Transaction
    BY NewTransactionType
  <2>. QED BY <1>5, <2>1 DEF TypeOK
<1>7. tbl[i].serial = s /\ tbl[i].status = "PENDING" /\ \A k \in Slots : k # i => tbl[k] = trans[k]
  BY <1>5 DEF TypeOK, NewTransaction, Cleared
<1>8. \A k \in Slots : trans'[k].serial = tbl[k].serial /\ trans'[k].status = tbl[k].status
  BY <1>4, <1>5, <1>6 DEF Transaction
<1>9. Outcomes'[s] = "PENDING"
  <2>1. OutcomeOf(s)' = "PENDING"
    BY <1>7, <1>8, Told
  <2>. QED BY <2>1 DEF Outcomes
<1>10. Promise!TakesSlot(s, "PENDING")
  <2>1. Allocatable(trans[i]) /\ trans'[i].serial \in {0, created + 1} /\ created' = created + 1
    BY <1>2, <1>4, <1>7, <1>8 DEF FirstFree
  <2>2. \A k \in Slots : k # i => /\ trans'[k].serial = trans[k].serial
                                  /\ trans'[k].status = trans[k].status
    BY <1>7, <1>8
  <2>. QED BY <1>2, <1>9, <2>1, <2>2, SlotTaken
<1>11. WentOut' = WentOut
       \/ \E r \in 1..MaxRequests : Outcomes'[r] \notin {"none", "gone"}
                                    /\ WentOut' = WentOut \cup {r}
  <2>1. CASE UNCHANGED sends
    BY <2>1 DEF WentOut
  <2>2. CASE sends' = Counted(tbl[j])
    <3>1. WentOut' = WentOut \cup ({tbl[j].serial} \cap 1..MaxRequests)
      BY <1>6, <2>2, SentOne
    <3>2. CASE tbl[j].serial \in 1..MaxRequests
      <4>1. PICK r \in 1..MaxRequests : r = tbl[j].serial
        BY <3>2
      <4>2. OutcomeOf(r)' = trans'[j].status
        BY <1>8, <4>1, Told
      <4>3. Outcomes'[r] \in Statuses
        BY <4>2 DEF Outcomes, TypeOK, Transaction
      <4>. QED BY <3>1, <4>1, <4>3 DEF Statuses
    <3>3. CASE tbl[j].serial \notin 1..MaxRequests
      BY <3>1, <3>3
    <3>. QED BY <3>2, <3>3
  <2>. QED BY <1>4, <1>5, <2>1, <2>2
<1>12. Promise!Make(s)
  BY <1>10, <1>11 DEF Promise!Make, Promise!Requests
<1>. QED BY <1>12 DEF Promise!Next, Promise!Requests

LEMMA TooBigRefuses ==
    ASSUME TypeOK, IdInv, SendInv, TypeOK', SendInv', CreateRequestTooBig
    PROVE  Promise!Next
<1>1. created \in Nat /\ MaxRequests \in Nat
  BY AsyncAssumption DEF TypeOK
<1>2. PICK s \in 1..MaxRequests : s = created + 1
  BY <1>1 DEF CreateRequestTooBig
<1>3. PICK i \in Slots : FirstFree(i) /\ trans' = [trans EXCEPT ![i] = Cleared]
  BY DEF CreateRequestTooBig
<1>4. trans'[i].serial = 0 /\ \A k \in Slots : k # i => trans'[k] = trans[k]
  BY <1>3 DEF TypeOK, Cleared
<1>5. created' = created + 1
  BY DEF CreateRequestTooBig
<1>6. Outcomes'[s] = "gone"
  <2>1. \A k \in Slots : trans'[k].serial # s
    <3>1. \A k \in Slots : trans[k].serial \in Nat /\ trans[k].serial <= created
      BY DEF SendInv, TypeOK, Transaction
    <3>. QED BY <1>1, <1>2, <1>4, <3>1
  <2>2. s <= created'
    BY <1>1, <1>2, <1>5
  <2>3. OutcomeOf(s)' = "gone"
    BY <2>1, <2>2, Told
  <2>. QED BY <2>3 DEF Outcomes
<1>7. Promise!TakesSlot(s, "gone")
  BY <1>2, <1>3, <1>4, <1>5, <1>6, SlotTaken DEF FirstFree
<1>8. WentOut' = WentOut
  BY DEF WentOut, CreateRequestTooBig
<1>9. Promise!Refuse(s)
  BY <1>7, <1>8 DEF Promise!Refuse
<1>. QED BY <1>9 DEF Promise!Next, Promise!Requests

\* A slot whose status changes from t to u, and nothing is sent.
LEMMA SlotChanges ==
    ASSUME TypeOK, SendInv, TypeOK', SendInv', UNCHANGED <<created, sends>>,
           NEW i \in Slots, NEW u,
           \/ trans[i].status = "PENDING" /\ u \in {"COMPLETED", "FAILED"}
           \/ trans[i].status = "PENDING" /\ OutOfRetries(trans[i]) /\ u = "TIMEOUT"
           \/ u = "COMPLETED",
           trans'[i].serial = trans[i].serial, trans'[i].status = u,
           \A k \in Slots : k # i => trans'[k] = trans[k]
    PROVE  [Promise!Next]_<<Outcomes, WentOut>>
<1>1. SlotsHold /\ \A k \in Slots : k # i => trans'[k].status = trans[k].status
  BY DEF SlotsHold
<1>2. PICK n \in 0..MaxRequests : n = trans[i].serial
  BY <1>1, OneChanges
<1>3. WentOut' = WentOut
  BY DEF WentOut
<1>4. CASE n = 0
  <2>1. Outcomes' = Outcomes
    BY <1>1, <1>2, <1>4, OneChanges
  <2>. QED BY <1>3, <2>1
<1>5. CASE n # 0
  <2>1. n \in 1..MaxRequests
    BY <1>5
  <2>2. Outcomes' = [Outcomes EXCEPT ![n] = u] /\ Outcomes[n] = trans[i].status
    BY <1>1, <1>2, <1>5, OneChanges
  <2>3. CASE u = "COMPLETED"
    <3>1. trans[i].status \in Promise!Resolved \cup {"PENDING"}
      BY DEF TypeOK, Transaction, Statuses, Promise!Resolved
    <3>2. Promise!Answer(n)
      BY <1>3, <2>2, <2>3, <3>1 DEF Promise!Answer
    <3>. QED BY <2>1, <3>2 DEF Promise!Next, Promise!Requests
  <2>4. CASE u = "FAILED" /\ trans[i].status = "PENDING"
    <3>1. Promise!Fail(n)
      BY <1>3, <2>2, <2>4 DEF Promise!Fail
    <3>. QED BY <2>1, <3>1 DEF Promise!Next, Promise!Requests
  <2>5. CASE u = "TIMEOUT" /\ trans[i].status = "PENDING" /\ OutOfRetries(trans[i])
    <3>1. n \in WentOut
      BY <1>2, <1>5, <2>1, <2>5 DEF SendInv, WentOut
    <3>2. Promise!GiveUp(n)
      BY <1>3, <2>2, <2>5, <3>1 DEF Promise!GiveUp
    <3>. QED BY <2>1, <3>2 DEF Promise!Next, Promise!Requests
  <2>. QED BY <2>3, <2>4, <2>5
<1>. QED BY <1>2, <1>4, <1>5

LEMMA RetryRetries ==
    ASSUME TypeOK, SendInv, TypeOK', SendInv', TimeoutSlotRetry
    PROVE  [Promise!Next]_<<Outcomes, WentOut>>
<1>1. PICK i \in Slots : i = scan
  BY DEF TimeoutSlotRetry, TypeOK, Slots
<1>2. trans[i] \in Transaction /\ trans[i].status = "PENDING"
  BY <1>1 DEF TimeoutSlotRetry, Overdue, TypeOK
<1>3. /\ trans' = [trans EXCEPT ![i] = AfterRetry(trans[i])]
      /\ sends' = Counted(trans[i]) /\ created' = created
  BY <1>1 DEF TimeoutSlotRetry
<1>4. AfterRetry(trans[i]).status = trans[i].status /\ AfterRetry(trans[i]).serial = trans[i].serial
  BY <1>2 DEF AfterRetry, Transaction
<1>5. \A k \in Slots : trans'[k].serial = trans[k].serial /\ trans'[k].status = trans[k].status
  BY <1>3, <1>4 DEF TypeOK
<1>6. SlotsHold
  BY <1>3, <1>5 DEF SlotsHold
<1>7. Outcomes' = Outcomes
  BY <1>5, <1>6, NothingChanges
<1>8. WentOut' = WentOut \cup ({trans[i].serial} \cap 1..MaxRequests)
  BY <1>2, <1>3, SentOne
<1>9. CASE trans[i].serial \in 1..MaxRequests
  <2>1. PICK n \in 1..MaxRequests : n = trans[i].serial
    BY <1>9
  <2>2. Outcomes[n] = "PENDING"
    BY <1>2, <2>1, Told DEF Outcomes
  <2>3. WentOut' = WentOut \cup {n}
    BY <1>8, <2>1
  <2>4. Promise!Retry(n)
    BY <1>7, <2>2, <2>3 DEF Promise!Retry
  <2>. QED BY <2>4 DEF Promise!Next, Promise!Requests
<1>10. CASE trans[i].serial \notin 1..MaxRequests
  BY <1>7, <1>8, <1>10
<1>. QED BY <1>9, <1>10

LEMMA NoHandleFails ==
    ASSUME TypeOK, SendInv, TypeOK', SendInv', TimeoutCheckNoHandle
    PROVE  Promise!Next
<1>1. \A k \in Slots : trans'[k] = IF trans[k].status = "PENDING"
                                   THEN AfterFailedRetry(trans[k]) ELSE trans[k]
  BY DEF TimeoutCheckNoHandle
<1>2. \A k \in Slots : /\ trans'[k].serial = trans[k].serial
                       /\ trans'[k].status = IF trans[k].status = "PENDING"
                                             THEN "FAILED" ELSE trans[k].status
  BY <1>1 DEF AfterFailedRetry, TypeOK, Transaction
<1>3. SlotsHold /\ WentOut' = WentOut
  BY <1>2 DEF SlotsHold, WentOut, TimeoutCheckNoHandle
<1>4. ASSUME NEW s \in 1..MaxRequests
      PROVE  OutcomeOf(s)' = IF OutcomeOf(s) = "PENDING" THEN "FAILED" ELSE OutcomeOf(s)
  <2>1. CASE \E k \in Slots : trans[k].serial = s
    BY <1>2, <1>3, <2>1, Told, ToldOfKept
  <2>2. CASE \A k \in Slots : trans[k].serial # s
    <3>1. OutcomeOf(s)' = OutcomeOf(s)
      BY <1>3, <2>2, ToldOfKept
    <3>2. OutcomeOf(s) # "PENDING"
      BY <2>2 DEF OutcomeOf
    <3>. QED BY <3>1, <3>2
  <2>. QED BY <2>1, <2>2
<1>5. Outcomes' = [s \in 1..MaxRequests |-> IF Outcomes[s] = "PENDING"
                                            THEN "FAILED" ELSE Outcomes[s]]
  BY <1>4 DEF Outcomes
<1>6. Promise!FailAll
  BY <1>3, <1>5 DEF Promise!FailAll, Promise!Requests
<1>. QED BY <1>6 DEF Promise!Next

LEMMA StepKeepsPromise ==
    ASSUME TypeOK, IdInv, SendInv, TypeOK', SendInv', [Next]_vars
    PROVE  [Promise!Next]_<<Outcomes, WentOut>>
<1>1. ASSUME UNCHANGED <<created, sends>>,
             \A k \in Slots : /\ trans'[k].serial = trans[k].serial
                              /\ trans'[k].status = trans[k].status
      PROVE  UNCHANGED <<Outcomes, WentOut>>
  <2>1. Outcomes' = Outcomes
    BY <1>1, NothingChanges DEF SlotsHold
  <2>2. WentOut' = WentOut
    BY <1>1 DEF WentOut
  <2>. QED BY <2>1, <2>2
<1>2. ASSUME NEW c \in Commands, NEW snt \in BOOLEAN, CreateAndSendRequestAsync(c, snt)
      PROVE  Promise!Next
  BY <1>2, CreateMakes
<1>3. CASE CreateRequestTooBig
  BY <1>3, TooBigRefuses
<1>4. ASSUME NEW p \in replies, ReceiveDiscard(p) PROVE UNCHANGED <<Outcomes, WentOut>>
  BY <1>1, <1>4 DEF ReceiveDiscard, Discarded, hostVars
<1>5. ASSUME NEW p \in replies, ReceiveDispatch(p)
      PROVE  [Promise!Next]_<<Outcomes, WentOut>>
  <2>1. PICK i \in Slots : trans' = [trans EXCEPT ![i].status = "COMPLETED"]
    BY <1>5 DEF ReceiveDispatch, Dispatched
  <2>2. /\ trans'[i].serial = trans[i].serial /\ trans'[i].status = "COMPLETED"
        /\ \A k \in Slots : k # i => trans'[k] = trans[k]
    BY <2>1 DEF TypeOK, Transaction
  <2>3. UNCHANGED <<created, sends>>
    BY <1>5 DEF ReceiveDispatch, Dispatched
  <2>. QED BY <2>2, <2>3, SlotChanges
<1>6. CASE TimeoutCheckNoHandle
  BY <1>6, NoHandleFails
<1>7. CASE TimeoutCheckBackoff \/ TimeoutCheckStart \/ TimeoutSlotSkip
  BY <1>1, <1>7 DEF TimeoutCheckBackoff, TimeoutCheckStart, TimeoutSlotSkip, hostVars
<1>8. CASE TimeoutSlotRetry
  BY <1>8, RetryRetries
<1>9. CASE TimeoutSlotRetryFails
  <2>1. PICK i \in Slots : i = scan
    BY <1>9 DEF TimeoutSlotRetryFails, TypeOK, Slots
  <2>2. /\ trans[i].status = "PENDING" /\ UNCHANGED <<created, sends>>
        /\ trans' = [trans EXCEPT ![i] = AfterFailedRetry(trans[i])]
    BY <1>9, <2>1 DEF TimeoutSlotRetryFails, Overdue
  <2>3. /\ trans'[i].serial = trans[i].serial /\ trans'[i].status = "FAILED"
        /\ \A k \in Slots : k # i => trans'[k] = trans[k]
    BY <2>2 DEF AfterFailedRetry, TypeOK, Transaction
  <2>. QED BY <2>2, <2>3, SlotChanges
<1>10. CASE TimeoutSlotGiveUp
  <2>1. PICK i \in Slots : i = scan
    BY <1>10 DEF TimeoutSlotGiveUp, TypeOK, Slots
  <2>2. /\ trans[i].status = "PENDING" /\ OutOfRetries(trans[i])
        /\ UNCHANGED <<created, sends>>
        /\ trans' = [trans EXCEPT ![i].status = "TIMEOUT"]
    BY <1>10, <2>1 DEF TimeoutSlotGiveUp, GivesUp, Overdue, OutOfRetries
  <2>3. /\ trans'[i].serial = trans[i].serial /\ trans'[i].status = "TIMEOUT"
        /\ \A k \in Slots : k # i => trans'[k] = trans[k]
    BY <2>2 DEF TypeOK, Transaction
  <2>. QED BY <2>2, <2>3, SlotChanges
<1>11. CASE Network
  BY <1>1, <1>11 DEF Network, DeviceAnswers, LoseRequest, LoseReply, hostVars
<1>12. CASE Tick
  <2>1. \A k \in Slots : trans'[k] = Aged(trans[k])
    BY <1>12 DEF Tick, ClockMoves
  <2>2. \A k \in Slots : /\ trans'[k].serial = trans[k].serial
                         /\ trans'[k].status = trans[k].status
    <3>1. \A t \in Transaction : Aged(t).serial = t.serial /\ Aged(t).status = t.status
      BY DEF Aged, Transaction
    <3>. QED BY <2>1, <3>1 DEF TypeOK
  <2>. QED BY <1>1, <1>12, <2>2 DEF Tick, ClockMoves
<1>13. CASE UNCHANGED vars
  BY <1>1, <1>13 DEF vars
<1>. QED
  BY <1>2, <1>3, <1>4, <1>5, <1>6, <1>7, <1>8, <1>9, <1>10, <1>11, <1>12, <1>13
  DEF Next, Create, TimeoutCheck, TimeoutSlot

\* The mailbox implements RequestOutcomes: to a client no open request is
\* dropped for a new one, none is reported TIMEOUT that was never sent, none
\* comes back, and only an answer changes a request that is resolved.
THEOREM PromiseKept == Spec => KeepsPromise
<1>1. Init => Promise!Init
  <2>1. ASSUME Init, NEW s \in 1..MaxRequests PROVE OutcomeOf(s) = "none"
    BY <2>1 DEF Init, OutcomeOf
  <2>2. Init => Outcomes = [s \in 1..MaxRequests |-> "none"]
    BY <2>1 DEF Outcomes
  <2>3. Init => WentOut = {}
    BY DEF Init, WentOut
  <2>. QED BY <2>2, <2>3 DEF Promise!Init, Promise!Requests
<1>2. TypeOK /\ IdInv /\ SendInv /\ TypeOK' /\ SendInv' /\ [Next]_vars
        => [Promise!Next]_Promise!promiseVars
  BY StepKeepsPromise DEF Promise!promiseVars
<1>. QED BY <1>1, <1>2, TypeCorrect, IdInvInvariant, SendInvInvariant, PTL
         DEF Spec, KeepsPromise, Promise!Spec
=============================================================================
