-------------------------- MODULE SendRequest_proof -------------------------
(***************************************************************************)
(* The request functions over the three interfaces: their types, how often  *)
(* a call transmits, and whose answer it takes, for every number of ids,    *)
(* retries, waits and calls.                                                *)
(***************************************************************************)
EXTENDS SendRequest, SequenceTheorems, TLAPS

(***************************************************************************)
(* Sequences and remainders.                                               *)
(***************************************************************************)
LEMMA SeqFacts ==
    ASSUME NEW S, NEW s \in Seq(S)
    PROVE  /\ \A e \in S : Append(s, e) \in Seq(S)
           /\ s # <<>> => Head(s) \in S /\ Tail(s) \in Seq(S)
  BY AppendProperties, HeadTailProperties

LEMMA SeqWidens ==
    ASSUME NEW S, NEW T, S \subseteq T, NEW s \in Seq(S)
    PROVE  s \in Seq(T)
<1>1. s \in [1..Len(s) -> T] /\ Len(s) \in Nat
  BY SMT
<1>. QED BY <1>1, SMT

\* An id is the number of its packet modulo the width of the counter.
LEMMA RestOfSum ==
    ASSUME NEW M \in Nat \ {0}, NEW a \in Nat, NEW n \in Nat
    PROVE  /\ a % M \in 0..M-1
           /\ ((a % M) + n) % M = (a + n) % M
<1> DEFINE q == a \div M   r == a % M
           p == (a + n) \div M   s == (a + n) % M
           k == (r + n) \div M   t == (r + n) % M
<1>1. q \in Int /\ r \in 0..M-1 /\ a = M * q + r
  BY SMT
<1>2. p \in Int /\ s \in 0..M-1 /\ a + n = M * p + s
  BY SMT
<1>3. k \in Int /\ t \in 0..M-1 /\ r + n = M * k + t
  BY <1>1, SMT
<1> HIDE DEF q, r, p, s, k, t
<1>4. M * p + s = M * q + (M * k + t)
  BY <1>1, <1>2, <1>3, SMT
<1>5. M * (p - q - k) = t - s
  <2>1. M * (p - q - k) = M * p - M * q - M * k
    BY <1>1, <1>2, <1>3, SMT
  <2>2. M * p \in Int /\ M * q \in Int /\ M * k \in Int
    BY <1>1, <1>2, <1>3, SMT
  <2>. QED BY <1>2, <1>3, <1>4, <2>1, <2>2, SMT
<1>6. p - q - k < 1 /\ p - q - k > -1
  BY <1>1, <1>2, <1>3, <1>5, SMT
<1>7. p - q - k = 0
  BY <1>1, <1>2, <1>3, <1>6, SMT
<1>8. s = t
  BY <1>2, <1>3, <1>5, <1>7, SMT
<1>9. a % M \in 0..M-1
  BY SMT
<1>. QED BY <1>8, <1>9 DEF s, t, r

\* Of two numbers with the same id, one is the other or a whole cycle older.
LEMMA SameIdApart ==
    ASSUME NEW M \in Nat \ {0}, NEW a \in Nat, NEW b \in Nat,
           a <= b, a % M = b % M
    PROVE  a = b \/ b - a >= M
<1> DEFINE q == a \div M   p == b \div M   r == a % M
<1>1. q \in Int /\ r \in 0..M-1 /\ a = M * q + r
  BY SMT
<1>2. p \in Int /\ b = M * p + r
  BY SMT
<1> HIDE DEF q, p, r
<1>3. b - a = M * (p - q)
  <2>1. M * (p - q) = M * p - M * q /\ M * p \in Int /\ M * q \in Int
    BY <1>1, <1>2, SMT
  <2>. QED BY <1>1, <1>2, <2>1, SMT
<1>4. CASE p - q >= 1
  BY <1>1, <1>2, <1>3, <1>4, SMT
<1>5. CASE p - q < 1
  <2>1. p - q > -1
    BY <1>1, <1>2, <1>3, SMT
  <2>2. p - q = 0
    BY <1>1, <1>2, <1>5, <2>1, SMT
  <2>. QED BY <1>3, <2>2, SMT
<1>. QED BY <1>1, <1>2, <1>4, <1>5, SMT

(***************************************************************************)
(* Over the network.                                                       *)
(***************************************************************************)
\* A packet carries an id handed out, and the number belonging to it.
Numbered(p, M) == p.number \in 1..issued /\ p.id = p.number % M

NetRequests == {p \in Eth!Request : Numbered(p, NetworkMod)}
NetAnswers  == {a \in Eth!Answer : a.number = 0 \/ (Numbered(a, NetworkMod) /\ a.number \in executed)}

NetIds ==
    /\ requestID = issued % NetworkMod
    /\ first <= issued /\ (pc = "wait" => first < issued)
    /\ pc # "idle" => result = "none"
    /\ pc = "wait" => op # "noResponse"
    /\ wire \subseteq NetRequests
    /\ rx \in Seq(NetAnswers)

\* Each attempt but the current one has been counted in retries2.
NetAttempts ==
    /\ sent <= sendRetries + 2
    /\ pc # "idle" => retries2 <= sendRetries + 1
    /\ pc = "send" => sent = retries2
    /\ pc = "wait" => sent = retries2 + 1

NetInv == Eth!TypeOK /\ NetIds /\ Eth!AcceptsOwnAnswer /\ NetAttempts

LEMMA NetTypeInit == SendInit /\ connectionType = "network" => NetInv
<1> SUFFICES ASSUME SendInit, connectionType = "network" PROVE NetInv
  OBVIOUS
<1>1. Strays \subseteq Eth!Answer /\ \A a \in Strays : a.number = 0
  BY SendRequestAssumption DEF Eth!Answer
<1>2. rx \in Seq(Strays)
  <2>1. rx = <<>> \/ \E a \in Strays : rx = <<a>>
    BY DEF SendInit, Eth!Init
  <2>2. <<>> \in Seq(Strays) /\ \A a \in Strays : <<a>> \in Seq(Strays)
    OBVIOUS
  <2>. QED BY <2>1, <2>2
<1>3. Strays \subseteq NetAnswers
  BY <1>1 DEF NetAnswers
<1>4. rx \in Seq(Eth!Answer) /\ rx \in Seq(NetAnswers)
  BY <1>1, <1>2, <1>3, SeqWidens
<1>5. 0 % NetworkMod = 0 /\ 0 \in 0..(NetworkMod - 1)
  BY SendRequestAssumption, SMT
<1>6. Eth!TypeOK
  BY <1>4, <1>5, SMT DEF SendInit, Eth!Init, Eth!TypeOK, Eth!Ops
<1>7. NetIds
  BY <1>4, <1>5, SMT DEF SendInit, Eth!Init, NetIds
<1>8. NetAttempts
  BY SendRequestAssumption, SMT DEF SendInit, Eth!Init, NetAttempts
<1>9. Eth!AcceptsOwnAnswer
  BY SMT DEF SendInit, Eth!Init, Eth!AcceptsOwnAnswer
<1>. QED BY <1>6, <1>7, <1>8, <1>9 DEF NetInv

\* Sending hands out the ids of a packet.
LEMMA NetIdAfter ==
    ASSUME NetInv, requestID' = Eth!IdAfter(Eth!Parts), issued' = issued + Eth!Parts
    PROVE  /\ requestID' \in 0..(NetworkMod - 1) /\ requestID' = issued' % NetworkMod
           /\ issued' \in Nat /\ issued < issued'
<1>1. Eth!Parts \in Nat /\ Eth!Parts > 0
  BY FastUsbAssumption, SMT DEF Eth!Parts
<1>2. issued \in Nat /\ requestID = issued % NetworkMod
  BY DEF NetInv, NetIds, Eth!TypeOK
<1>3. NetworkMod \in Nat \ {0}
  BY SendRequestAssumption, SMT
<1>4. issued' \in Nat /\ issued < issued'
  BY <1>1, <1>2, SMT
<1>5. requestID' = issued' % NetworkMod
  BY <1>1, <1>2, <1>3, RestOfSum DEF Eth!IdAfter
<1>. QED BY <1>3, <1>4, <1>5, RestOfSum

\* What was numbered stays so while more ids are handed out.
LEMMA NetWidens ==
    ASSUME issued \in Nat, issued' \in Nat, issued <= issued', executed \subseteq executed'
    PROVE  NetRequests \subseteq NetRequests' /\ NetAnswers \subseteq NetAnswers'
  BY SMT DEF NetRequests, NetAnswers, Numbered

LEMMA NetKept ==
    ASSUME NetInv, issued' \in Nat, issued <= issued', executed \subseteq executed'
    PROVE  /\ NetRequests \subseteq NetRequests' /\ wire \subseteq NetRequests'
           /\ rx \in Seq(NetAnswers')
<1>1. issued \in Nat /\ wire \subseteq NetRequests /\ rx \in Seq(NetAnswers)
  BY DEF NetInv, NetIds, Eth!TypeOK
<1>2. NetRequests \subseteq NetRequests' /\ NetAnswers \subseteq NetAnswers'
  BY <1>1, NetWidens
<1>. QED BY <1>1, <1>2, SeqWidens

LEMMA NetCall == NetInv /\ (\E o \in Eth!Ops : Eth!Call(o)) => NetInv'
<1> SUFFICES ASSUME NetInv, NEW o \in Eth!Ops, Eth!Call(o) PROVE NetInv'
  OBVIOUS
<1>1. issued' = issued /\ executed' = executed /\ wire' = wire /\ rx' = rx /\ requestID' = requestID
  BY DEF Eth!Call
<1>2. issued \in Nat
  BY DEF NetInv, Eth!TypeOK
<1>3. Eth!TypeOK'
  BY <1>1, SMT DEF Eth!Call, Eth!TypeOK, NetInv
<1>4. wire' \subseteq NetRequests' /\ rx' \in Seq(NetAnswers')
  BY <1>1, <1>2, NetKept, SMT
<1>5. NetIds'
  BY <1>1, <1>2, <1>4, SMT DEF Eth!Call, NetInv, NetIds
<1>6. NetAttempts'
  BY SendRequestAssumption, SMT DEF Eth!Call, NetAttempts
<1>7. Eth!AcceptsOwnAnswer'
  BY DEF Eth!Call, Eth!AcceptsOwnAnswer
<1>. QED BY <1>3, <1>5, <1>6, <1>7 DEF NetInv

LEMMA NetSend == NetInv /\ Eth!Send => NetInv'
<1> SUFFICES ASSUME NetInv, Eth!Send PROVE NetInv'
  OBVIOUS
<1>1. /\ requestID' \in 0..(NetworkMod - 1) /\ requestID' = issued' % NetworkMod
      /\ issued' \in Nat /\ issued < issued' /\ issued \in Nat
  BY NetIdAfter DEF Eth!Send, NetInv, Eth!TypeOK
<1>2. rx' = rx /\ executed' = executed
  BY DEF Eth!Send
<1>3. wire \subseteq NetRequests' /\ rx' \in Seq(NetAnswers')
  BY <1>1, <1>2, NetKept, SMT
<1> DEFINE p == [id |-> requestID', number |-> issued']
<1>4. p \in Eth!Request /\ p \in NetRequests'
  BY <1>1, SMT DEF Eth!Request, NetRequests, Numbered
<1>5. wire' = wire \cup {p}
  BY DEF Eth!Send
<1> HIDE DEF p
<1>6. /\ pc = "send" /\ pc' \in {"idle", "send", "wait"} /\ sent' = sent + 1
      /\ result' \in {result, "PK_ERR_TRANSFER"}
      /\ retries2' \in {retries2, retries2 + 1}
      /\ pc' # "idle" => result' = result
      /\ pc' = "wait" => retries2' = retries2 /\ op # "noResponse"
      /\ pc' = "send" => retries2' = retries2 + 1 /\ ~(retries2 > sendRetries)
  BY DEF Eth!Send, Eth!NextAttempt, Eth!Return, Eth!SendsExhausted
<1>7. UNCHANGED <<op, call, first, retries1, accepted, heard>>
  BY DEF Eth!Send
<1>8. Eth!TypeOK'
  BY <1>1, <1>2, <1>4, <1>5, <1>6, <1>7, SMT DEF Eth!TypeOK, NetInv
<1>9. NetIds'
  BY <1>1, <1>3, <1>4, <1>5, <1>6, <1>7, SMT DEF NetInv, NetIds, Eth!TypeOK
<1>10. NetAttempts'
  <2>1. sent \in Nat /\ retries2 \in Nat /\ sendRetries \in Nat
    BY SendRequestAssumption DEF NetInv, Eth!TypeOK
  <2>2. sent = retries2 /\ retries2 <= sendRetries + 1
    BY <1>6 DEF NetInv, NetAttempts
  <2>3. sent' <= sendRetries + 2
    BY <1>6, <2>1, <2>2, SMT
  <2>4. pc' # "idle" => retries2' <= sendRetries + 1
    BY <1>6, <2>1, <2>2, SMT
  <2>5. (pc' = "send" => sent' = retries2') /\ (pc' = "wait" => sent' = retries2' + 1)
    BY <1>6, <2>2
  <2>. QED BY <2>3, <2>4, <2>5 DEF NetAttempts
<1>11. Eth!AcceptsOwnAnswer'
  <2>1. result' # "PK_OK"
    BY <1>6 DEF NetInv, NetIds
  <2>. QED BY <2>1 DEF Eth!AcceptsOwnAnswer
<1>. QED BY <1>8, <1>9, <1>10, <1>11 DEF NetInv

LEMMA NetSendFails == NetInv /\ Eth!SendFails => NetInv'
<1> SUFFICES ASSUME NetInv, Eth!SendFails PROVE NetInv'
  OBVIOUS
<1>1. /\ requestID' \in 0..(NetworkMod - 1) /\ requestID' = issued' % NetworkMod
      /\ issued' \in Nat /\ issued < issued' /\ issued \in Nat
  BY NetIdAfter DEF Eth!SendFails, NetInv, Eth!TypeOK
<1>2. UNCHANGED <<op, call, first, sent, retries1, retries2, accepted, heard, wire, executed, rx>>
  BY DEF Eth!SendFails, Eth!netVars
<1>3. pc' = "idle" /\ result' = "-1"
  BY DEF Eth!SendFails, Eth!Return
<1>4. wire' \subseteq NetRequests' /\ rx' \in Seq(NetAnswers')
  BY <1>1, <1>2, NetKept, SMT
<1>5. Eth!TypeOK'
  BY <1>1, <1>2, <1>3, SMT DEF Eth!TypeOK, NetInv
<1>6. NetIds'
  BY <1>1, <1>2, <1>3, <1>4, SMT DEF NetInv, NetIds, Eth!TypeOK
<1>7. NetAttempts'
  BY <1>2, <1>3, SMT DEF NetInv, NetAttempts
<1>8. Eth!AcceptsOwnAnswer'
  BY <1>3 DEF Eth!AcceptsOwnAnswer
<1>. QED BY <1>5, <1>6, <1>7, <1>8 DEF NetInv

\* What leaving the inner loop does, or staying in it.
LEMMA NetWaits ==
    ASSUME NetInv, pc = "wait", NEW limit,
           Eth!NextAttempt \/ Eth!FailedWait(limit),
           UNCHANGED <<op, call, requestID, issued, first, sent, accepted, wire, executed>>,
           retries1' \in Nat, heard' \subseteq Nat, rx' \in Seq(Eth!Answer), rx' \in Seq(NetAnswers)
    PROVE  NetInv'
<1>1. /\ pc' \in {"idle", "send", "wait"} /\ result' \in {result, "PK_ERR_TRANSFER"}
      /\ pc' # "idle" => result' = result
      /\ retries2' \in {retries2, retries2 + 1}
      /\ pc' = "wait" => retries2' = retries2
      /\ pc' = "send" => retries2' = retries2 + 1 /\ ~(retries2 > sendRetries)
  BY DEF Eth!FailedWait, Eth!NextAttempt, Eth!Return, Eth!SendsExhausted
<1>2. Eth!TypeOK'
  BY <1>1, SMT DEF Eth!TypeOK, NetInv
<1>3. NetRequests' = NetRequests /\ NetAnswers' = NetAnswers
  BY DEF NetRequests, NetAnswers, Numbered
<1>4. NetIds'
  BY <1>1, <1>3 DEF NetInv, NetIds
<1>5. NetAttempts'
  <2>1. sent \in Nat /\ retries2 \in Nat /\ sendRetries \in Nat
    BY SendRequestAssumption DEF NetInv, Eth!TypeOK
  <2>2. sent = retries2 + 1 /\ retries2 <= sendRetries + 1
    BY DEF NetInv, NetAttempts
  <2>3. sent' = sent /\ sent' <= sendRetries + 2
    BY DEF NetInv, NetAttempts
  <2>4. pc' # "idle" => retries2' <= sendRetries + 1
    BY <1>1, <2>1, <2>2, SMT
  <2>5. (pc' = "send" => sent' = retries2') /\ (pc' = "wait" => sent' = retries2' + 1)
    BY <1>1, <2>2, <2>3
  <2>. QED BY <2>3, <2>4, <2>5 DEF NetAttempts
<1>6. Eth!AcceptsOwnAnswer'
  <2>1. result' # "PK_OK"
    BY <1>1 DEF NetInv, NetIds
  <2>. QED BY <2>1 DEF Eth!AcceptsOwnAnswer
<1>. QED BY <1>2, <1>4, <1>5, <1>6 DEF NetInv

LEMMA NetSelectTimeout == NetInv /\ Eth!SelectTimeout => NetInv'
<1> SUFFICES ASSUME NetInv, Eth!SelectTimeout PROVE NetInv'
  OBVIOUS
<1>1. /\ pc = "wait" /\ Eth!FailedWait(selectRetries)
      /\ UNCHANGED <<op, call, requestID, issued, first, sent, accepted, heard, wire, executed, rx>>
  BY DEF Eth!SelectTimeout, Eth!netVars
<1>2. retries1' \in Nat /\ heard' \subseteq Nat /\ rx' \in Seq(Eth!Answer)
  BY <1>1, SMT DEF Eth!FailedWait, NetInv, Eth!TypeOK
<1>3. rx' \in Seq(NetAnswers)
  BY <1>1 DEF NetInv, NetIds
<1>. QED BY <1>1, <1>2, <1>3, NetWaits

LEMMA NetReceive == NetInv /\ Eth!Receive => NetInv'
<1> SUFFICES ASSUME NetInv, Eth!Receive PROVE NetInv'
  OBVIOUS
<1> DEFINE a == Head(rx)
<1>1. /\ pc = "wait" /\ rx # <<>> /\ rx' = Tail(rx) /\ heard' = heard \cup {a.number}
      /\ UNCHANGED <<op, call, requestID, issued, first, sent, wire, executed>>
  BY DEF Eth!Receive
<1>2. a \in NetAnswers /\ rx' \in Seq(NetAnswers)
  BY <1>1, SeqFacts DEF NetInv, NetIds
<1>3. a \in Eth!Answer /\ rx' \in Seq(Eth!Answer)
  BY <1>1, SeqFacts DEF NetInv, Eth!TypeOK
<1>4. heard' \subseteq Nat /\ a.number \in Nat
  BY <1>1, <1>3 DEF NetInv, Eth!TypeOK, Eth!Answer
<1>5. CASE Eth!Matches(a) /\ a.intact /\ Eth!Return("PK_OK") /\ accepted' = a.number
           /\ UNCHANGED <<retries1, retries2>>
  <2>1. pc' = "idle" /\ result' = "PK_OK"
    BY <1>5 DEF Eth!Return
  <2>2. Eth!TypeOK'
    BY <1>1, <1>3, <1>4, <1>5, <2>1, SMT DEF NetInv, Eth!TypeOK
  <2>3. NetRequests' = NetRequests /\ NetAnswers' = NetAnswers
    BY <1>1 DEF NetRequests, NetAnswers, Numbered
  <2>4. NetIds'
    BY <1>1, <1>2, <2>1, <2>3 DEF NetInv, NetIds
  <2>5. NetAttempts'
    BY <1>1, <2>1 DEF NetInv, NetAttempts
  <2>6. Eth!AcceptsOwnAnswer'
    <3>1. CASE a.number = 0
      BY <1>5, <3>1 DEF Eth!AcceptsOwnAnswer
    <3>2. CASE a.number # 0
      <4>1. a.number \in 1..issued /\ a.id = a.number % NetworkMod /\ a.number \in executed
        BY <1>2, <3>2 DEF NetAnswers, Numbered
      <4>2. a.number % NetworkMod = issued % NetworkMod
        BY <1>5, <4>1 DEF Eth!Matches, NetInv, NetIds
      <4>3. issued \in Nat /\ NetworkMod \in Nat \ {0}
        BY SendRequestAssumption, SMT DEF NetInv, Eth!TypeOK
      <4>4. a.number = issued \/ issued - a.number >= NetworkMod
        BY <4>1, <4>2, <4>3, SameIdApart, SMT
      <4>5. first < issued /\ issued' = issued /\ first' = first /\ executed' = executed
            /\ accepted' = a.number
        BY <1>1, <1>5 DEF NetInv, NetIds
      <4>6. CASE a.number = issued
        BY <4>1, <4>3, <4>5, <4>6, SMT DEF Eth!AcceptsOwnAnswer, NetInv, Eth!TypeOK
      <4>7. CASE issued - a.number >= NetworkMod
        BY <4>5, <4>7 DEF Eth!AcceptsOwnAnswer
      <4>. QED BY <4>4, <4>6, <4>7
    <3>. QED BY <3>1, <3>2
  <2>. QED BY <2>2, <2>4, <2>5, <2>6 DEF NetInv
<1>6. CASE Eth!NextAttempt /\ UNCHANGED <<retries1, accepted>>
  <2>1. retries1' \in Nat
    BY <1>6 DEF NetInv, Eth!TypeOK
  <2>. QED BY <1>1, <1>2, <1>3, <1>4, <1>6, <2>1, NetWaits
<1>7. CASE Eth!FailedWait(readRetries) /\ UNCHANGED accepted
  <2>1. retries1' \in Nat
    BY <1>7, SMT DEF Eth!FailedWait, NetInv, Eth!TypeOK
  <2>. QED BY <1>1, <1>2, <1>3, <1>4, <1>7, <2>1, NetWaits
<1>. QED BY <1>5, <1>6, <1>7 DEF Eth!Receive

LEMMA NetDevice ==
    NetInv /\ (\E p \in wire : Eth!DeviceExecutes(p) \/ Eth!LoseRequest(p) \/ Eth!LoseAnswer(p))
    => NetInv'
<1> SUFFICES ASSUME NetInv, NEW p \in wire,
                    Eth!DeviceExecutes(p) \/ Eth!LoseRequest(p) \/ Eth!LoseAnswer(p)
             PROVE  NetInv'
  OBVIOUS
<1>1. /\ UNCHANGED <<pc, op, call, requestID, issued, first, sent, retries1, retries2, result,
                     accepted, heard>>
      /\ wire' = wire \ {p}
      /\ executed' \in {executed, executed \cup {p.number}}
      /\ \/ rx' = rx
         \/ /\ executed' = executed \cup {p.number}
            /\ \E ok \in BOOLEAN :
                 rx' = Append(rx, [id |-> p.id, number |-> p.number, intact |-> ok])
  BY DEF Eth!DeviceExecutes, Eth!LoseRequest, Eth!LoseAnswer
<1>2. p \in Eth!Request /\ Numbered(p, NetworkMod)
  BY DEF NetInv, NetIds, NetRequests
<1>3. issued \in Nat /\ executed \subseteq executed'
  BY <1>1 DEF NetInv, Eth!TypeOK
<1>4. NetRequests \subseteq NetRequests' /\ wire \subseteq NetRequests' /\ rx \in Seq(NetAnswers')
  BY <1>1, <1>3, NetKept, SMT
<1>5. ASSUME NEW ok \in BOOLEAN, executed' = executed \cup {p.number}
      PROVE  /\ [id |-> p.id, number |-> p.number, intact |-> ok] \in Eth!Answer
             /\ [id |-> p.id, number |-> p.number, intact |-> ok] \in NetAnswers'
  BY <1>1, <1>2, <1>5 DEF Eth!Request, Eth!Answer, NetAnswers, Numbered
<1>6. rx' \in Seq(NetAnswers') /\ rx' \in Seq(Eth!Answer)
  <2>1. rx \in Seq(Eth!Answer)
    BY DEF NetInv, Eth!TypeOK
  <2>. QED BY <1>1, <1>4, <1>5, <2>1, SeqFacts
<1>7. Eth!TypeOK'
  <2>1. executed' \subseteq Nat
    BY <1>1, <1>2 DEF NetInv, Eth!TypeOK, Eth!Request
  <2>. QED BY <1>1, <1>6, <2>1 DEF NetInv, Eth!TypeOK
<1>8. NetIds'
  BY <1>1, <1>4, <1>6 DEF NetInv, NetIds
<1>9. NetAttempts'
  BY <1>1 DEF NetInv, NetAttempts
<1>10. Eth!AcceptsOwnAnswer'
  BY <1>1, <1>3 DEF NetInv, Eth!AcceptsOwnAnswer
<1>. QED BY <1>7, <1>8, <1>9, <1>10 DEF NetInv

LEMMA NetStep == NetInv /\ Eth!Next => NetInv'
<1>1. NetInv /\ (Eth!Send \/ Eth!SendFails \/ Eth!SelectTimeout \/ Eth!Receive) => NetInv'
  BY NetSend, NetSendFails, NetSelectTimeout, NetReceive
<1>. QED BY <1>1, NetCall, NetDevice DEF Eth!Next, Eth!Caller

(***************************************************************************)
(* A call fails only behind.  The first thing it reads is the answer to its *)
(* own first attempt, unless an older one lay before that answer: until     *)
(* then everything on the way is older than the call or that very attempt.  *)
(* An answer to the attempt that matches and is intact ends the call.       *)
(***************************************************************************)
Unanswered == pc # "idle" /\ op # "noResponse" /\ heard = {} /\ retries1 = 0
OfThisAttempt(p) == p.number <= first \/ p.number = issued
AttemptPackets == {p \in NetRequests : OfThisAttempt(p)}
AttemptAnswers == {a \in NetAnswers : OfThisAttempt(a)}

NetBehind ==
    /\ heard # {} => \/ result = "PK_OK" \/ retries1 > 0
                     \/ \E n \in heard : n <= first
    /\ Unanswered /\ pc = "send" => first = issued
    /\ Unanswered /\ pc = "wait" => wire \subseteq AttemptPackets /\ rx \in Seq(AttemptAnswers)

LEMMA BehindInit == SendInit => NetBehind
  BY DEF SendInit, Init, Eth!Init, NetBehind, Unanswered

LEMMA BehindCaller ==
    ASSUME NetInv, NetBehind, Eth!Caller \/ (\E o \in Eth!Ops : Eth!Call(o))
    PROVE  NetBehind'
<1>1. ASSUME NEW o \in Eth!Ops, Eth!Call(o) PROVE NetBehind'
  BY <1>1 DEF Eth!Call, NetBehind, Unanswered
<1>2. CASE Eth!Send
  <2>1. /\ pc = "send" /\ heard' = heard /\ retries1' = retries1 /\ first' = first /\ op' = op
        /\ rx' = rx /\ executed' = executed
        /\ wire' = wire \cup {[id |-> requestID', number |-> issued']}
        /\ op # "noResponse" => pc' = "wait"
    BY <1>2 DEF Eth!Send
  <2>2. result = "none"
    BY <2>1 DEF NetInv, NetIds
  <2>3. /\ requestID' = issued' % NetworkMod /\ requestID' \in 0..(NetworkMod - 1)
        /\ issued' \in Nat /\ issued \in Nat /\ issued < issued'
    BY <1>2, NetIdAfter DEF Eth!Send, NetInv, Eth!TypeOK
  <2>4. ASSUME Unanswered' PROVE wire' \subseteq AttemptPackets' /\ rx' \in Seq(AttemptAnswers')
    <3>1. Unanswered /\ first = issued
      BY <2>1, <2>4 DEF Unanswered, NetBehind
    <3>2. NetRequests \subseteq NetRequests' /\ NetAnswers \subseteq NetAnswers'
      BY <2>1, <2>3, NetWidens
    <3>3. NetRequests \subseteq AttemptPackets' /\ NetAnswers \subseteq AttemptAnswers'
      BY <2>1, <2>3, <3>1, <3>2
      DEF NetRequests, NetAnswers, Numbered, AttemptPackets, AttemptAnswers, OfThisAttempt
    <3>4. [id |-> requestID', number |-> issued'] \in AttemptPackets'
      BY <2>3, SMT DEF AttemptPackets, NetRequests, Eth!Request, Numbered, OfThisAttempt
    <3>5. wire \subseteq NetRequests /\ rx \in Seq(NetAnswers)
      BY DEF NetInv, NetIds
    <3>6. rx \in Seq(AttemptAnswers')
      BY <3>3, <3>5, SeqWidens
    <3>. QED BY <2>1, <3>3, <3>4, <3>5, <3>6
  <2>5. Unanswered' => pc' # "send"
    BY <2>1 DEF Unanswered
  <2>. QED BY <2>1, <2>2, <2>4, <2>5 DEF NetBehind
<1>3. CASE Eth!SendFails
  <2>1. pc = "send" /\ pc' = "idle" /\ UNCHANGED <<heard, retries1, first>>
    BY <1>3 DEF Eth!SendFails, Eth!Return
  <2>2. result = "none"
    BY <2>1 DEF NetInv, NetIds
  <2>. QED BY <2>1, <2>2 DEF NetBehind, Unanswered
<1>4. CASE Eth!SelectTimeout
  <2>1. retries1' = retries1 + 1 /\ retries1 \in Nat
    BY <1>4 DEF Eth!SelectTimeout, Eth!FailedWait, NetInv, Eth!TypeOK
  <2>2. retries1' > 0
    BY <2>1, SMT
  <2>. QED BY <2>2 DEF NetBehind, Unanswered
<1>5. CASE Eth!Receive
  <2> DEFINE a == Head(rx)
  <2>1. /\ pc = "wait" /\ rx # <<>> /\ heard' = heard \cup {a.number}
        /\ first' = first /\ op' = op
    BY <1>5 DEF Eth!Receive
  <2>2. result = "none" /\ a \in NetAnswers
    BY <2>1, SeqFacts DEF NetInv, NetIds
  <2>3. ~Unanswered'
    BY <2>1 DEF Unanswered
  <2>4. CASE Eth!Matches(a) /\ a.intact /\ Eth!Return("PK_OK")
    <3>1. result' = "PK_OK"
      BY <2>4 DEF Eth!Return
    <3>. QED BY <2>3, <3>1 DEF NetBehind
  <2>5. CASE Eth!FailedWait(readRetries)
    <3>1. retries1' = retries1 + 1 /\ retries1 \in Nat
      BY <2>5 DEF Eth!FailedWait, NetInv, Eth!TypeOK
    <3>2. retries1' > 0
      BY <3>1, SMT
    <3>. QED BY <2>3, <3>2 DEF NetBehind
  <2>6. CASE ~Eth!Matches(a) /\ UNCHANGED retries1
    <3>1. CASE heard # {}
      BY <2>1, <2>2, <2>3, <2>6, <3>1 DEF NetBehind
    <3>2. CASE heard = {} /\ retries1 = 0 /\ op # "noResponse"
      <4>1. a \in AttemptAnswers
        BY <2>1, <3>2, SeqFacts DEF NetBehind, Unanswered
      <4>2. a.number # issued
        <5>1. a.number = 0 \/ (a.number \in 1..issued /\ a.id = a.number % NetworkMod)
          BY <2>2 DEF NetAnswers, Numbered
        <5>2. requestID = issued % NetworkMod /\ first < issued /\ first \in Nat
          BY <2>1 DEF NetInv, NetIds, Eth!TypeOK
        <5>3. a.id # requestID
          BY <2>6 DEF Eth!Matches
        <5>4. issued # 0
          BY <5>2, SMT
        <5>. QED BY <5>1, <5>2, <5>3, <5>4
      <4>3. a.number <= first'
        BY <2>1, <4>1, <4>2 DEF AttemptAnswers, OfThisAttempt
      <4>. QED BY <2>1, <2>3, <4>3 DEF NetBehind
    <3>3. CASE retries1 # 0
      <4>1. retries1' > 0
        BY <2>6, <3>3, SMT DEF NetInv, Eth!TypeOK
      <4>. QED BY <2>3, <4>1 DEF NetBehind
    <3>4. op # "noResponse"
      BY <2>1 DEF NetInv, NetIds
    <3>. QED BY <3>1, <3>2, <3>3, <3>4
  <2>. QED BY <1>5, <2>4, <2>5, <2>6 DEF Eth!Receive
<1>. QED BY <1>1, <1>2, <1>3, <1>4, <1>5 DEF Eth!Caller

LEMMA BehindDevice ==
    ASSUME NetInv, NetBehind, NEW p \in wire,
           Eth!DeviceExecutes(p) \/ Eth!LoseRequest(p) \/ Eth!LoseAnswer(p)
    PROVE  NetBehind'
<1>1. /\ UNCHANGED <<pc, op, issued, first, retries1, result, heard>>
      /\ wire' \subseteq wire
      /\ executed' \in {executed, executed \cup {p.number}}
      /\ \/ rx' = rx
         \/ /\ executed' = executed \cup {p.number}
            /\ \E ok \in BOOLEAN :
                 rx' = Append(rx, [id |-> p.id, number |-> p.number, intact |-> ok])
  BY DEF Eth!DeviceExecutes, Eth!LoseRequest, Eth!LoseAnswer
<1>2. issued \in Nat /\ executed \subseteq executed'
  BY <1>1 DEF NetInv, Eth!TypeOK
<1>3. NetRequests \subseteq NetRequests' /\ NetAnswers \subseteq NetAnswers'
  BY <1>1, <1>2, NetWidens
<1>4. AttemptPackets \subseteq AttemptPackets' /\ AttemptAnswers \subseteq AttemptAnswers'
  BY <1>1, <1>3 DEF AttemptPackets, AttemptAnswers, OfThisAttempt
<1>5. ASSUME Unanswered', pc' = "wait"
      PROVE  wire' \subseteq AttemptPackets' /\ rx' \in Seq(AttemptAnswers')
  <2>1. wire \subseteq AttemptPackets /\ rx \in Seq(AttemptAnswers)
    BY <1>1, <1>5 DEF Unanswered, NetBehind
  <2>2. wire' \subseteq AttemptPackets' /\ rx \in Seq(AttemptAnswers')
    BY <1>1, <1>4, <2>1, SeqWidens
  <2>3. ASSUME NEW ok \in BOOLEAN, executed' = executed \cup {p.number}
        PROVE  [id |-> p.id, number |-> p.number, intact |-> ok] \in AttemptAnswers'
    <3>1. p \in Eth!Request /\ Numbered(p, NetworkMod) /\ OfThisAttempt(p)
      BY <2>1 DEF AttemptPackets, NetRequests
    <3>. QED BY <1>1, <2>3, <3>1
         DEF AttemptAnswers, NetAnswers, Numbered, OfThisAttempt, Eth!Answer, Eth!Request
  <2>. QED BY <1>1, <2>2, <2>3, SeqFacts
<1>. QED BY <1>1, <1>5 DEF NetBehind, Unanswered

(***************************************************************************)
(* Over USB, by HID and by the bulk endpoints.                             *)
(***************************************************************************)
UsbRequest  == [id : 0..(IdMod-1), number : Nat, awaited : BOOLEAN]
UsbRequests == {q \in UsbRequest : Numbered(q, IdMod)}
UsbReports  == {r \in Report : Numbered(r, IdMod)}

UsbIds ==
    /\ requestID = issued % IdMod
    /\ first <= issued /\ (pc = "read" => first < issued)
    /\ pc # "idle" => result = "none" /\ accepted = 0
    /\ toDevice \in Seq(UsbRequests)
    /\ reports \in Seq(UsbReports)

\* Every write but that of the multi-part function counts in retries.
UsbAttempts ==
    /\ sent <= 2
    /\ pc # "idle" => sent <= retries
    /\ connectionType = "fast" /\ op = "big" => sent <= 1 /\ (pc = "write" => sent = 0)

WaitsForNone == connectionType = "fast" /\ op = "noResponse" /\ accepted = 0

UsbInv == TypeOK /\ UsbIds /\ UsbAttempts /\ (AcceptsOwnAnswer \/ WaitsForNone)

LEMMA UsbInit == SendInit => UsbInv
<1> SUFFICES ASSUME SendInit PROVE UsbInv
  OBVIOUS
<1>1. 0 % IdMod = 0 /\ 0 \in 0..(IdMod - 1)
  BY HidAssumption, SMT
<1>2. toDevice = <<>> /\ reports = <<>>
  BY DEF SendInit, Init
<1>3. /\ toDevice \in Seq(UsbRequests) /\ reports \in Seq(UsbReports)
      /\ toDevice \in Seq(UsbRequest) /\ reports \in Seq(Report)
  BY <1>2
<1>4. TypeOK
  BY <1>1, <1>3, SMT DEF SendInit, Init, TypeOK, Ops, UsbRequest
<1>5. UsbIds
  BY <1>1, <1>3, SMT DEF SendInit, Init, UsbIds
<1>6. UsbAttempts
  BY SMT DEF SendInit, Init, UsbAttempts
<1>7. AcceptsOwnAnswer
  BY DEF SendInit, Init, AcceptsOwnAnswer
<1>. QED BY <1>4, <1>5, <1>6, <1>7 DEF UsbInv

LEMMA UsbKept ==
    ASSUME UsbInv, issued' \in Nat, issued <= issued'
    PROVE  toDevice \in Seq(UsbRequests') /\ reports \in Seq(UsbReports')
<1>1. issued \in Nat /\ toDevice \in Seq(UsbRequests) /\ reports \in Seq(UsbReports)
  BY DEF UsbInv, UsbIds, TypeOK
<1>2. UsbRequests \subseteq UsbRequests' /\ UsbReports \subseteq UsbReports'
  BY <1>1, SMT DEF UsbRequests, UsbReports, Numbered
<1>. QED BY <1>1, <1>2, SeqWidens

LEMMA UsbCall ==
    UsbInv /\ (\E o \in Ops : Call(o)) /\ connectionType' = connectionType => UsbInv'
<1> SUFFICES ASSUME UsbInv, NEW o \in Ops, Call(o), connectionType' = connectionType
             PROVE  UsbInv'
  OBVIOUS
<1>1. /\ UNCHANGED <<issued, requestID, toDevice, reports, plugged>>
      /\ pc' = "write" /\ op' = o /\ call' = call + 1 /\ retries' = 0 /\ waits' = 0
      /\ sent' = 0 /\ first' = issued /\ result' = "none" /\ accepted' = 0
  BY DEF Call, deviceVars
<1>2. issued \in Nat
  BY DEF UsbInv, TypeOK
<1>3. toDevice' \in Seq(UsbRequests') /\ reports' \in Seq(UsbReports')
  BY <1>1, <1>2, UsbKept, SMT
<1>4. TypeOK'
  BY <1>1, SMT DEF TypeOK, UsbInv
<1>5. UsbIds'
  BY <1>1, <1>2, <1>3, SMT DEF UsbInv, UsbIds
<1>6. UsbAttempts'
  BY <1>1, SMT DEF UsbAttempts
<1>7. AcceptsOwnAnswer'
  BY <1>1 DEF AcceptsOwnAnswer
<1>. QED BY <1>4, <1>5, <1>6, <1>7 DEF UsbInv

LEMMA UsbCallBig == UsbInv /\ CallBig /\ connectionType' = "usb" => UsbInv'
<1> SUFFICES ASSUME UsbInv, CallBig, connectionType' = "usb" PROVE UsbInv'
  OBVIOUS
<1>1. /\ UNCHANGED <<issued, requestID, toDevice, reports, plugged>>
      /\ pc' = "idle" /\ op' = "big" /\ call' = call + 1 /\ retries' = 0 /\ waits' = 0
      /\ sent' = 0 /\ first' = issued /\ result' = "PK_ERR_TRANSFER" /\ accepted' = 0
  BY DEF CallBig, Return, deviceVars
<1>2. issued \in Nat
  BY DEF UsbInv, TypeOK
<1>3. toDevice' \in Seq(UsbRequests') /\ reports' \in Seq(UsbReports')
  BY <1>1, <1>2, UsbKept, SMT
<1>4. TypeOK'
  BY <1>1, SMT DEF TypeOK, UsbInv, Ops
<1>5. UsbIds'
  BY <1>1, <1>2, <1>3, SMT DEF UsbInv, UsbIds
<1>6. UsbAttempts'
  BY <1>1, SMT DEF UsbAttempts
<1>7. AcceptsOwnAnswer'
  BY <1>1 DEF AcceptsOwnAnswer
<1>. QED BY <1>4, <1>5, <1>6, <1>7 DEF UsbInv

\* A turn of the sending loop that hands out n ids, written or not.
LEMMA UsbWrites ==
    ASSUME UsbInv, pc = "write", MoreTries(retries), NEW n \in Nat \ {0},
           requestID' = (requestID + n) % IdMod, issued' = issued + n,
           sent' = sent + 1, waits' = 0, retries' \in {retries + 1, retries + 2},
           UNCHANGED <<connectionType, op, call, first, accepted, reports, plugged>>,
           \/ toDevice' = toDevice
           \/ toDevice' = Append(toDevice, [id |-> requestID', number |-> issued',
                                            awaited |-> op # "noResponse"]),
           \/ pc' = "write" /\ result' = result /\ ~(connectionType = "fast" /\ op = "big")
           \/ pc' = "read" /\ result' = result
           \/ pc' = "idle" /\ result' = "PK_OK" /\ WaitsForNone
    PROVE  UsbInv'
<1>1. /\ issued \in Nat /\ requestID = issued % IdMod /\ sent \in Nat /\ retries \in 0..3
      /\ first \in Nat
  BY DEF UsbInv, UsbIds, TypeOK
<1>2. IdMod \in Nat \ {0}
  BY HidAssumption, SMT
<1>3. requestID' = issued' % IdMod
  BY <1>1, <1>2, RestOfSum
<1>4. issued' \in Nat /\ issued < issued'
  BY <1>1, SMT
<1>5. requestID' \in 0..(IdMod - 1)
  BY <1>2, <1>3, <1>4, RestOfSum
<1>6. toDevice \in Seq(UsbRequests') /\ reports' \in Seq(UsbReports')
  <2>1. toDevice \in Seq(UsbRequests') /\ reports \in Seq(UsbReports')
    BY <1>1, <1>4, UsbKept, SMT
  <2>. QED BY <2>1
<1> DEFINE q == [id |-> requestID', number |-> issued', awaited |-> op # "noResponse"]
<1>7. q \in UsbRequest
  BY <1>4, <1>5, Zenon DEF UsbRequest
<1>8. q.number = issued' /\ q.id = requestID' /\ issued' \in 1..issued'
  BY <1>1, <1>4, SMT
<1>9. q \in UsbRequests'
  BY <1>3, <1>7, <1>8 DEF UsbRequests, Numbered, UsbRequest
<1>10. toDevice' = toDevice \/ toDevice' = Append(toDevice, q)
  OBVIOUS
<1> HIDE DEF q
<1>11. toDevice' \in Seq(UsbRequests')
  BY <1>6, <1>9, <1>10, SeqFacts
<1>12. toDevice' \in Seq(UsbRequest)
  <2>1. toDevice \in Seq(UsbRequest)
    BY DEF UsbInv, TypeOK, UsbRequest
  <2>. QED BY <1>7, <1>10, <2>1, SeqFacts
<1>13. sent' \in Nat /\ retries' \in 0..3
  BY <1>1, SMT DEF MoreTries
<1>14. result \in {"none", "PK_OK", "PK_ERR_TRANSFER"} /\ result = "none" /\ accepted = 0
  BY DEF UsbInv, TypeOK, UsbIds
<1>15. TypeOK'
  <2>1. /\ op' \in Ops /\ call' \in Nat /\ first' \in Nat /\ accepted' \in Nat
        /\ reports' \in Seq(Report) /\ plugged' \in BOOLEAN
    BY DEF UsbInv, TypeOK
  <2>2. pc' \in {"idle", "write", "read"} /\ result' \in {"none", "PK_OK", "PK_ERR_TRANSFER"}
    BY <1>14
  <2>3. waits' \in Nat
    BY SMT
  <2>. QED BY <1>4, <1>5, <1>12, <1>13, <2>1, <2>2, <2>3 DEF TypeOK, UsbRequest
<1>16. UsbIds'
  <2>1. first' <= issued' /\ first' < issued'
    BY <1>1, <1>4, SMT DEF UsbInv, UsbIds
  <2>2. pc' # "idle" => result' = "none" /\ accepted' = 0
    BY <1>14
  <2>. QED BY <1>3, <1>6, <1>11, <2>1, <2>2 DEF UsbIds
<1>17. UsbAttempts'
  <2>1. sent <= retries /\ retries < 2
    BY DEF UsbInv, UsbAttempts, MoreTries
  <2>2. sent' <= 2 /\ sent' <= retries'
    BY <1>1, <2>1, SMT
  <2>3. connectionType = "fast" /\ op = "big" => sent = 0
    BY DEF UsbInv, UsbAttempts
  <2>4. connectionType' = "fast" /\ op' = "big" => sent' <= 1 /\ pc' # "write"
    BY <2>3, SMT DEF WaitsForNone
  <2>. QED BY <2>2, <2>4 DEF UsbAttempts
<1>18. (AcceptsOwnAnswer \/ WaitsForNone)'
  BY <1>14 DEF AcceptsOwnAnswer, WaitsForNone
<1>. QED BY <1>15, <1>16, <1>17, <1>18 DEF UsbInv

\* A report is read: it is taken for the answer, it is skipped, or it refuses
\* the request.
LEMMA UsbReads ==
    ASSUME UsbInv, pc = "read", reports # <<>>, reports' = Tail(reports), waits' = waits + 1,
           UNCHANGED <<connectionType, op, call, requestID, issued, first, retries, sent,
                       toDevice, plugged>>,
           \/ Matches(Head(reports)) /\ Return("PK_OK") /\ accepted' = Head(reports).number
           \/ UNCHANGED <<pc, result, accepted>>
           \/ Return("PK_ERR_TRANSFER") /\ UNCHANGED accepted
    PROVE  UsbInv'
<1> DEFINE r == Head(reports)
<1>1. r \in UsbReports /\ reports' \in Seq(UsbReports)
  BY SeqFacts DEF UsbInv, UsbIds
<1>2. r \in Report /\ reports' \in Seq(Report)
  <2>1. reports \in Seq(Report)
    BY DEF UsbInv, TypeOK
  <2>. QED BY <2>1, SeqFacts
<1>3. TypeOK'
  <2>1. accepted' \in Nat
    BY <1>2 DEF UsbInv, TypeOK, Report
  <2>2. waits' \in Nat
    BY SMT DEF UsbInv, TypeOK
  <2>3. pc' \in {"idle", "write", "read"} /\ result' \in {"none", "PK_OK", "PK_ERR_TRANSFER"}
    BY DEF UsbInv, TypeOK, Return
  <2>. QED BY <1>2, <2>1, <2>2, <2>3 DEF UsbInv, TypeOK
<1>4. UsbReports' = UsbReports /\ UsbRequests' = UsbRequests
  BY DEF UsbReports, UsbRequests, Numbered
<1>5. UsbIds'
  BY <1>1, <1>4 DEF UsbInv, UsbIds, Return
<1>6. UsbAttempts'
  BY DEF UsbInv, UsbAttempts, Return
<1>7. (AcceptsOwnAnswer \/ WaitsForNone)'
  <2>1. CASE Matches(r) /\ Return("PK_OK") /\ accepted' = r.number
    <3>1. r.number \in 1..issued /\ r.id = r.number % IdMod
      BY <1>1 DEF UsbReports, Numbered
    <3>2. r.number % IdMod = issued % IdMod
      BY <2>1, <3>1 DEF Matches, UsbInv, UsbIds
    <3>3. issued \in Nat /\ IdMod \in Nat \ {0} /\ first \in Nat
      BY HidAssumption, SMT DEF UsbInv, TypeOK
    <3>4. r.number = issued \/ issued - r.number >= IdMod
      <4>1. r.number \in Nat /\ r.number <= issued
        BY <3>1, <3>3, SMT
      <4>. QED BY <3>2, <3>3, <4>1, SameIdApart
    <3>5. first < issued /\ issued' = issued /\ first' = first /\ accepted' = r.number
      BY <2>1 DEF UsbInv, UsbIds
    <3>6. CASE r.number = issued
      BY <3>3, <3>5, <3>6, SMT DEF AcceptsOwnAnswer
    <3>7. CASE issued - r.number >= IdMod
      BY <3>5, <3>7 DEF AcceptsOwnAnswer
    <3>. QED BY <3>4, <3>6, <3>7
  <2>2. CASE UNCHANGED <<pc, result, accepted>>
    BY <2>2 DEF UsbInv, UsbIds, AcceptsOwnAnswer
  <2>3. CASE Return("PK_ERR_TRANSFER") /\ UNCHANGED accepted
    BY <2>3 DEF Return, AcceptsOwnAnswer
  <2>. QED BY <2>1, <2>2, <2>3
<1>. QED BY <1>3, <1>5, <1>6, <1>7 DEF UsbInv

\* No report is read and no id handed out: the call returns or goes on.
LEMMA UsbGoesOn ==
    ASSUME UsbInv, pc # "idle", waits' \in Nat,
           UNCHANGED <<connectionType, op, call, requestID, issued, first, retries, sent,
                       accepted, toDevice, reports, plugged>>,
           \/ pc' = "idle" /\ result' = "PK_ERR_TRANSFER"
           \/ pc' = "idle" /\ result' = "PK_OK" /\ WaitsForNone
           \/ pc' = "write" /\ result' = result /\ ~(connectionType = "fast" /\ op = "big")
           \/ UNCHANGED <<pc, result>>
    PROVE  UsbInv'
<1>1. result = "none" /\ pc \in {"idle", "write", "read"}
  BY DEF UsbInv, UsbIds, TypeOK
<1>2. TypeOK'
  BY <1>1 DEF UsbInv, TypeOK
<1>3. UsbReports' = UsbReports /\ UsbRequests' = UsbRequests
  BY DEF UsbReports, UsbRequests, Numbered
<1>4. UsbIds'
  BY <1>1, <1>3 DEF UsbInv, UsbIds
<1>5. UsbAttempts'
  BY DEF UsbInv, UsbAttempts
<1>6. (AcceptsOwnAnswer \/ WaitsForNone)'
  BY <1>1 DEF AcceptsOwnAnswer, WaitsForNone
<1>. QED BY <1>2, <1>4, <1>5, <1>6 DEF UsbInv

LEMMA UsbDevice ==
    UsbInv /\ (Device \/ Unplug) /\ connectionType' = connectionType => UsbInv'
<1> SUFFICES ASSUME UsbInv, Device \/ Unplug, connectionType' = connectionType
             PROVE  UsbInv'
  OBVIOUS
<1>1. UNCHANGED <<pc, op, call, requestID, issued, first, retries, waits, sent, result, accepted>>
  BY DEF Device, DeviceAnswers, DeviceIgnores, Unplug, callVars
<1>2. plugged' \in BOOLEAN
  BY DEF UsbInv, TypeOK, Device, DeviceAnswers, DeviceIgnores, Unplug
<1>3. /\ toDevice \in Seq(UsbRequests) /\ reports \in Seq(UsbReports)
      /\ toDevice \in Seq(UsbRequest) /\ reports \in Seq(Report)
  BY DEF UsbInv, UsbIds, TypeOK, UsbRequest
<1> DEFINE q == Head(toDevice)
<1>4. /\ UNCHANGED toDevice \/ (toDevice # <<>> /\ toDevice' = Tail(toDevice))
      /\ \/ UNCHANGED reports
         \/ /\ toDevice # <<>>
            /\ \E ok \in BOOLEAN :
                 reports' = Append(reports, [id |-> q.id, number |-> q.number, intact |-> ok])
  <2>1. {TRUE, ~Faulty} \subseteq BOOLEAN
    BY HidAssumption
  <2>2. CASE DeviceAnswers
    BY <2>1, <2>2, Zenon DEF DeviceAnswers
  <2>3. CASE DeviceIgnores
    BY <2>3 DEF DeviceIgnores
  <2>4. CASE Unplug
    BY <2>4 DEF Unplug
  <2>. QED BY <2>2, <2>3, <2>4 DEF Device
<1>5. toDevice' \in Seq(UsbRequests) /\ toDevice' \in Seq(UsbRequest)
  BY <1>3, <1>4, SeqFacts
<1>6. ASSUME toDevice # <<>>, NEW ok \in BOOLEAN
      PROVE  /\ [id |-> q.id, number |-> q.number, intact |-> ok] \in Report
             /\ [id |-> q.id, number |-> q.number, intact |-> ok] \in UsbReports
  <2>1. q \in UsbRequests
    BY <1>3, <1>6, SeqFacts
  <2>. QED BY <2>1 DEF UsbRequests, UsbRequest, UsbReports, Report, Numbered
<1> HIDE DEF q
<1>7. reports' \in Seq(UsbReports) /\ reports' \in Seq(Report)
  BY <1>3, <1>4, <1>6, SeqFacts
<1>8. TypeOK'
  BY <1>1, <1>2, <1>5, <1>7 DEF UsbInv, TypeOK, UsbRequest
<1>9. UsbReports' = UsbReports /\ UsbRequests' = UsbRequests
  BY <1>1 DEF UsbReports, UsbRequests, Numbered
<1>10. UsbIds'
  BY <1>1, <1>5, <1>7, <1>9 DEF UsbInv, UsbIds
<1>11. UsbAttempts'
  BY <1>1 DEF UsbInv, UsbAttempts
<1>12. (AcceptsOwnAnswer \/ WaitsForNone)'
  BY <1>1 DEF UsbInv, AcceptsOwnAnswer, WaitsForNone
<1>. QED BY <1>8, <1>10, <1>11, <1>12 DEF UsbInv

LEMMA HidCaller == UsbInv /\ Over("usb") /\ Caller => UsbInv'
<1> SUFFICES ASSUME UsbInv, Over("usb"), Caller PROVE UsbInv'
  OBVIOUS
<1>1. connectionType = "usb" /\ connectionType' = connectionType
  BY DEF Over
<1>2. waits \in Nat
  BY DEF UsbInv, TypeOK
<1>3. CASE GivesUp
  BY <1>1, <1>2, <1>3, UsbGoesOn DEF GivesUp, Return, deviceVars
<1>4. CASE Write
  <2>1. 1 \in Nat \ {0}
    BY SMT
  <2>2. pc' = "write" \/ pc' = "read"
    BY <1>4 DEF Write
  <2>. QED BY <1>1, <1>4, <2>1, <2>2, UsbWrites DEF Write, TriesWrite, IdAfter
<1>5. CASE WriteFails
  <2>1. 1 \in Nat \ {0}
    BY SMT
  <2>. QED BY <1>1, <1>5, <2>1, UsbWrites DEF WriteFails, TriesWrite, IdAfter
<1>6. CASE Read
  BY <1>1, <1>6, UsbReads DEF Read
<1>7. CASE ReadFails
  BY <1>1, <1>2, <1>7, UsbGoesOn DEF ReadFails, deviceVars
<1>. QED BY <1>3, <1>4, <1>5, <1>6, <1>7 DEF Caller

LEMMA BulkCaller == UsbInv /\ Over("fast") /\ FastCaller => UsbInv'
<1> SUFFICES ASSUME UsbInv, Over("fast"), FastCaller PROVE UsbInv'
  OBVIOUS
<1>1. connectionType = "fast" /\ connectionType' = connectionType
  BY DEF Over
<1>2. waits \in Nat /\ waits + 1 \in Nat
  BY SMT DEF UsbInv, TypeOK
<1>3. pc # "idle" => accepted = 0
  BY DEF UsbInv, UsbIds
<1>4. FastParts \in Nat \ {0}
  BY FastUsbAssumption, SMT DEF FastParts
<1>5. CASE FastGivesUp
  BY <1>1, <1>2, <1>3, <1>5, UsbGoesOn DEF FastGivesUp, Return, deviceVars, WaitsForNone
<1>6. CASE FastWrite
  BY <1>1, <1>3, <1>4, <1>6, UsbWrites
  DEF FastWrite, FastTriesWrite, FastIdAfter, Return, WaitsForNone
<1>7. CASE FastWriteFails
  BY <1>1, <1>4, <1>7, UsbWrites DEF FastWriteFails, FastTriesWrite, FastIdAfter
<1>8. CASE FastRead
  BY <1>1, <1>8, UsbReads DEF FastRead
<1>9. CASE FastReadRefusal
  BY <1>1, <1>9, UsbReads DEF FastReadRefusal
<1>10. CASE FastReadTimeout
  BY <1>1, <1>2, <1>10, UsbGoesOn DEF FastReadTimeout, LeavesLoop, Return, deviceVars
<1>11. CASE FastReadEnds
  BY <1>1, <1>2, <1>11, UsbGoesOn DEF FastReadEnds, LeavesLoop, Return, deviceVars
<1>. QED BY <1>5, <1>6, <1>7, <1>8, <1>9, <1>10, <1>11 DEF FastCaller

(***************************************************************************)
(* Over whichever interface.                                               *)
(***************************************************************************)
SendInv ==
    /\ connectionType \in {"network", "usb", "fast"}
    /\ IF connectionType = "network" THEN NetInv ELSE UsbInv

LEMMA SendInvInit == SendInit => SendInv
  BY NetTypeInit, UsbInit DEF SendInit, SendInv

LEMMA SendInvStep == SendInv /\ [SendNext]_sendVars => SendInv'
<1> SUFFICES ASSUME SendInv, [SendNext]_sendVars PROVE SendInv'
  OBVIOUS
<1>1. CASE NetworkStep
  BY <1>1, NetStep DEF SendInv, NetworkStep, Over
<1>2. CASE HidStep
  <2>1. Over("usb") /\ UsbInv /\ connectionType' = connectionType /\ connectionType' = "usb"
    BY <1>2 DEF SendInv, HidStep, Over
  <2>2. (\E o \in Ops : Call(o)) \/ CallBig \/ Caller \/ Device \/ Unplug
    BY <1>2 DEF HidStep, Next, Ops
  <2>3. UsbInv'
    BY <2>1, <2>2, UsbCall, UsbCallBig, HidCaller, UsbDevice
  <2>. QED BY <2>1, <2>3 DEF SendInv
<1>3. CASE FastStep
  <2>1. Over("fast") /\ UsbInv /\ connectionType' = connectionType /\ connectionType' = "fast"
    BY <1>3 DEF SendInv, FastStep, Over
  <2>2. (\E o \in Ops : Call(o)) \/ FastCaller \/ Device \/ Unplug
    BY <1>3 DEF FastStep, FastNext
  <2>3. UsbInv'
    BY <2>1, <2>2, UsbCall, BulkCaller, UsbDevice
  <2>. QED BY <2>1, <2>3 DEF SendInv
<1>4. CASE UNCHANGED sendVars
  <2>1. UNCHANGED <<connectionType, pc, op, call, requestID, issued, first, retries, waits, sent,
                    result, accepted, toDevice, reports, plugged,
                    retries1, retries2, heard, wire, executed, rx>>
    BY <1>4 DEF sendVars, vars, ethVars
  <2>2. NetInv => NetInv'
    BY <2>1 DEF NetInv, Eth!TypeOK, NetIds, NetRequests, NetAnswers, Numbered,
                Eth!AcceptsOwnAnswer, NetAttempts
  <2>3. UsbInv => UsbInv'
    BY <2>1 DEF UsbInv, TypeOK, UsbIds, UsbRequests, UsbReports, Numbered, UsbAttempts,
                AcceptsOwnAnswer, WaitsForNone
  <2>. QED BY <2>1, <2>2, <2>3 DEF SendInv
<1>. QED BY <1>1, <1>2, <1>3, <1>4 DEF SendNext

LEMMA SendInvHolds == FairSendSpec => []SendInv
  BY SendInvInit, SendInvStep, PTL DEF FairSendSpec, SendSpec

\* Whatever the interface, the variables of the request functions keep their
\* types; in particular the ids stay below the width of their counter.
THEOREM SendTypes == FairSendSpec => []RequestTypeOK
<1>1. SendInv => RequestTypeOK
  BY DEF SendInv, NetInv, UsbInv, RequestTypeOK
<1>. QED BY <1>1, SendInvHolds, PTL

\* A call is never answered with the answer to a request given up, its own or
\* that of an earlier call, unless the ids have gone round once in between:
\* however answers are lost, late, repeated or corrupt, and for every number
\* of retries and of waits, of calls before it, and of ids.
THEOREM TakesOwnAnswer == FairSendSpec => []OwnAnswer
<1>1. SendInv => OwnAnswer
  BY DEF SendInv, NetInv, UsbInv, WaitsForNone, OwnAnswer
<1>. QED BY <1>1, SendInvHolds, PTL

\* The device is asked to carry out a request sendRetries + 2 times over the
\* network, and twice over USB, at the most; a multi-part request over the
\* bulk endpoints once.
THEOREM TransmitsNoMore == FairSendSpec => []TransmissionsBounded
<1>1. SendInv => TransmissionsBounded
  BY DEF SendInv, NetInv, NetAttempts, UsbInv, UsbAttempts, TransmissionsBounded,
         Eth!SendsBounded, WrittenTwice
<1>. QED BY <1>1, SendInvHolds, PTL

\* A call over the network does not fail although it was answered: once it has
\* read an answer of its own, it fails only after a wait in vain or behind an
\* answer to an earlier call, for every number of ids, retries and calls.
THEOREM FailsOnlyWhenBehind == FairSendSpec => []FailsOnlyBehind
<1> DEFINE Kept == connectionType = "network" => NetBehind
<1>1. SendInit => Kept
  BY BehindInit
<1>2. SendInv /\ Kept /\ [SendNext]_sendVars => Kept'
  <2> SUFFICES ASSUME SendInv, Kept, [SendNext]_sendVars, connectionType' = "network"
               PROVE  NetBehind'
    OBVIOUS
  <2>1. connectionType = "network"
    BY DEF SendNext, NetworkStep, HidStep, FastStep, Over, sendVars
  <2>2. NetInv /\ NetBehind
    BY <2>1 DEF SendInv
  <2>3. CASE NetworkStep
    BY <2>2, <2>3, BehindCaller, BehindDevice DEF NetworkStep, Eth!Next
  <2>4. CASE UNCHANGED sendVars
    <3>1. UNCHANGED <<pc, op, issued, first, result, retries1, heard, wire, executed, rx>>
      BY <2>4 DEF sendVars, vars, ethVars
    <3>. QED BY <2>2, <3>1 DEF NetBehind, Unanswered, AttemptPackets, AttemptAnswers,
                               OfThisAttempt, NetRequests, NetAnswers, Numbered
  <2>. QED BY <2>1, <2>3, <2>4 DEF SendNext, HidStep, FastStep, Over
<1>3. SendInv /\ Kept => FailsOnlyBehind
  <2> SUFFICES ASSUME SendInv, Kept, connectionType = "network",
                      result = "PK_ERR_TRANSFER", NEW n \in heard
               PROVE  retries1 > 0 \/ \E m \in heard : m <= first
    BY DEF FailsOnlyBehind, Eth!FailsOnlyBehind
  <2>. QED BY DEF NetBehind
<1>. QED BY <1>1, <1>2, <1>3, SendInvHolds, PTL DEF FairSendSpec, SendSpec
=============================================================================
