-------------------------- MODULE AsyncCalls_proof --------------------------
(***************************************************************************)
(* Functions whose steps are in order (FunctionsInOrder) keep what they    *)
(* promise, however many requests are lost, sent again or answered late.   *)
(***************************************************************************)
EXTENDS AsyncSteps, TLAPS

(***************************************************************************)
(* Sequences.                                                              *)
(***************************************************************************)
LEMMA AppendSeq ==
    ASSUME NEW s, s \in Seq(Range(s)), NEW e
    PROVE  /\ Append(s, e) \in Seq(Range(Append(s, e)))
           /\ Len(s) \in Nat /\ DOMAIN s = 1..Len(s)
           /\ Len(Append(s, e)) = Len(s) + 1 /\ DOMAIN Append(s, e) = 1..(Len(s) + 1)
           /\ \A n \in DOMAIN s : Append(s, e)[n] = s[n]
           /\ Append(s, e)[Len(s) + 1] = e
<1> DEFINE t == Append(s, e)
<1>1. t \in Seq(Range(s) \cup {e})
  OBVIOUS
<1>2. /\ Len(s) \in Nat /\ DOMAIN s = 1..Len(s) /\ Len(t) = Len(s) + 1 /\ DOMAIN t = 1..(Len(s) + 1)
      /\ \A n \in DOMAIN s : t[n] = s[n]
      /\ t[Len(s) + 1] = e
  OBVIOUS
<1> HIDE DEF t
<1>3. \A n \in 1..Len(t) : t[n] \in Range(t)
  BY <1>2 DEF Range
<1>4. t \in Seq(Range(t))
  BY <1>1, <1>3
<1>. QED BY <1>2, <1>4 DEF t

LEMMA TailSeq ==
    ASSUME NEW s, s \in Seq(Range(s)), s # <<>>
    PROVE  /\ Tail(s) \in Seq(Range(Tail(s)))
           /\ Len(s) \in Nat \ {0} /\ DOMAIN s = 1..Len(s) /\ Head(s) = s[1] /\ 1 \in DOMAIN s
           /\ Len(Tail(s)) = Len(s) - 1 /\ DOMAIN Tail(s) = 1..(Len(s) - 1)
           /\ \A n \in DOMAIN Tail(s) : Tail(s)[n] = s[n + 1] /\ n + 1 \in DOMAIN s
<1> DEFINE t == Tail(s)
<1>1. t \in Seq(Range(s))
  OBVIOUS
<1>2. /\ Len(s) \in Nat \ {0} /\ DOMAIN s = 1..Len(s) /\ Head(s) = s[1] /\ 1 \in DOMAIN s
      /\ Len(t) = Len(s) - 1 /\ DOMAIN t = 1..(Len(s) - 1)
      /\ \A n \in DOMAIN t : t[n] = s[n + 1] /\ n + 1 \in DOMAIN s
  OBVIOUS
<1> HIDE DEF t
<1>3. \A n \in 1..Len(t) : t[n] \in Range(t)
  BY <1>2 DEF Range
<1>4. t \in Seq(Range(t))
  BY <1>1, <1>3
<1>. QED BY <1>2, <1>4 DEF t

LEMMA ConcatSeq ==
    ASSUME NEW S, NEW a \in Seq(S), NEW b \in Seq(S)
    PROVE  /\ a \o b \in Seq(S) /\ Len(a \o b) = Len(a) + Len(b)
           /\ \A n \in 1..Len(a) : (a \o b)[n] = a[n]
           /\ \A n \in 1..Len(b) : (a \o b)[Len(a) + n] = b[n]
<1>1. Len(a) \in Nat /\ Len(b) \in Nat
  OBVIOUS
<1>2. a \o b \in Seq(S) /\ Len(a \o b) = Len(a) + Len(b)
  OBVIOUS
<1>3. ASSUME NEW n \in 1..Len(a) PROVE (a \o b)[n] = a[n]
  BY <1>1
<1>4. ASSUME NEW n \in 1..Len(b) PROVE (a \o b)[Len(a) + n] = b[n]
  BY <1>1
<1>. QED BY <1>2, <1>3, <1>4

LEMMA SwapSeq ==
    ASSUME NEW s, s \in Seq(Range(s)), Len(s) > 1
    PROVE  LET t == <<s[2], s[1]>> \o SubSeq(s, 3, Len(s)) IN
           /\ t \in Seq(Range(t)) /\ DOMAIN t = DOMAIN s
           /\ \A n \in DOMAIN t : \E m \in DOMAIN s : t[n] = s[m]
           /\ \A n \in DOMAIN s : \E m \in DOMAIN t : s[n] = t[m]
<1>1. Len(s) \in Nat /\ DOMAIN s = 1..Len(s) /\ \A n \in 1..Len(s) : s[n] \in Range(s)
  BY DEF Range
<1>2. PICK h : h = <<s[2], s[1]>>
  OBVIOUS
<1>3. PICK r : r = SubSeq(s, 3, Len(s))
  OBVIOUS
<1>4. PICK t : t = h \o r
  OBVIOUS
<1>5. h \in Seq(Range(s)) /\ Len(h) = 2 /\ h[1] = s[2] /\ h[2] = s[1]
  BY <1>1, <1>2
<1>6. r \in Seq(Range(s)) /\ Len(r) = Len(s) - 2 /\ \A n \in 1..(Len(s) - 2) : r[n] = s[n + 2]
  BY <1>1, <1>3
<1>7. /\ t \in Seq(Range(s)) /\ Len(t) = Len(h) + Len(r)
      /\ \A n \in 1..Len(h) : t[n] = h[n]
      /\ \A n \in 1..Len(r) : t[Len(h) + n] = r[n]
  <2>1. /\ h \o r \in Seq(Range(s)) /\ Len(h \o r) = Len(h) + Len(r)
        /\ \A n \in 1..Len(h) : (h \o r)[n] = h[n]
        /\ \A n \in 1..Len(r) : (h \o r)[Len(h) + n] = r[n]
    <3>1. h \in Seq(Range(s)) /\ r \in Seq(Range(s))
      BY <1>5, <1>6
    <3>. QED BY ONLY <3>1, ConcatSeq
  <2>. QED BY <1>4, <2>1
<1>8. Len(t) = Len(s) /\ DOMAIN t = 1..Len(s)
  BY <1>1, <1>5, <1>6, <1>7
<1>9. t[1] = s[2] /\ t[2] = s[1]
  BY <1>5, <1>7
<1>10. ASSUME NEW n \in 3..Len(s) PROVE t[n] = s[n]
  <2>1. n - 2 \in 1..(Len(s) - 2) /\ n - 2 + 2 = n /\ 2 + (n - 2) = n
    BY <1>1
  <2>. QED BY <1>5, <1>6, <1>7, <2>1
<1>11. \A n \in 1..Len(t) : t[n] \in Range(t)
  BY <1>8 DEF Range
<1>12. t \in Seq(Range(t))
  BY <1>7, <1>11
<1>13. ASSUME NEW n \in 1..Len(s)
       PROVE  (\E m \in 1..Len(s) : t[n] = s[m]) /\ (\E m \in 1..Len(s) : s[n] = t[m])
  <2>1. n = 1 \/ n = 2 \/ n \in 3..Len(s)
    BY <1>1
  <2>2. 1 \in 1..Len(s) /\ 2 \in 1..Len(s)
    BY <1>1
  <2>. QED BY <1>9, <1>10, <2>1, <2>2
<1>14. t = <<s[2], s[1]>> \o SubSeq(s, 3, Len(s))
  BY <1>2, <1>3, <1>4
<1>. QED BY <1>1, <1>8, <1>12, <1>13, <1>14

(***************************************************************************)
(* Where the call is.                                                      *)
(***************************************************************************)
\* The steps of the call, how many of them are over, and whether it may go on.
Steps == StepsOf(step)
At == Len(Steps) - Len(todo)
Underway == result \in {"none", "PK_OK"}

Shape ==
    /\ script.kind \in {"retry", "rmw", "between", "pair"}
    /\ DOMAIN script.calls = IF script.kind = "retry" THEN {1} ELSE {1, 2}
    /\ Len(script.calls) = IF script.kind = "retry" THEN 1 ELSE 2
    /\ step \in DOMAIN script.calls
    /\ InOrder(script, device)
    /\ uses.carries = ItemsOut(Steps) /\ uses.reads = ItemsIn(Steps)
    /\ uses.takes = ItemsTaken(Steps) /\ uses.spoils = Spoiled(StepsOf(1)) \cup Spoiled(Steps)

\* What is still to be run is the rest of the steps.
Position ==
    /\ result \in {"none"} \cup Results
    /\ todo \in Seq(Range(Steps)) /\ (todo = <<>> <=> result # "none")
    /\ Len(todo) <= Len(Steps) /\ \A n \in 1..Len(todo) : todo[n] = Steps[At + n]

Allotted ==
    /\ DOMAIN mirror = DOMAIN dev /\ DOMAIN meant = DOMAIN dev
    /\ \A c \in DOMAIN script.calls : AllItems(StepsOf(c)) \subseteq DOMAIN mirror

\* The requests are exchanges of the calls so far.
RequestOK(r) ==
    /\ r \in [what : {r.what}, carries : {r.carries}, status : {"pending", "answered", "failed"},
              attempts : 1..2]
    /\ Exchanges(r.what) /\ ~r.what.silent /\ DOMAIN r.carries = r.what.out \cup r.what.zeroes
    /\ \E c \in DOMAIN script.calls : c <= step /\ r.what \in Range(StepsOf(c))
MailOK ==
    /\ requests \in Seq(Range(requests)) /\ answers \in Seq(Range(answers))
    /\ \A k \in DOMAIN requests : RequestOK(requests[k])
    /\ \A n \in DOMAIN answers : answers[n].request \in DOMAIN requests

RunInv ==
    IF script.kind = "none"
    THEN /\ todo = <<>> /\ requests = <<>> /\ answers = <<>> /\ uses.spoils = {}
         /\ script.calls = <<>> /\ step = 0 /\ result = "none"
         /\ mirror = <<>> /\ dev = <<>> /\ meant = <<>>
    ELSE Shape /\ Position /\ Allotted /\ MailOK

LEMMA SameSteps ==
    ASSUME UNCHANGED <<device, script>>
    PROVE  /\ \A c : StepsOf(c)' = StepsOf(c)
           /\ InOrder(script, device)' = InOrder(script, device)
           /\ step' = step => Steps' = Steps
  BY DEF StepsOf, Steps

\* The functions are in order, also the one that runs.
LEMMA CallsInOrder ==
    ASSUME Shape
    PROVE  /\ \A c \in DOMAIN script.calls :
                FunctionInOrder(script.calls[c], script.kind, StepsOf(c))
           /\ FunctionInOrder(Call, script.kind, Steps)
           /\ \A c \in DOMAIN script.calls : c \in {1, 2}
  BY DEF Shape, InOrder, Steps, StepsOf, Call

LEMMA StepsInOrder ==
    ASSUME Shape
    PROVE  /\ Steps \in Seq(Range(Steps)) /\ Len(Steps) \in Nat /\ DOMAIN Steps = 1..Len(Steps)
           /\ \A m \in DOMAIN Steps : /\ WellFormed(Steps[m])
                                      /\ Steps[m].onFail = "skip" => Call \in IgnoresFailures
<1>1. FunctionInOrder(Call, script.kind, Steps)
  BY CallsInOrder
<1>. QED BY <1>1 DEF FunctionInOrder

LEMMA NextStep ==
    ASSUME Shape, Position, todo # <<>>
    PROVE  /\ At + 1 \in DOMAIN Steps /\ At \in Nat /\ Now = Steps[At + 1]
           /\ Len(todo) \in Nat \ {0}
           /\ Len(Tail(todo)) = Len(todo) - 1 /\ Tail(todo) \in Seq(Range(Steps))
           /\ \A n \in 1..Len(Tail(todo)) : Tail(todo)[n] = Steps[At + 1 + n]
<1>1. /\ todo \in Seq(Range(Steps))
      /\ Len(todo) <= Len(Steps) /\ \A n \in 1..Len(todo) : todo[n] = Steps[At + n]
  BY DEF Position
<1>2. Len(todo) \in Nat \ {0} /\ Len(Steps) \in Nat /\ DOMAIN Steps = 1..Len(Steps)
  BY <1>1, StepsInOrder
<1>3. At \in Nat /\ At + 1 \in DOMAIN Steps
  BY <1>1, <1>2 DEF At
<1>4. Now = todo[1] /\ Tail(todo) \in Seq(Range(Steps)) /\ Len(Tail(todo)) = Len(todo) - 1
      /\ \A n \in 1..Len(Tail(todo)) : Tail(todo)[n] = todo[n + 1]
  BY <1>1 DEF Now
<1>5. Now = Steps[At + 1]
  BY <1>1, <1>2, <1>4
<1>6. ASSUME NEW n \in 1..Len(Tail(todo)) PROVE Tail(todo)[n] = Steps[At + 1 + n]
  <2>1. n + 1 \in 1..Len(todo)
    BY <1>2, <1>4
  <2>2. At + (n + 1) = At + 1 + n
    BY <1>3
  <2>. QED BY <1>1, <1>4, <2>1, <2>2
<1>. QED BY <1>2, <1>3, <1>4, <1>5, <1>6

(***************************************************************************)
(* A step of the function that runs.                                       *)
(***************************************************************************)
Calling == Run \/ Send

\* It goes on to the next step, or is at its end.
Goes    == todo' = Tail(todo) /\ result' = IF Tail(todo) = <<>> THEN "PK_OK" ELSE "none"
Jumps   == Now.kind = "compare" /\ todo' = <<>> /\ result' = "PK_OK"
Returns == todo' = <<>> /\ result' \in Results \ {"PK_OK"}

LEMMA CallingEnabled ==
    ASSUME Calling
    PROVE  todo # <<>> /\ UNCHANGED callVars
  BY DEF Calling, Run, Send, PassOver, AssignFields, Select, ReturnEarly, CompareWithCopy, Submit,
     SubmitUnsent, NoFreeSlot, SendSilently, MailboxStep, Runs

LEMMA CallingMoves ==
    ASSUME Shape, Position, Calling
    PROVE  Goes \/ Jumps \/ Returns
<1>1. todo # <<>>
  BY CallingEnabled
<1>2. WellFormed(Now)
  BY <1>1, NextStep, StepsInOrder
<1>3. /\ \A new : Continue(Tail(todo), new) => Goes
      /\ Now.kind = "compare" => \A new : Continue(<<>>, new) => Jumps
      /\ ReturnWith(Now.result) => Returns
  BY <1>2 DEF Continue, ReturnWith, Goes, Jumps, Returns, WellFormed
<1>. QED BY <1>3 DEF Calling, Run, Send, PassOver, AssignFields, Select, ReturnEarly, Runs,
     CompareWithCopy, Submit, SubmitUnsent, NoFreeSlot, SendSilently, FailOrSkip

LEMMA CallingPosition ==
    ASSUME Shape, Position, Calling
    PROVE  /\ Position' /\ Underway /\ Steps' = Steps
           /\ (Goes => At' = At + 1) /\ (Underway' <=> Goes \/ Jumps)
<1>1. todo # <<>> /\ Steps' = Steps /\ UNCHANGED callVars
  BY CallingEnabled, SameSteps DEF callVars
<1>2. /\ At \in Nat /\ Len(Tail(todo)) = Len(todo) - 1 /\ Tail(todo) \in Seq(Range(Steps))
      /\ \A n \in 1..Len(Tail(todo)) : Tail(todo)[n] = Steps[At + 1 + n]
      /\ Len(todo) \in Nat /\ Len(todo) <= Len(Steps) /\ Len(Steps) \in Nat
  BY <1>1, NextStep, StepsInOrder DEF Position
<1>3. Underway
  BY <1>1 DEF Position, Underway
<1>4. CASE Goes
  <2>1. At' = At + 1
    BY <1>1, <1>2, <1>4 DEF At, Goes
  <2>2. Position'
    BY <1>1, <1>2, <1>4, <2>1 DEF Position, Goes, Results
  <2>3. Underway'
    BY <1>4 DEF Goes, Underway
  <2>. QED BY <1>1, <1>3, <1>4, <2>1, <2>2, <2>3
<1>5. CASE ~Goes
  <2>1. Jumps \/ Returns
    BY <1>5, CallingMoves
  <2>2. Position'
    <3>1. todo' = <<>> /\ result' \in Results /\ result' # "none"
      BY <2>1 DEF Jumps, Returns, Results
    <3>2. Len(todo') = 0
      BY <3>1
    <3>. QED BY <1>1, <1>2, <3>1, <3>2 DEF Position
  <2>3. Underway' <=> Jumps
    BY <2>1 DEF Jumps, Returns, Underway, Results
  <2>. QED BY <1>1, <1>3, <1>5, <2>2, <2>3
<1>. QED BY <1>4, <1>5

(***************************************************************************)
(* The requests and the answers.                                           *)
(***************************************************************************)
Mailbox == Timeouts \/ Receive

\* Request k is executed, for the first time or again.
Executing(k) ==
    /\ k \in DOMAIN requests' /\ requests'[k].status = "pending"
    /\ dev' = Executed(requests'[k].carries)
    /\ k \in DOMAIN requests => requests[k].status = "pending" /\ "resent" \in marks' /\ Idle

\* What becomes of a request, where a new one comes from, where an answer does.
Kept(k) ==
    /\ k \in DOMAIN requests' /\ RequestOK(requests'[k])
    /\ requests'[k].what = requests[k].what /\ requests'[k].carries = requests[k].carries
    /\ \/ requests'[k].status = requests[k].status
       \/ requests[k].status = "pending" /\ requests'[k].status = "failed"
       \/ requests'[k].status = "answered" /\ AnswerQueued(k)
Made(k) ==
    /\ MailboxStep /\ requests'[k].what = Now /\ requests'[k].carries \in Contents
    /\ requests'[k].status = "pending" /\ requests'[k].attempts = 1 /\ RequestOK(requests'[k])
OldAnswer(n) == \E m \in DOMAIN answers : answers'[n] = answers[m]
NewAnswer(n) ==
    \E k \in DOMAIN requests' :
        /\ answers'[n].request = k /\ Executing(k)
        /\ answers'[n].values = [i \in requests'[k].what.in |-> dev'[i]]

\* A request that is not answered, nor is an answer to it on its way.
Undone(k) == requests[k].status # "answered" /\ ~AnswerQueued(k)

SentPast == SendSilently /\ \E carries \in Contents : dev' = Executed(carries)

MailMoves ==
    /\ requests' \in Seq(Range(requests')) /\ answers' \in Seq(Range(answers'))
    /\ \A k \in DOMAIN requests : Kept(k) /\ (Undone(k) => Undone(k)' \/ Executing(k))
    /\ \A k \in DOMAIN requests' : k \in DOMAIN requests \/ Made(k)
    /\ \A n \in DOMAIN answers' : OldAnswer(n) \/ NewAnswer(n)
    /\ dev' = dev \/ SentPast \/ \E k \in DOMAIN requests' : Executing(k)

LEMMA TransmitMoves ==
    ASSUME answers \in Seq(Range(answers)), NEW k, NEW carries, NEW what,
           Transmit(k, carries, what)
    PROVE  /\ answers' \in Seq(Range(answers'))
           /\ dev' = dev \/ dev' = Executed(carries)
           /\ \A n \in DOMAIN answers' :
                OldAnswer(n) \/ (answers'[n] = Answered(k, what, dev') /\ dev' = Executed(carries))
           /\ answers' = answers \/ answers' = Append(answers, Answered(k, what, dev'))
           /\ \A n \in DOMAIN answers : n \in DOMAIN answers' /\ answers'[n] = answers[n]
<1>1. CASE UNCHANGED answers
  BY <1>1 DEF Transmit, OldAnswer
<1>2. CASE dev' = Executed(carries) /\ answers' = Append(answers, Answered(k, what, dev'))
  <2> DEFINE e == Answered(k, what, dev')
  <2> HIDE DEF e
  <2>1. /\ Append(answers, e) \in Seq(Range(Append(answers, e)))
        /\ Len(answers) \in Nat /\ DOMAIN answers = 1..Len(answers)
        /\ Len(Append(answers, e)) = Len(answers) + 1
        /\ DOMAIN Append(answers, e) = 1..(Len(answers) + 1)
        /\ \A n \in DOMAIN answers : Append(answers, e)[n] = answers[n]
        /\ Append(answers, e)[Len(answers) + 1] = e
    BY AppendSeq
  <2>2. answers' = Append(answers, e) /\ dev' = Executed(carries)
    BY <1>2 DEF e
  <2>3. ASSUME NEW n \in DOMAIN answers' PROVE OldAnswer(n) \/ answers'[n] = e
    <3>1. n \in DOMAIN answers \/ n = Len(answers) + 1
      BY <2>1, <2>2
    <3>. QED BY <2>1, <2>2, <3>1 DEF OldAnswer
  <2>4. \A n \in DOMAIN answers : n \in DOMAIN answers' /\ answers'[n] = answers[n]
    BY <2>1, <2>2
  <2>. QED BY <2>1, <2>2, <2>3, <2>4 DEF e
<1>. QED BY <1>1, <1>2 DEF Transmit

LEMMA QuietMoves ==
    ASSUME MailOK, UNCHANGED <<requests, answers>>, dev' = dev \/ SentPast
    PROVE  MailMoves
<1>1. ASSUME NEW k \in DOMAIN requests PROVE Kept(k) /\ (Undone(k) => Undone(k)')
  BY DEF MailOK, Kept, Undone, AnswerQueued
<1>2. \A n \in DOMAIN answers' : OldAnswer(n)
  BY DEF OldAnswer
<1>. QED BY <1>1, <1>2 DEF MailOK, MailMoves

\* What a new request is.
LEMMA NewRequestOK ==
    ASSUME Shape, Position, MailboxStep, NEW carries \in Contents
    PROVE  RequestOK(NewRequest(carries))
<1>1. todo # <<>> /\ Exchanges(Now) /\ ~Now.silent
  BY DEF MailboxStep, Runs, Exchanges
<1>2. Now = Steps[At + 1] /\ At + 1 \in DOMAIN Steps /\ step \in DOMAIN script.calls /\ step <= step
  BY <1>1, NextStep, CallsInOrder DEF Shape
<1>3. Now \in Range(StepsOf(step))
  BY <1>2 DEF Steps, Range
<1>4. DOMAIN carries = Now.out \cup Now.zeroes
  BY DEF Contents
<1>. QED BY <1>1, <1>2, <1>3, <1>4 DEF RequestOK, NewRequest

LEMMA AppendMoves ==
    ASSUME Shape, Position, MailOK, MailboxStep, NEW carries \in Contents,
           requests' = Append(requests, NewRequest(carries))
    PROVE  /\ requests' \in Seq(Range(requests'))
           /\ \A k \in DOMAIN requests : Kept(k) /\ requests'[k] = requests[k]
           /\ \A k \in DOMAIN requests' : k \in DOMAIN requests \/ Made(k)
           /\ Len(requests) + 1 \in DOMAIN requests' \ DOMAIN requests
           /\ requests'[Len(requests) + 1] = NewRequest(carries)
           /\ \A n \in DOMAIN answers : answers[n].request # Len(requests) + 1
<1> DEFINE r == NewRequest(carries)
<1>1. RequestOK(r) /\ r.what = Now /\ r.carries = carries /\ r.status = "pending" /\ r.attempts = 1
  BY NewRequestOK DEF NewRequest
<1> HIDE DEF r
<1>2. /\ Append(requests, r) \in Seq(Range(Append(requests, r)))
      /\ Len(requests) \in Nat /\ DOMAIN requests = 1..Len(requests)
      /\ DOMAIN Append(requests, r) = 1..(Len(requests) + 1)
      /\ \A n \in DOMAIN requests : Append(requests, r)[n] = requests[n]
      /\ Append(requests, r)[Len(requests) + 1] = r
  BY AppendSeq DEF MailOK
<1>3. requests' = Append(requests, r)
  BY DEF r
<1>4. ASSUME NEW k \in DOMAIN requests PROVE Kept(k) /\ requests'[k] = requests[k]
  BY <1>2, <1>3 DEF MailOK, Kept
<1>5. Made(Len(requests) + 1)
  BY <1>1, <1>2, <1>3 DEF Made
<1>6. ASSUME NEW k \in DOMAIN requests' PROVE k \in DOMAIN requests \/ k = Len(requests) + 1
  BY <1>2, <1>3
<1>7. Len(requests) + 1 \in DOMAIN requests' \ DOMAIN requests
  BY <1>2, <1>3
<1>8. \A n \in DOMAIN answers : answers[n].request # Len(requests) + 1
  BY <1>7 DEF MailOK
<1>. QED BY <1>2, <1>3, <1>4, <1>5, <1>6, <1>7, <1>8 DEF r

LEMMA CallingMail ==
    ASSUME Shape, Position, MailOK, Calling
    PROVE  MailMoves
<1>1. CASE Run \/ NoFreeSlot \/ SendSilently
  <2>1. UNCHANGED <<requests, answers>>
    BY <1>1 DEF Run, PassOver, AssignFields, Select, ReturnEarly, CompareWithCopy, NoFreeSlot,
       SendSilently
  <2>2. dev' = dev \/ SentPast
    BY <1>1 DEF Run, PassOver, AssignFields, Select, ReturnEarly, CompareWithCopy, NoFreeSlot,
       SendSilently, SentPast
  <2>. QED BY <2>1, <2>2, QuietMoves
<1>2. CASE Submit \/ SubmitUnsent
  <2>1. PICK carries \in Contents :
           /\ MailboxStep /\ requests' = Append(requests, NewRequest(carries))
           /\ Transmit(Len(requests) + 1, carries, Now) \/ UNCHANGED <<dev, answers>>
    BY <1>2 DEF Submit, SubmitUnsent
  <2> DEFINE q == Len(requests) + 1
  <2>2. /\ requests' \in Seq(Range(requests'))
        /\ \A k \in DOMAIN requests : Kept(k) /\ requests'[k] = requests[k]
        /\ \A k \in DOMAIN requests' : k \in DOMAIN requests \/ Made(k)
        /\ q \in DOMAIN requests' \ DOMAIN requests
        /\ requests'[q] = NewRequest(carries)
    BY <2>1, AppendMoves
  <2>3. requests'[q].carries = carries /\ requests'[q].what = Now /\ requests'[q].status = "pending"
    BY <2>2 DEF NewRequest
  <2> HIDE DEF q
  <2>4. dev' = Executed(carries) => Executing(q)
    BY <2>2, <2>3 DEF Executing
  <2>5. CASE UNCHANGED <<dev, answers>>
    <3>1. \A n \in DOMAIN answers' : OldAnswer(n)
      BY <2>5 DEF OldAnswer
    <3>2. \A k \in DOMAIN requests : Undone(k) => Undone(k)'
      BY <2>2, <2>5 DEF Undone, AnswerQueued
    <3>. QED BY <2>2, <2>5, <3>1, <3>2 DEF MailMoves, MailOK
  <2>6. CASE Transmit(q, carries, Now)
    <3>1. /\ answers' \in Seq(Range(answers'))
          /\ dev' = dev \/ dev' = Executed(carries)
          /\ \A n \in DOMAIN answers' :
               OldAnswer(n) \/ (answers'[n] = Answered(q, Now, dev') /\ dev' = Executed(carries))
      BY <2>6, TransmitMoves DEF MailOK
    <3>2. ASSUME NEW n \in DOMAIN answers', ~OldAnswer(n) PROVE NewAnswer(n)
      <4>1. answers'[n] = Answered(q, Now, dev') /\ Executing(q)
        BY <2>4, <3>1, <3>2
      <4>2. answers'[n].request = q /\ answers'[n].values = [i \in Now.in |-> dev'[i]]
        BY <4>1 DEF Answered
      <4>. QED BY <2>2, <2>3, <4>1, <4>2 DEF NewAnswer
    <3>3. ASSUME NEW k \in DOMAIN requests, Undone(k) PROVE Undone(k)'
      <4>1. k # q
        BY <2>2
      <4>2. ASSUME NEW n \in DOMAIN answers' PROVE answers'[n].request # k
        <5>1. answers'[n] = Answered(q, Now, dev') => answers'[n].request = q
          BY DEF Answered
        <5>. QED BY <3>1, <3>3, <4>1, <5>1 DEF OldAnswer, Undone, AnswerQueued
      <4>. QED BY <2>2, <3>3, <4>2 DEF Undone, AnswerQueued
    <3>4. dev' = dev \/ Executing(q)
      BY <2>4, <3>1
    <3>. QED BY <2>2, <3>1, <3>2, <3>3, <3>4 DEF MailMoves
  <2>. QED BY <2>1, <2>5, <2>6 DEF q
<1>. QED BY <1>1, <1>2 DEF Calling, Send

\* A sequence of the same length.
LEMMA SameLength ==
    ASSUME NEW s, s \in Seq(Range(s)), NEW t, t = [n \in DOMAIN s |-> t[n]]
    PROVE  t \in Seq(Range(t)) /\ DOMAIN t = DOMAIN s
<1>1. DOMAIN s = 1..Len(s) /\ Len(s) \in Nat
  OBVIOUS
<1>2. DOMAIN t = 1..Len(s)
  BY <1>1
<1>3. \A n \in 1..Len(s) : t[n] \in Range(t)
  BY <1>2 DEF Range
<1>4. t = [n \in 1..Len(s) |-> t[n]]
  BY <1>1
<1>. QED BY <1>1, <1>2, <1>3, <1>4

\* The slots change, and not what they were made for.
LEMMA ChangedRequests ==
    ASSUME MailOK, requests' = [k \in DOMAIN requests |-> requests'[k]],
           \A k \in DOMAIN requests :
              \/ requests'[k] = requests[k]
              \/ /\ requests[k].status = "pending" /\ requests[k].attempts < 2
                 /\ requests'[k] = [requests[k] EXCEPT !.attempts = @ + 1]
              \/ requests[k].status = "pending" /\ requests'[k] = [requests[k] EXCEPT !.status = "failed"]
              \/ AnswerQueued(k) /\ requests'[k] = [requests[k] EXCEPT !.status = "answered"]
    PROVE  /\ requests' \in Seq(Range(requests')) /\ DOMAIN requests' = DOMAIN requests
           /\ \A k \in DOMAIN requests :
                /\ Kept(k)
                /\ requests'[k].status = "answered" => requests[k].status = "answered" \/ AnswerQueued(k)
<1>1. requests' \in Seq(Range(requests')) /\ DOMAIN requests' = DOMAIN requests
  BY SameLength DEF MailOK
<1>2. ASSUME NEW k \in DOMAIN requests
      PROVE  /\ Kept(k)
             /\ requests'[k].status = "answered" => requests[k].status = "answered" \/ AnswerQueued(k)
  <2> DEFINE r == requests[k]
             t == requests'[k]
  <2>1. RequestOK(r) /\ k \in DOMAIN requests'
    BY <1>1 DEF MailOK
  <2>2. /\ r \in [what : {r.what}, carries : {r.carries},
                  status : {"pending", "answered", "failed"}, attempts : 1..2]
        /\ \/ t = r
           \/ r.status = "pending" /\ r.attempts < 2 /\ t = [r EXCEPT !.attempts = @ + 1]
           \/ r.status = "pending" /\ t = [r EXCEPT !.status = "failed"]
           \/ AnswerQueued(k) /\ t = [r EXCEPT !.status = "answered"]
    BY <2>1 DEF RequestOK
  <2> HIDE DEF r, t
  <2>3. /\ t.what = r.what /\ t.carries = r.carries
        /\ t \in [what : {r.what}, carries : {r.carries},
                  status : {"pending", "answered", "failed"}, attempts : 1..2]
    BY <2>2
  <2>4. \/ t.status = r.status
        \/ r.status = "pending" /\ t.status = "failed"
        \/ AnswerQueued(k) /\ t.status = "answered"
    BY <2>2
  <2>5. RequestOK(t)
    BY <2>1, <2>3 DEF RequestOK
  <2>6. t.status = "answered" => r.status = "answered" \/ AnswerQueued(k)
    BY <2>4
  <2>7. r = requests[k] /\ t = requests'[k]
    BY DEF r, t
  <2>. QED BY <2>1, <2>3, <2>4, <2>5, <2>6, <2>7 DEF Kept
<1>. QED BY <1>1, <1>2

LEMMA ResendMail ==
    ASSUME MailOK, NEW q \in DOMAIN requests, Resend(q)
    PROVE  MailMoves
<1> DEFINE c == requests[q].carries
           w == requests[q].what
<1>1. /\ Idle /\ requests[q].status = "pending" /\ requests[q].attempts < 2
      /\ requests' = [requests EXCEPT ![q].attempts = @ + 1] /\ "resent" \in marks'
      /\ \/ Transmit(q, c, w)
         \/ dev' = Executed(c) /\ answers' = Append(answers, Answered(q, w, dev'))
  BY DEF Resend, MayResend, Pending
<1>2. ASSUME NEW k \in DOMAIN requests
      PROVE  requests'[k] = IF k = q THEN [requests[k] EXCEPT !.attempts = @ + 1] ELSE requests[k]
  BY <1>1
<1>3. requests' = [k \in DOMAIN requests |-> requests'[k]]
  BY <1>1
<1>4. /\ requests' \in Seq(Range(requests')) /\ DOMAIN requests' = DOMAIN requests
      /\ \A k \in DOMAIN requests :
           /\ Kept(k)
           /\ requests'[k].status = "answered" => requests[k].status = "answered" \/ AnswerQueued(k)
  BY <1>1, <1>2, <1>3, ChangedRequests
<1>5. /\ requests'[q].carries = c /\ requests'[q].what = w
  BY <1>4 DEF Kept
<1>6. requests'[q].status = "pending"
  <2>1. requests[q] \in [what : {w}, carries : {c},
              status : {"pending", "answered", "failed"}, attempts : 1..2]
    BY DEF MailOK, RequestOK
  <2>2. requests'[q] = [requests[q] EXCEPT !.attempts = @ + 1]
    BY <1>2
  <2>. QED BY <1>1, <2>1, <2>2
<1> HIDE DEF c, w
<1>7. dev' = Executed(c) => Executing(q)
  BY <1>1, <1>4, <1>5, <1>6 DEF Executing
<1>8. /\ answers' \in Seq(Range(answers'))
      /\ dev' = dev \/ dev' = Executed(c)
      /\ \A n \in DOMAIN answers' :
           OldAnswer(n) \/ (answers'[n] = Answered(q, w, dev') /\ dev' = Executed(c))
  <2>1. CASE Transmit(q, c, w)
    BY <2>1, TransmitMoves DEF MailOK
  <2>2. CASE dev' = Executed(c) /\ answers' = Append(answers, Answered(q, w, dev'))
    <3> DEFINE e == Answered(q, w, dev')
    <3> HIDE DEF e
    <3>1. /\ Append(answers, e) \in Seq(Range(Append(answers, e)))
          /\ Len(answers) \in Nat /\ DOMAIN answers = 1..Len(answers)
          /\ DOMAIN Append(answers, e) = 1..(Len(answers) + 1)
          /\ \A n \in DOMAIN answers : Append(answers, e)[n] = answers[n]
          /\ Append(answers, e)[Len(answers) + 1] = e
      BY AppendSeq DEF MailOK
    <3>2. answers' = Append(answers, e) /\ dev' = Executed(c)
      BY <2>2 DEF e
    <3>3. ASSUME NEW n \in DOMAIN answers' PROVE OldAnswer(n) \/ answers'[n] = e
      <4>1. n \in DOMAIN answers \/ n = Len(answers) + 1
        BY <3>1, <3>2
      <4>. QED BY <3>1, <3>2, <4>1 DEF OldAnswer
    <3>. QED BY <3>1, <3>2, <3>3 DEF e
  <2>. QED BY <1>1, <2>1, <2>2
<1>9. ASSUME NEW n \in DOMAIN answers', ~OldAnswer(n) PROVE NewAnswer(n)
  <2>1. answers'[n] = Answered(q, w, dev') /\ Executing(q)
    BY <1>7, <1>8, <1>9
  <2>2. answers'[n].request = q /\ answers'[n].values = [i \in w.in |-> dev'[i]]
    BY <2>1 DEF Answered
  <2>. QED BY <1>4, <1>5, <2>1, <2>2 DEF NewAnswer
<1>10. ASSUME NEW k \in DOMAIN requests, Undone(k) PROVE Undone(k)' \/ Executing(k)
  <2>1. requests'[k].status # "answered"
    BY <1>4, <1>10 DEF Undone
  <2>2. CASE \A n \in DOMAIN answers' : OldAnswer(n)
    BY <1>10, <2>1, <2>2 DEF Undone, AnswerQueued, OldAnswer
  <2>3. CASE \E n \in DOMAIN answers' : ~OldAnswer(n)
    <3>1. Executing(q)
      BY <1>7, <1>8, <2>3
    <3>2. CASE k = q
      BY <3>1, <3>2
    <3>3. CASE k # q
      <4>1. \A n \in DOMAIN answers' : answers'[n] = Answered(q, w, dev') => answers'[n].request = q
        BY DEF Answered
      <4>2. ASSUME NEW n \in DOMAIN answers' PROVE answers'[n].request # k
        BY <1>8, <1>10, <3>3, <4>1 DEF OldAnswer, Undone, AnswerQueued
      <4>. QED BY <2>1, <4>2 DEF Undone, AnswerQueued
    <3>. QED BY <3>2, <3>3
  <2>. QED BY <2>2, <2>3
<1>11. dev' = dev \/ Executing(q)
  BY <1>7, <1>8
<1>. QED BY <1>4, <1>8, <1>9, <1>10, <1>11 DEF MailMoves

LEMMA SlotsMail ==
    ASSUME MailOK, ResendInVain \/ GiveUp
    PROVE  MailMoves /\ DOMAIN requests' = DOMAIN requests /\ UNCHANGED <<answers, dev>>
<1>1. UNCHANGED <<answers, dev>>
  BY DEF ResendInVain, GiveUp
<1>2. requests' = [k \in DOMAIN requests |-> requests'[k]]
  <2>1. CASE ResendInVain
    <3>1. requests' = [k \in DOMAIN requests |->
             IF k \in {j \in DOMAIN requests : MayResend(j)}
             THEN [requests[k] EXCEPT !.attempts = @ + 1] ELSE requests[k]]
      BY <2>1 DEF ResendInVain, ForAll
    <3>. QED BY <3>1
  <2>2. CASE GiveUp
    <3>1. PICK late \in BOOLEAN : requests' = [k \in DOMAIN requests |->
             IF k \in {j \in DOMAIN requests : Pending(j) /\ ~MayResend(j) /\ (AnswerQueued(j) => late)}
             THEN [requests[k] EXCEPT !.status = "failed"] ELSE requests[k]]
      BY <2>2 DEF GiveUp, ForAll
    <3>. QED BY <3>1
  <2>. QED BY <2>1, <2>2
<1>3. ASSUME NEW k \in DOMAIN requests
      PROVE  \/ requests'[k] = requests[k]
             \/ /\ requests[k].status = "pending" /\ requests[k].attempts < 2
                /\ requests'[k] = [requests[k] EXCEPT !.attempts = @ + 1]
             \/ requests[k].status = "pending" /\ requests'[k] = [requests[k] EXCEPT !.status = "failed"]
  <2>1. CASE ResendInVain
    BY <2>1 DEF ResendInVain, ForAll, MayResend, Pending
  <2>2. CASE GiveUp
    BY <2>2 DEF GiveUp, ForAll, MayResend, Pending
  <2>. QED BY <2>1, <2>2
<1>4. /\ requests' \in Seq(Range(requests')) /\ DOMAIN requests' = DOMAIN requests
      /\ \A k \in DOMAIN requests :
           /\ Kept(k)
           /\ requests'[k].status = "answered" => requests[k].status = "answered" \/ AnswerQueued(k)
  BY <1>2, <1>3, ChangedRequests
<1>5. \A n \in DOMAIN answers' : OldAnswer(n)
  BY <1>1 DEF OldAnswer
<1>6. \A k \in DOMAIN requests : Undone(k) => Undone(k)'
  BY <1>1, <1>4 DEF Undone, AnswerQueued
<1>. QED BY <1>1, <1>4, <1>5, <1>6 DEF MailMoves, MailOK

LEMMA CollectMail ==
    ASSUME MailOK, answers # <<>>, UNCHANGED dev,
           Collected \/ (answers' = Tail(answers) /\ UNCHANGED requests)
    PROVE  /\ MailMoves /\ DOMAIN requests' = DOMAIN requests
           /\ \A n \in DOMAIN answers' : n + 1 \in DOMAIN answers /\ answers'[n] = answers[n + 1]
           /\ 1 \in DOMAIN answers /\ Head(answers) = answers[1] /\ answers[1].request \in DOMAIN requests
           /\ Collected => /\ requests'[answers[1].request].status = "answered"
                           /\ \A k \in DOMAIN requests :
                                 k # answers[1].request => requests'[k] = requests[k]
           /\ \A n \in DOMAIN answers : n = 1 \/ n - 1 \in DOMAIN answers'
<1>1. /\ Tail(answers) \in Seq(Range(Tail(answers)))
      /\ Len(answers) \in Nat \ {0} /\ DOMAIN answers = 1..Len(answers) /\ Head(answers) = answers[1]
      /\ 1 \in DOMAIN answers /\ DOMAIN Tail(answers) = 1..(Len(answers) - 1)
      /\ \A n \in DOMAIN Tail(answers) : Tail(answers)[n] = answers[n + 1] /\ n + 1 \in DOMAIN answers
  BY TailSeq DEF MailOK
<1>2. answers' = Tail(answers)
  BY DEF Collected
<1> DEFINE q == answers[1].request
<1>3. q \in DOMAIN requests /\ AnswerQueued(q)
  BY <1>1 DEF MailOK, AnswerQueued
<1>4. Collected => requests' = [requests EXCEPT ![q].status = "answered"]
  BY <1>1 DEF Collected
<1> HIDE DEF q
<1>5. ASSUME Collected, NEW k \in DOMAIN requests
      PROVE  requests'[k] = IF k = q THEN [requests[k] EXCEPT !.status = "answered"] ELSE requests[k]
  BY <1>3, <1>4, <1>5
<1>6. requests' = [k \in DOMAIN requests |-> requests'[k]]
  <2>1. CASE Collected
    BY <1>4, <2>1
  <2>2. CASE UNCHANGED requests
    BY <2>2, SameLength DEF MailOK
  <2>. QED BY <2>1, <2>2
<1>7. /\ requests' \in Seq(Range(requests')) /\ DOMAIN requests' = DOMAIN requests
      /\ \A k \in DOMAIN requests :
           /\ Kept(k)
           /\ requests'[k].status = "answered" => requests[k].status = "answered" \/ AnswerQueued(k)
  BY <1>3, <1>5, <1>6, ChangedRequests
<1>8. \A n \in DOMAIN answers' : OldAnswer(n)
  BY <1>1, <1>2 DEF OldAnswer
<1>9. \A k \in DOMAIN requests : Undone(k) => Undone(k)'
  BY <1>7, <1>8 DEF Undone, AnswerQueued, OldAnswer
<1>10. MailMoves
  BY <1>1, <1>2, <1>7, <1>8, <1>9 DEF MailMoves
<1>11. Collected => requests'[q].status = "answered"
  <2>1. requests[q] \in [what : {requests[q].what}, carries : {requests[q].carries},
              status : {"pending", "answered", "failed"}, attempts : 1..2]
    BY <1>3 DEF MailOK, RequestOK
  <2>. QED BY <1>3, <1>5, <2>1
<1>12. \A n \in DOMAIN answers : n = 1 \/ n - 1 \in DOMAIN answers'
  BY <1>1, <1>2
<1>. QED BY <1>1, <1>2, <1>3, <1>5, <1>7, <1>10, <1>11, <1>12 DEF q

LEMMA ReorderMail ==
    ASSUME MailOK, Reorder
    PROVE  MailMoves /\ UNCHANGED <<requests, dev>>
<1>1. /\ answers' = <<answers[2], answers[1]>> \o SubSeq(answers, 3, Len(answers))
      /\ Len(answers) > 1 /\ UNCHANGED <<requests, dev>>
  BY DEF Reorder
<1>2. /\ answers' \in Seq(Range(answers')) /\ DOMAIN answers' = DOMAIN answers
      /\ \A n \in DOMAIN answers' : \E m \in DOMAIN answers : answers'[n] = answers[m]
  BY <1>1, SwapSeq DEF MailOK
<1>3. \A k \in DOMAIN requests : Undone(k) => Undone(k)'
  BY <1>1, <1>2 DEF Undone, AnswerQueued
<1>4. \A k \in DOMAIN requests : Kept(k)
  BY <1>1 DEF Kept, MailOK
<1>. QED BY <1>1, <1>2, <1>3, <1>4 DEF MailMoves, MailOK, OldAnswer

LEMMA MailboxMail ==
    ASSUME MailOK, Mailbox
    PROVE  /\ MailMoves /\ DOMAIN requests' = DOMAIN requests
           /\ UNCHANGED <<callVars, todo, meant, result>> /\ marks \subseteq marks'
<1>1. CASE \E q \in DOMAIN requests : Resend(q)
  <2>1. PICK q \in DOMAIN requests : Resend(q)
    BY <1>1
  <2>2. MailMoves /\ requests' = [requests EXCEPT ![q].attempts = @ + 1]
    BY <2>1, ResendMail DEF Resend
  <2>. QED BY <2>1, <2>2 DEF Resend
<1>2. CASE ResendInVain \/ GiveUp
  BY <1>2, SlotsMail DEF ResendInVain, GiveUp
<1>3. CASE Dispatch \/ DispatchRefusal
  BY <1>3, CollectMail DEF Dispatch, DispatchRefusal
<1>4. CASE DispatchUnknown
  <2>1. answers # <<>>
    BY <1>4 DEF DispatchUnknown
  <2>. QED BY <1>4, <2>1, CollectMail DEF DispatchUnknown
<1>5. CASE Reorder
  BY <1>5, ReorderMail DEF Reorder
<1>6. CASE Disconnect
  BY <1>6, QuietMoves DEF Disconnect
<1>. QED BY <1>1, <1>2, <1>3, <1>4, <1>5, <1>6 DEF Mailbox, Timeouts, Receive

(***************************************************************************)
(* A call begins.                                                          *)
(***************************************************************************)
LEMMA ScriptShape ==
    ASSUME NEW group, NEW table, NEW s \in ScriptsOf(group, table)
    PROVE  /\ s.kind \in {"retry", "rmw", "between", "pair"} /\ s.group = group
           /\ DOMAIN s.calls = IF s.kind = "retry" THEN {1} ELSE {1, 2}
           /\ Len(s.calls) = IF s.kind = "retry" THEN 1 ELSE 2
<1>1. CASE \E c \in DOMAIN table : s = [kind |-> "retry", group |-> group, calls |-> <<c>>]
  <2>1. \A c : DOMAIN <<c>> = {1} /\ Len(<<c>>) = 1
    BY SMT
  <2>. QED BY <1>1, <2>1
<1>2. CASE \E c \in DOMAIN table \cap DOMAIN ReadsFor :
              s = [kind |-> "rmw", group |-> group, calls |-> <<ReadsFor[c], c>>]
  <2>1. \A c, e : DOMAIN <<c, e>> = {1, 2} /\ Len(<<c, e>>) = 2
    BY SMT
  <2>. QED BY <1>2, <2>1
<1>3. CASE \E kind \in {"between", "pair"}, pair \in (DOMAIN table) \X (DOMAIN table) :
              s = [kind |-> kind, group |-> group, calls |-> pair]
  <2>1. PICK kind \in {"between", "pair"}, pair \in (DOMAIN table) \X (DOMAIN table) :
               s = [kind |-> kind, group |-> group, calls |-> pair]
    BY <1>3
  <2>2. DOMAIN pair = {1, 2} /\ Len(pair) = 2
    BY SMT
  <2>. QED BY <2>1, <2>2
<1>. QED BY <1>1, <1>2, <1>3 DEF ScriptsOf

\* The call begins with all of its steps to be run.
LEMMA Entered ==
    ASSUME Shape', Enter(Steps')
    PROVE  Position' /\ At' = 0
<1>1. Steps' \in Seq(Range(Steps'))
  BY DEF Shape, InOrder, FunctionInOrder, Steps, StepsOf
<1>2. todo' = Steps' /\ result' = IF Steps' = <<>> THEN "PK_OK" ELSE "none"
  BY DEF Enter
<1>3. At' = 0 /\ Len(todo') <= Len(Steps')
  BY <1>1, <1>2 DEF At
<1>4. \A n \in 1..Len(todo') : todo'[n] = Steps'[At' + n]
  BY <1>1, <1>2, <1>3
<1>. QED BY <1>1, <1>2, <1>3, <1>4 DEF Position, Results

\* The first call of a script.
LEMMA BeginEnters ==
    ASSUME RunInv, FunctionsInOrder, BeginScript
    PROVE  /\ Shape' /\ Allotted' /\ MailOK' /\ Enter(Steps') /\ step' = 1
           /\ script'.kind # "none" /\ requests' = <<>> /\ answers' = <<>>
           /\ UNCHANGED <<requests, answers, faults, marks>>
           /\ \A i \in DOMAIN mirror' :
                /\ mirror'[i] = IF script'.kind = "rmw" THEN <<"unset">> ELSE <<"app1">>
                /\ dev'[i] = <<"dev", i>>
<1>1. PICK d \in Devices, group \in Groups : \E s \in ScriptsOf(group, Table(group, d)) :
         LET table == Table(group, d)
             items == UNION {AllItems(table[s.calls[k]]) : k \in DOMAIN s.calls} IN
         /\ device' = d /\ script' = s /\ step' = 1
         /\ mirror' = [i \in items |-> IF s.kind = "rmw" THEN <<"unset">> ELSE <<"app1">>]
         /\ dev' = [i \in items |-> <<"dev", i>>] /\ meant' = dev'
         /\ Enter(table[s.calls[1]])
  BY DEF BeginScript
<1> DEFINE table == Table(group, d)
<1>2. PICK s \in ScriptsOf(group, table) :
         LET items == UNION {AllItems(table[s.calls[k]]) : k \in DOMAIN s.calls} IN
         /\ device' = d /\ script' = s /\ step' = 1
         /\ mirror' = [i \in items |-> IF s.kind = "rmw" THEN <<"unset">> ELSE <<"app1">>]
         /\ dev' = [i \in items |-> <<"dev", i>>] /\ meant' = dev'
         /\ Enter(table[s.calls[1]])
  BY <1>1
<1>3. /\ script.kind = "none" /\ UNCHANGED <<requests, answers, faults, marks>>
      /\ requests = <<>> /\ answers = <<>> /\ uses.spoils = {}
  BY DEF BeginScript, RunInv
<1>4. InOrder(s, d)
  BY <1>3 DEF FunctionsInOrder
<1>5. /\ s.kind \in {"retry", "rmw", "between", "pair"} /\ s.group = group
      /\ DOMAIN s.calls = IF s.kind = "retry" THEN {1} ELSE {1, 2}
      /\ Len(s.calls) = IF s.kind = "retry" THEN 1 ELSE 2
  BY ScriptShape
<1>6. \A c : StepsOf(c)' = table[s.calls[c]]
  BY <1>2, <1>5 DEF StepsOf
<1>7. Steps' = table[s.calls[1]] /\ Steps' = StepsOf(1)'
  BY <1>2, <1>5 DEF Steps, StepsOf
<1>8. InOrder(script, device)'
  BY <1>2, <1>4
<1>9. Enter(Steps')
  BY <1>2, <1>7
<1>10. Shape'
  <2>1. uses'.spoils = Spoiled(Steps')
    BY <1>3, <1>9 DEF Enter, Spoiled
  <2>2. uses'.carries = ItemsOut(Steps') /\ uses'.reads = ItemsIn(Steps') /\ uses'.takes = ItemsTaken(Steps')
    BY <1>9 DEF Enter
  <2>3. Spoiled(StepsOf(1)') = Spoiled(Steps')
    BY <1>7
  <2>. QED BY <1>2, <1>5, <1>8, <2>1, <2>2, <2>3 DEF Shape
<1>11. Allotted'
  <2>1. DOMAIN mirror' = UNION {AllItems(table[s.calls[k]]) : k \in DOMAIN s.calls}
        /\ DOMAIN dev' = DOMAIN mirror' /\ DOMAIN meant' = DOMAIN mirror'
    BY <1>2
  <2>. QED BY <1>2, <1>6, <2>1 DEF Allotted
<1>12. ASSUME NEW i \in DOMAIN mirror'
       PROVE  /\ mirror'[i] = (IF s.kind = "rmw" THEN <<"unset">> ELSE <<"app1">>)
              /\ dev'[i] = <<"dev", i>>
  BY <1>2
<1>13. MailOK'
  BY <1>3 DEF MailOK, Range
<1>. QED BY <1>2, <1>3, <1>5, <1>9, <1>10, <1>11, <1>12, <1>13

\* The call that failed starts again from its first step.
LEMMA AgainEnters ==
    ASSUME RunInv, CallAgain
    PROVE  /\ Shape' /\ Allotted' /\ MailOK' /\ Enter(Steps')
           /\ script.kind = "retry" /\ Idle /\ Steps' = Steps /\ step = 1
           /\ result \in {"PK_ERR_TRANSFER", "PK_ERR_GENERIC"}
           /\ UNCHANGED <<device, script, step, mirror, dev, meant, requests, answers, faults, marks>>
<1>1. /\ script.kind = "retry" /\ Enter(Table(script.group, device)[script.calls[1]])
      /\ UNCHANGED <<device, script, step, mirror, dev, meant, requests, answers, faults, marks>>
      /\ Idle /\ result \in {"PK_ERR_TRANSFER", "PK_ERR_GENERIC"}
  BY DEF CallAgain
<1>2. Shape /\ Allotted /\ MailOK
  BY <1>1 DEF RunInv
<1>3. step = 1
  BY <1>1, <1>2 DEF Shape
<1>4. Steps' = Steps /\ \A c : StepsOf(c)' = StepsOf(c)
  BY <1>1, SameSteps
<1>5. Enter(Steps')
  BY <1>1, <1>3, <1>4 DEF Steps, StepsOf
<1>6. Shape'
  <2>1. InOrder(script, device)'
    BY <1>1, <1>2 DEF Shape
  <2>2. /\ uses'.carries = ItemsOut(Steps') /\ uses'.reads = ItemsIn(Steps')
        /\ uses'.takes = ItemsTaken(Steps') /\ uses'.spoils = uses.spoils \cup Spoiled(Steps')
    BY <1>5 DEF Enter, Spoiled
  <2>3. uses'.spoils = Spoiled(StepsOf(1)') \cup Spoiled(Steps')
    BY <1>2, <1>4, <2>2 DEF Shape
  <2>. QED BY <1>1, <1>2, <2>1, <2>2, <2>3 DEF Shape
<1>7. Allotted'
  BY <1>1, <1>2, <1>4 DEF Allotted
<1>8. MailOK'
  BY <1>1, <1>2, <1>4 DEF MailOK, RequestOK
<1>. QED BY <1>1, <1>3, <1>4, <1>5, <1>6, <1>7, <1>8

\* The second call of a script.
LEMMA OnwardEnters ==
    ASSUME RunInv, CallNext
    PROVE  /\ Shape /\ Shape' /\ Allotted' /\ MailOK' /\ Enter(Steps')
           /\ script.kind \in {"rmw", "between", "pair"} /\ step = 1 /\ result = "PK_OK" /\ step' = 2
           /\ Idle /\ \A c : StepsOf(c)' = StepsOf(c)
           /\ script.kind # "pair" => Settled /\ mirror' = mirror
           /\ DOMAIN mirror' = DOMAIN mirror
           /\ \A i \in DOMAIN mirror :
                 mirror'[i] = IF script.kind = "pair" /\ i \in ItemsOut(Steps') \cup Flags(Steps')
                              THEN <<"app2">> ELSE mirror[i]
           /\ UNCHANGED <<device, script, dev, meant, requests, answers, faults, marks>>
<1>1. /\ Len(script.calls) = 2 /\ step = 1 /\ result = "PK_OK" /\ step' = 2
      /\ script.kind # "none" /\ Idle /\ (script.kind # "pair" => Settled)
      /\ UNCHANGED <<device, script, dev, meant, requests, answers, faults, marks>>
      /\ Enter(Table(script.group, device)[script.calls[2]])
  BY DEF CallNext, Idle
<1>2. Shape /\ Allotted /\ MailOK
  BY <1>1 DEF RunInv
<1>3. Steps' = Table(script.group, device)[script.calls[2]] /\ \A c : StepsOf(c)' = StepsOf(c)
  BY <1>1 DEF Steps, StepsOf
<1>4. Enter(Steps')
  BY <1>1, <1>3
<1>5. mirror' = IF script.kind # "pair" THEN mirror
                ELSE [i \in DOMAIN mirror |->
                         IF i \in ItemsOut(Steps') \cup Flags(Steps') THEN <<"app2">> ELSE mirror[i]]
  BY <1>3 DEF CallNext
<1>6. Shape'
  <2>1. InOrder(script, device)'
    BY <1>1, <1>2 DEF Shape
  <2>2. /\ uses'.carries = ItemsOut(Steps') /\ uses'.reads = ItemsIn(Steps')
        /\ uses'.takes = ItemsTaken(Steps') /\ uses'.spoils = uses.spoils \cup Spoiled(Steps')
    BY <1>4 DEF Enter, Spoiled
  <2>3. uses.spoils = Spoiled(StepsOf(1))
    BY <1>1, <1>2 DEF Shape, Steps
  <2>4. uses'.spoils = Spoiled(StepsOf(1)') \cup Spoiled(Steps')
    BY <1>3, <2>2, <2>3
  <2>5. step' \in DOMAIN script.calls
    BY <1>1, <1>2 DEF Shape
  <2>. QED BY <1>1, <1>2, <2>1, <2>2, <2>4, <2>5 DEF Shape
<1>7. Allotted'
  BY <1>1, <1>2, <1>3, <1>5 DEF Allotted
<1>8. MailOK'
  <2>1. ASSUME NEW k \in DOMAIN requests' PROVE RequestOK(requests[k])'
    <3>1. \A c \in DOMAIN script.calls : c <= step => c <= step'
      BY <1>1, <1>2, CallsInOrder
    <3>. QED BY <1>1, <1>2, <1>3, <3>1 DEF MailOK, RequestOK
  <2>. QED BY <1>1, <1>2, <2>1 DEF MailOK
<1>9. script.kind \in {"rmw", "between", "pair"}
  BY <1>1, <1>2 DEF Shape
<1>. QED BY <1>1, <1>2, <1>3, <1>4, <1>5, <1>6, <1>7, <1>8, <1>9

(***************************************************************************)
(* RunInv is inductive, and gives the types.                               *)
(***************************************************************************)
Starts == BeginScript \/ CallAgain \/ CallNext
Rests == UNCHANGED vars

LEMMA NextCases == ASSUME [Next]_vars PROVE Starts \/ Calling \/ Mailbox \/ Rests
  BY DEF Next, Starts, Calling, Mailbox, Rests

LEMMA RestsAll ==
    ASSUME Rests
    PROVE  /\ UNCHANGED <<device, script, step, todo, uses, mirror, dev, meant, result, requests,
                          answers, faults, marks>>
           /\ Steps' = Steps /\ At' = At /\ (Underway' <=> Underway)
           /\ \A c : StepsOf(c)' = StepsOf(c)
<1>1. UNCHANGED <<device, script, step, todo, uses, mirror, dev, meant, result, requests,
                  answers, faults, marks>>
  BY DEF Rests, vars
<1>2. Steps' = Steps /\ \A c : StepsOf(c)' = StepsOf(c)
  BY <1>1 DEF Steps, StepsOf
<1>. QED BY <1>1, <1>2 DEF At, Underway

LEMMA SameDomains ==
    ASSUME Calling \/ Mailbox
    PROVE  /\ DOMAIN mirror' = DOMAIN mirror /\ DOMAIN dev' = DOMAIN dev
           /\ DOMAIN meant' = DOMAIN meant
<1>1. \A carries : DOMAIN Executed(carries) = DOMAIN dev
  BY DEF Executed
<1>2. \A k, carries, what : Transmit(k, carries, what) => DOMAIN dev' = DOMAIN dev
  BY <1>1 DEF Transmit
<1>3. \A rest, new : Continue(rest, new) => mirror' = new /\ DOMAIN meant' = DOMAIN meant
  BY DEF Continue
<1>4. \A items, token : DOMAIN Overlay(mirror, items, token) = DOMAIN mirror
  BY DEF Overlay
<1>5. CASE Run
  BY <1>3, <1>4, <1>5 DEF Run, PassOver, AssignFields, Select, ReturnEarly, ReturnWith,
     CompareWithCopy
<1>6. CASE Send
  BY <1>1, <1>2, <1>3, <1>6 DEF Send, Submit, SubmitUnsent, NoFreeSlot, FailOrSkip, SendSilently,
     ReturnWith
<1>7. CASE Timeouts
  BY <1>1, <1>2, <1>7 DEF Timeouts, Resend, ResendInVain, GiveUp
<1>8. CASE Receive
  BY <1>4, <1>8 DEF Receive, Dispatch, Parsed, DispatchRefusal, DispatchUnknown, Reorder, Disconnect
<1>. QED BY <1>5, <1>6, <1>7, <1>8 DEF Calling, Mailbox

\* A step of the function, or of the mailbox, is one of a script.
LEMMA StepRuns ==
    ASSUME RunInv, Calling \/ Mailbox
    PROVE  script.kind # "none" /\ Shape /\ Position /\ Allotted /\ MailOK
<1>1. CASE Calling
  BY <1>1, CallingEnabled DEF RunInv
<1>2. CASE Mailbox
  BY <1>2 DEF RunInv, Mailbox, Timeouts, Receive, Resend, ResendInVain, GiveUp, Dispatch,
     DispatchRefusal, DispatchUnknown, Reorder, Disconnect, Idle
<1>. QED BY <1>1, <1>2 DEF RunInv

LEMMA MailKept ==
    ASSUME MailOK, MailMoves, UNCHANGED callVars, Shape, Position
    PROVE  MailOK'
<1>1. ASSUME NEW k \in DOMAIN requests' PROVE RequestOK(requests[k])'
  <2>1. RequestOK(requests'[k])
    BY DEF MailMoves, Kept, Made
  <2>2. step' = step /\ \A c : StepsOf(c)' = StepsOf(c)
    BY SameSteps DEF callVars
  <2>. QED BY <2>1, <2>2 DEF RequestOK, callVars
<1>2. ASSUME NEW n \in DOMAIN answers' PROVE answers'[n].request \in DOMAIN requests'
  <2>1. CASE OldAnswer(n)
    BY <2>1 DEF OldAnswer, MailOK, MailMoves, Kept
  <2>2. CASE NewAnswer(n)
    BY <2>2 DEF NewAnswer
  <2>. QED BY <2>1, <2>2 DEF MailMoves
<1>. QED BY <1>1, <1>2 DEF MailOK, MailMoves

LEMMA RunStep ==
    ASSUME RunInv, FunctionsInOrder, [Next]_vars
    PROVE  RunInv'
<1>1. CASE Starts
  <2>1. Shape' /\ Allotted' /\ MailOK' /\ Enter(Steps')
    BY <1>1, BeginEnters, AgainEnters, OnwardEnters DEF Starts
  <2>2. Position' /\ script'.kind # "none"
    BY <2>1, Entered DEF Shape
  <2>. QED BY <2>1, <2>2 DEF RunInv
<1>2. CASE Calling \/ Mailbox
  <2>1. script.kind # "none" /\ Shape /\ Position /\ Allotted /\ MailOK
    BY <1>2, StepRuns
  <2>2. UNCHANGED callVars /\ MailMoves
    BY <1>2, <2>1, CallingEnabled, CallingMail, MailboxMail DEF callVars
  <2>3. Steps' = Steps /\ \A c : StepsOf(c)' = StepsOf(c)
    BY <2>2, SameSteps DEF callVars
  <2>4. Shape'
    BY <2>1, <2>2, <2>3 DEF Shape, callVars
  <2>5. Allotted'
    BY <1>2, <2>1, <2>2, <2>3, SameDomains DEF Allotted, callVars
  <2>6. Position'
    <3>1. CASE Calling
      BY <2>1, <3>1, CallingPosition
    <3>2. CASE Mailbox
      <4>1. UNCHANGED <<todo, result>>
        BY <2>1, <3>2, MailboxMail
      <4>2. At' = At
        BY <2>3, <4>1 DEF At
      <4>. QED BY <2>1, <2>3, <4>1, <4>2 DEF Position
    <3>. QED BY <1>2, <3>1, <3>2
  <2>7. MailOK'
    BY <2>1, <2>2, MailKept
  <2>. QED BY <2>1, <2>2, <2>4, <2>5, <2>6, <2>7 DEF RunInv, callVars
<1>3. CASE Rests
  <2>1. Shape' <=> Shape
    BY <1>3, RestsAll DEF Shape
  <2>2. Position' <=> Position
    BY <1>3, RestsAll DEF Position
  <2>3. (Allotted' <=> Allotted) /\ (MailOK' <=> MailOK)
    BY <1>3, RestsAll DEF Allotted, MailOK, RequestOK
  <2>. QED BY <1>3, <2>1, <2>2, <2>3, RestsAll DEF RunInv
<1>. QED BY <1>1, <1>2, <1>3, NextCases

\* Faults and disturbances are counted and named.
FaultsInv == faults \in 0..MaxFaults /\ marks \subseteq Disturbances

LEMMA FaultsStep == FaultsInv /\ [Next]_vars => FaultsInv'
<1> SUFFICES ASSUME FaultsInv, [Next]_vars PROVE FaultsInv'
  OBVIOUS
<1>1. faults' = faults \/ (faults < MaxFaults /\ faults' = faults + 1)
  <2>1. \A k, carries, what : Transmit(k, carries, what) =>
           faults' = faults \/ (faults < MaxFaults /\ faults' = faults + 1)
    BY DEF Transmit, Fault
  <2>2. CASE Starts
    BY <2>2 DEF Starts, BeginScript, CallAgain, CallNext
  <2>3. CASE Calling
    BY <2>1, <2>3 DEF Calling, Run, Send, PassOver, AssignFields, Select, ReturnEarly, CompareWithCopy,
       Submit, SubmitUnsent, NoFreeSlot, SendSilently, Fault
  <2>4. CASE Mailbox
    <3>1. ASSUME NEW q \in DOMAIN requests, Resend(q)
          PROVE  faults' = faults \/ (faults < MaxFaults /\ faults' = faults + 1)
      <4>1. CASE AnswerQueued(q)
        BY <3>1, <4>1 DEF Resend
      <4>2. CASE ~AnswerQueued(q)
        BY <2>1, <3>1, <4>2 DEF Resend
      <4>. QED BY <4>1, <4>2
    <3>2. CASE ~ \E q \in DOMAIN requests : Resend(q)
      BY <2>4, <3>2 DEF Mailbox, Timeouts, Receive, ResendInVain, GiveUp, Dispatch, DispatchRefusal,
         DispatchUnknown, Reorder, Disconnect, Fault
    <3>. QED BY <3>1, <3>2
  <2>5. CASE Rests
    BY <2>5, RestsAll
  <2>. QED BY <2>2, <2>3, <2>4, <2>5, NextCases
<1>2. \E d \in Disturbances : marks' \in {marks, marks \cup {d}}
  <2>1. "dropped" \in Disturbances /\ "unsent" \in Disturbances /\ "resent" \in Disturbances
        /\ "reordered" \in Disturbances /\ "refused" \in Disturbances /\ "lost" \in Disturbances
        /\ "gone" \in Disturbances
    BY DEF Disturbances
  <2>2. CASE Starts
    BY <2>1, <2>2 DEF Starts, BeginScript, CallAgain, CallNext
  <2>3. CASE Calling
    BY <2>1, <2>3 DEF Calling, Run, Send, PassOver, AssignFields, Select, ReturnEarly, CompareWithCopy,
       Submit, SubmitUnsent, NoFreeSlot, SendSilently
  <2>4. CASE Mailbox
    BY <2>1, <2>4 DEF Mailbox, Timeouts, Receive, Resend, ResendInVain, GiveUp, Dispatch,
       DispatchRefusal, DispatchUnknown, Reorder, Disconnect
  <2>5. CASE Rests
    BY <2>1, <2>5, RestsAll
  <2>. QED BY <2>2, <2>3, <2>4, <2>5, NextCases
<1>. QED BY <1>1, <1>2, AsyncCallsAssumption DEF FaultsInv

LEMMA RunInvTypes == RunInv /\ FaultsInv => TypeOK
<1> SUFFICES ASSUME RunInv, FaultsInv PROVE TypeOK
  OBVIOUS
<1>1. CASE script.kind = "none"
  BY <1>1 DEF TypeOK, RunInv, FaultsInv
<1>2. CASE script.kind # "none"
  <2>1. Shape /\ Position /\ Allotted /\ MailOK
    BY <1>2 DEF RunInv
  <2>2. step \in 0..Len(script.calls)
    BY <2>1 DEF Shape
  <2>3. ASSUME NEW k \in DOMAIN requests
        PROVE  requests[k].status \in {"pending", "answered", "failed"} /\ requests[k].attempts \in 1..2
    <3>1. requests[k] \in [what : {requests[k].what}, carries : {requests[k].carries},
                           status : {"pending", "answered", "failed"}, attempts : 1..2]
      BY <2>1 DEF MailOK, RequestOK
    <3>. QED BY <3>1
  <2>. QED BY <2>1, <2>2, <2>3 DEF TypeOK, Shape, Position, Allotted, MailOK, FaultsInv
<1>. QED BY <1>1, <1>2

LEMMA RunInit == Init => RunInv /\ FaultsInv
  BY AsyncCallsAssumption DEF Init, RunInv, FaultsInv

\* Types of all that the calls and the mailbox change, for any number of faults: no
\* call returns anything but a result of the API, and every answer belongs to a request.
THEOREM TypeCorrect == Spec /\ []FunctionsInOrder => []TypeOK
<1>1. RunInv /\ FaultsInv /\ FunctionsInOrder /\ [Next]_vars => RunInv' /\ FaultsInv'
  BY RunStep, FaultsStep
<1>. QED BY RunInit, <1>1, RunInvTypes, PTL DEF Spec

(***************************************************************************)
(* What a step does to one item.                                           *)
(***************************************************************************)
\* The structure, while the function runs.
LEMMA FieldMoves ==
    ASSUME Shape, Position, Calling, NEW i \in DOMAIN mirror
    PROVE  /\ Untouched(Now, i) => mirror'[i] = mirror[i]
           /\ Exchanges(Now) => mirror' = mirror
           /\ Now.kind = "assign" => mirror'[i] = mirror[i] \/ (i \in Now.in /\ mirror'[i] = <<Now.token>>)
           /\ Assigns(Now, i) /\ ~Passed(Now) => mirror'[i] = <<Now.token>>
<1>1. todo # <<>> /\ WellFormed(Now)
  BY CallingEnabled, NextStep, StepsInOrder
<1>2. \A rest, new : Continue(rest, new) => mirror' = new
  BY DEF Continue
<1>3. CASE PassOver
  BY <1>2, <1>3 DEF PassOver
<1>4. CASE AssignFields
  <2>1. mirror'[i] = IF i \in Now.in THEN <<Now.token>> ELSE mirror[i]
    BY <1>2, <1>4 DEF AssignFields, Overlay
  <2>2. Now.kind = "assign"
    BY <1>4 DEF AssignFields, Runs
  <2>. QED BY <2>1, <2>2 DEF Untouched, Exchanges, Assigns
<1>5. CASE Select
  <2>1. PICK token : mirror' = Overlay(mirror, {j \in DOMAIN mirror : j[1] = "param1"}, token)
    BY <1>2, <1>5 DEF Select
  <2>2. Now.kind = "select" /\ (i[1] # "param1" => mirror'[i] = mirror[i])
    BY <1>5, <2>1 DEF Select, Runs, Overlay
  <2>. QED BY <2>2 DEF Untouched, Exchanges, Assigns
<1>6. CASE ReturnEarly
  BY <1>6 DEF ReturnEarly, ReturnWith, Runs, Exchanges, Assigns
<1>7. CASE CompareWithCopy
  <2>1. Now.kind = "compare" /\ Now.in # {}
    BY <1>1, <1>7 DEF CompareWithCopy, Runs, WellFormed
  <2>2. \E copy \in Now.in : mirror' = mirror \/ \E token : mirror' = [mirror EXCEPT ![copy] = token]
    <3>1. (CHOOSE j \in Now.in : TRUE) \in Now.in
      BY <2>1
    <3>. QED BY <1>2, <1>7, <3>1 DEF CompareWithCopy
  <2>. QED BY <2>1, <2>2 DEF Untouched, Exchanges, Assigns
<1>8. CASE Send
  <2>1. mirror' = mirror /\ Now.kind = "exchange"
    BY <1>2, <1>8 DEF Send, Submit, SubmitUnsent, NoFreeSlot, SendSilently, FailOrSkip, ReturnWith,
       MailboxStep, Runs
  <2>. QED BY <2>1 DEF Assigns
<1>. QED BY <1>3, <1>4, <1>5, <1>6, <1>7, <1>8 DEF Calling, Run

\* What the program has asked for is what the structure holds when the call is over.
LEMMA MeantMoves ==
    ASSUME Shape, Position, Calling
    PROVE  /\ ~Underway' \/ todo' # <<>> => meant' = meant
           /\ Underway' /\ todo' = <<>> =>
                 \A i \in DOMAIN meant : meant'[i] = IF i \in uses.carries THEN mirror'[i] ELSE meant[i]
<1>1. todo # <<>> /\ WellFormed(Now)
  BY CallingEnabled, NextStep, StepsInOrder
<1>2. (\E rest, new : Continue(rest, new)) \/ ReturnWith(Now.result)
  BY DEF Calling, Run, Send, PassOver, AssignFields, Select, ReturnEarly,
     CompareWithCopy, Submit, SubmitUnsent, NoFreeSlot, SendSilently, FailOrSkip
<1>3. CASE \E rest, new : Continue(rest, new)
  BY <1>3 DEF Continue, Underway
<1>4. CASE ReturnWith(Now.result)
  <2>1. Now.kind \in {"exchange", "return", "assign", "select", "compare"} /\ Now.result \in Results \ {"PK_OK"}
    BY <1>1 DEF WellFormed
  <2>. QED BY <1>4, <2>1 DEF ReturnWith, Underway, Results
<1>. QED BY <1>2, <1>3, <1>4

LEMMA RunQuiet ==
    ASSUME Run
    PROVE  /\ UNCHANGED <<requests, answers, dev, marks, faults>>
           /\ Passed(Now) \/ ~Exchanges(Now)
           /\ Passed(Now) => mirror' = mirror
<1>1. \A new : Continue(Tail(todo), new) => mirror' = new
  BY DEF Continue
<1>. QED BY <1>1 DEF Run, PassOver, AssignFields, Select, ReturnEarly, CompareWithCopy, Runs, Exchanges

\* A request is made, or there is no slot for it, or the data go past the mailbox.
RequestMade(carries) ==
    /\ ~Now.silent /\ requests' = Append(requests, NewRequest(carries))
    /\ \/ /\ dev' = Executed(carries)
          /\ answers' = Append(answers, Answered(Len(requests) + 1, Now, dev'))
       \/ dev' \in {dev, Executed(carries)} /\ UNCHANGED answers
NothingMade ==
    /\ ("dropped" \in marks' /\ Now.onFail = "skip") \/ ~Underway'
    /\ UNCHANGED <<requests, answers, dev>>
WentPast(carries) ==
    /\ Now.silent /\ UNCHANGED <<requests, answers>>
    /\ dev' = Executed(carries) \/ (("lost" \in marks' \/ ~Underway') /\ UNCHANGED dev)

LEMMA SendMoves ==
    ASSUME Shape, Position, Send
    PROVE  /\ Exchanges(Now) /\ ~Passed(Now) /\ mirror' = mirror
           /\ marks \subseteq marks' /\ ("resent" \in marks' => "resent" \in marks)
           /\ \E carries \in Contents : RequestMade(carries) \/ NothingMade \/ WentPast(carries)
<1>1. todo # <<>> /\ WellFormed(Now)
  BY CallingEnabled, NextStep, StepsInOrder DEF Calling
<1>2. Exchanges(Now) /\ ~Passed(Now)
  BY DEF Send, Submit, SubmitUnsent, NoFreeSlot, SendSilently, MailboxStep, Runs, Exchanges
<1>3. mirror' = mirror
  BY DEF Send, Submit, SubmitUnsent, NoFreeSlot, SendSilently, FailOrSkip, ReturnWith, Continue
<1>4. marks \subseteq marks' /\ ("resent" \in marks' => "resent" \in marks)
  BY DEF Send, Submit, SubmitUnsent, NoFreeSlot, SendSilently
<1>5. \E carries : carries \in Contents
  BY DEF Contents
<1>6. ReturnWith(Now.result) => ~Underway'
  BY <1>1 DEF ReturnWith, Underway, WellFormed, Results
<1>7. CASE Submit
  <2>1. PICK carries \in Contents :
           /\ requests' = Append(requests, NewRequest(carries))
           /\ Transmit(Len(requests) + 1, carries, Now) /\ ~Now.silent
    BY <1>7 DEF Submit, MailboxStep
  <2>2. RequestMade(carries)
    BY <2>1 DEF RequestMade, Transmit
  <2>. QED BY <1>2, <1>3, <1>4, <2>2
<1>8. CASE SubmitUnsent
  <2>1. PICK carries \in Contents : RequestMade(carries)
    BY <1>8 DEF SubmitUnsent, MailboxStep, RequestMade
  <2>. QED BY <1>2, <1>3, <1>4, <2>1
<1>9. CASE NoFreeSlot
  <2>1. Now.onFail = "skip" \/ ~Underway'
    BY <1>6, <1>9 DEF NoFreeSlot, FailOrSkip
  <2>. QED BY <1>2, <1>3, <1>4, <1>5, <1>9, <2>1 DEF NoFreeSlot, NothingMade
<1>10. CASE SendSilently
  <2>1. Now.silent /\ UNCHANGED <<requests, answers>>
    BY <1>10 DEF SendSilently
  <2>2. \/ \E carries \in Contents : dev' = Executed(carries)
        \/ "lost" \in marks' /\ UNCHANGED dev
        \/ ~Underway' /\ UNCHANGED dev
    BY <1>6, <1>10 DEF SendSilently
  <2>. QED BY <1>2, <1>3, <1>4, <1>5, <2>1, <2>2 DEF WentPast
<1>. QED BY <1>2, <1>3, <1>4, <1>7, <1>8, <1>9, <1>10 DEF Send

\* What a request carries.
LEMMA ContentsOf ==
    ASSUME NEW carries \in Contents
    PROVE  /\ DOMAIN carries = Now.out \cup Now.zeroes
           /\ \A i \in DOMAIN carries : i \notin Now.zeroes \cup Now.garbles \cup Now.unsure =>
                 carries[i] = mirror[i]
  BY DEF Contents

(***************************************************************************)
(* An item that the device holds, or that a request still has for it.      *)
(***************************************************************************)
Carrying(k, i, v) == i \in DOMAIN requests[k].carries /\ requests[k].carries[i] = v
Covered(i, v) == dev[i] = v \/ \E k \in DOMAIN requests : Undone(k) /\ Carrying(k, i, v)
CoversNext(i, v) ==
    dev'[i] = v \/ \E k \in DOMAIN requests' :
                      /\ Undone(k)'
                      /\ i \in DOMAIN requests'[k].carries /\ requests'[k].carries[i] = v

LEMMA CoverKept ==
    ASSUME Allotted, MailOK, MailMoves, NEW i \in DOMAIN dev, NEW v, Covered(i, v),
           \A k \in DOMAIN requests' :
              Executing(k) /\ i \in DOMAIN requests'[k].carries => requests'[k].carries[i] = v,
           SentPast => dev'[i] \in {dev[i], v}
    PROVE  CoversNext(i, v)
<1>1. \A k \in DOMAIN requests' :
         Executing(k) => dev'[i] = IF i \in DOMAIN requests'[k].carries THEN v ELSE dev[i]
  BY DEF Executing, Executed
<1>2. CASE dev[i] = v
  BY <1>1, <1>2 DEF CoversNext, MailMoves
<1>3. CASE \E k \in DOMAIN requests : Undone(k) /\ Carrying(k, i, v)
  <2>1. PICK k \in DOMAIN requests : Undone(k) /\ Carrying(k, i, v)
    BY <1>3
  <2>2. k \in DOMAIN requests' /\ requests'[k].carries = requests[k].carries /\ (Undone(k)' \/ Executing(k))
    BY <2>1 DEF MailMoves, Kept
  <2>. QED BY <1>1, <2>1, <2>2 DEF CoversNext, Carrying
<1>. QED BY <1>2, <1>3 DEF Covered

\* A step that sends the item leaves it covered, unless it goes past the mailbox, or fails.
LEMMA SendCovers ==
    ASSUME Shape, Position, Allotted, MailOK, Send, NEW i \in DOMAIN dev, i \in Now.out,
           i \notin Now.zeroes \cup Now.garbles \cup Now.unsure, Underway',
           "dropped" \notin marks' \/ Call \notin IgnoresFailures,
           "lost" \notin marks' \/ ~Now.silent
    PROVE  CoversNext(i, mirror[i])
<1>1. todo # <<>> /\ (Now.onFail = "skip" => Call \in IgnoresFailures)
  BY CallingEnabled, NextStep, StepsInOrder DEF Calling
<1>2. PICK carries \in Contents : RequestMade(carries) \/ NothingMade \/ WentPast(carries)
  BY SendMoves
<1>3. i \in DOMAIN carries /\ carries[i] = mirror[i]
  BY ContentsOf
<1>4. dev' = Executed(carries) => dev'[i] = mirror[i]
  BY <1>3 DEF Executed
<1>5. ~NothingMade
  BY <1>1 DEF NothingMade
<1>6. CASE WentPast(carries)
  BY <1>4, <1>6 DEF WentPast, CoversNext
<1>7. CASE RequestMade(carries) /\ UNCHANGED answers
  <2>1. MailboxStep
    BY <1>7, SendMoves, <1>1 DEF RequestMade, MailboxStep, Runs, Exchanges
  <2>2. PICK q \in DOMAIN requests' :
           requests'[q] = NewRequest(carries) /\ \A n \in DOMAIN answers : answers[n].request # q
    BY <1>7, <2>1, AppendMoves DEF RequestMade
  <2>3. requests'[q].carries = carries /\ requests'[q].status = "pending"
    BY <2>2 DEF NewRequest
  <2>4. Undone(q)'
    BY <1>7, <2>2, <2>3 DEF Undone, AnswerQueued
  <2>. QED BY <1>3, <2>2, <2>3, <2>4 DEF CoversNext
<1>8. CASE RequestMade(carries) /\ ~UNCHANGED answers
  BY <1>4, <1>8 DEF RequestMade, CoversNext
<1>. QED BY <1>2, <1>5, <1>6, <1>7, <1>8

(***************************************************************************)
(* Requests that may still be executed or answered.                        *)
(***************************************************************************)
Live(k) == requests[k].status = "pending" \/ AnswerQueued(k)

LEMMA LiveKept ==
    ASSUME MailOK, MailMoves, NEW k \in DOMAIN requests', Live(k)'
    PROVE  \/ k \in DOMAIN requests /\ Live(k) /\ requests'[k].what = requests[k].what
              /\ requests'[k].carries = requests[k].carries
           \/ k \notin DOMAIN requests /\ Made(k)
<1>1. CASE k \notin DOMAIN requests
  BY <1>1 DEF MailMoves
<1>2. CASE k \in DOMAIN requests
  <2>1. Kept(k)
    BY <1>2 DEF MailMoves
  <2>2. CASE requests'[k].status = "pending"
    BY <1>2, <2>1, <2>2 DEF Kept, Live
  <2>3. CASE requests'[k].status # "pending"
    <3>1. PICK n \in DOMAIN answers' : answers'[n].request = k
      BY <2>3 DEF Live, AnswerQueued
    <3>2. OldAnswer(n)
      BY <2>3, <3>1 DEF MailMoves, NewAnswer, Executing
    <3>3. Live(k)
      BY <3>1, <3>2 DEF OldAnswer, Live, AnswerQueued
    <3>. QED BY <1>2, <2>1, <3>3 DEF Kept
  <2>. QED BY <2>2, <2>3
<1>. QED BY <1>1, <1>2

\* Without a second call in between, they are all of the call that runs.
LiveInv ==
    script.kind \notin {"none", "pair"} =>
        \A k \in DOMAIN requests : Live(k) => requests[k].what \in Range(Steps)

LEMMA SettledDead ==
    ASSUME Settled
    PROVE  answers = <<>> /\ \A k \in DOMAIN requests : ~Live(k)
  BY DEF Settled, Live, AnswerQueued

LEMMA NowOfSteps ==
    ASSUME Shape, Position, todo # <<>>
    PROVE  Now \in Range(Steps) /\ \E m \in DOMAIN Steps : Now = Steps[m]
  BY NextStep DEF Range

LEMMA LiveInvStep ==
    ASSUME RunInv, LiveInv, FunctionsInOrder, [Next]_vars
    PROVE  LiveInv'
<1> SUFFICES ASSUME script'.kind \notin {"none", "pair"}, NEW k \in DOMAIN requests', Live(k)'
             PROVE  requests'[k].what \in Range(Steps')
  BY DEF LiveInv
<1>1. CASE BeginScript
  BY <1>1, BeginEnters
<1>2. CASE CallAgain
  <2>1. UNCHANGED <<requests, answers, script>> /\ Steps' = Steps
    BY <1>2, AgainEnters
  <2>. QED BY <2>1 DEF LiveInv, Live, AnswerQueued
<1>3. CASE CallNext
  <2>1. UNCHANGED <<requests, answers, script>> /\ Settled
    BY <1>3, OnwardEnters
  <2>. QED BY <2>1, SettledDead DEF Live, AnswerQueued
<1>4. CASE Calling \/ Mailbox
  <2>1. Shape /\ Position /\ MailOK
    BY <1>4, StepRuns
  <2>2. UNCHANGED callVars /\ MailMoves
    BY <1>4, <2>1, CallingEnabled, CallingMail, MailboxMail DEF callVars
  <2>3. Steps' = Steps /\ script' = script
    BY <2>2, SameSteps DEF callVars
  <2>4. CASE k \in DOMAIN requests
    BY <2>1, <2>2, <2>3, <2>4, LiveKept DEF LiveInv
  <2>5. CASE k \notin DOMAIN requests
    <3>1. Made(k)
      BY <2>1, <2>2, <2>5, LiveKept
    <3>2. todo # <<>> /\ requests'[k].what = Now
      BY <3>1 DEF Made, MailboxStep, Runs
    <3>. QED BY <2>1, <2>3, <3>2, NowOfSteps
  <2>. QED BY <2>4, <2>5
<1>5. CASE Rests
  BY <1>5, RestsAll DEF LiveInv, Live, AnswerQueued
<1>. QED BY <1>1, <1>2, <1>3, <1>4, <1>5, NextCases DEF Starts

(***************************************************************************)
(* What an answer does to one item.                                        *)
(***************************************************************************)
InPlace(w) == \A x \in w.in : PlaceOf(w, x) = x
ReadBy(n) == requests[answers[n].request].what

\* The first of the answers, and what becomes of the others.
LEMMA FirstAnswer ==
    ASSUME MailOK, answers # <<>>
    PROVE  /\ 1 \in DOMAIN answers /\ First = requests[answers[1].request] /\ First.what = ReadBy(1)
           /\ answers[1].request \in DOMAIN requests /\ Head(answers) = answers[1]
           /\ Exchanges(First.what) /\ RequestOK(First) /\ Live(answers[1].request)
<1>1. 1 \in DOMAIN answers /\ Head(answers) = answers[1]
  BY TailSeq DEF MailOK
<1>. QED BY <1>1 DEF MailOK, First, RequestOK, ReadBy, Live, AnswerQueued

LEMMA DispatchField ==
    ASSUME MailOK, Dispatch, NEW i \in DOMAIN mirror
    PROVE  /\ \/ ~Touches(ReadBy(1), i)
              \/ i \notin ReadBy(1).in \cup ReadBy(1).clears /\ InPlace(ReadBy(1))
              => mirror'[i] = mirror[i]
           /\ i \in ReadBy(1).in /\ InPlace(ReadBy(1)) =>
                 mirror'[i] = IF i \in ReadBy(1).misreads THEN <<"stray">>
                              ELSE IF \E n \in ReadBy(1).needs : n \in DOMAIN mirror /\ ~Known(n)
                                   THEN <<"zero">>
                              ELSE answers[1].values[i]
<1>1. answers # <<>>
  BY DEF Dispatch
<1> DEFINE w == ReadBy(1)
           values == answers[1].values
           sources == {x \in w.in : PlaceOf(w, x) = i}
<1>2. Exchanges(w) /\ mirror' = Parsed(w, values)
  BY <1>1, FirstAnswer DEF Dispatch
<1>3. mirror'[i] = IF sources = {} THEN IF i \in w.clears THEN <<"zero">> ELSE mirror[i]
                   ELSE LET s == CHOOSE s \in sources : TRUE IN
                        IF s \in w.misreads THEN <<"stray">>
                        ELSE IF \E n \in w.needs : n \in DOMAIN mirror /\ ~Known(n) THEN <<"zero">>
                        ELSE values[s]
  BY <1>2 DEF Parsed
<1>4. ASSUME ~Touches(w, i) \/ (i \notin w.in \cup w.clears /\ InPlace(w))
      PROVE  sources = {} /\ i \notin w.clears
  <2>1. (i \in w.clears => Touches(w, i)) /\ \A x \in w.in : PlaceOf(w, x) = i => Touches(w, i)
    BY <1>2 DEF PlaceOf, Touches
  <2>. QED BY <1>4, <2>1 DEF InPlace
<1>5. ASSUME i \in w.in, InPlace(w) PROVE sources = {i} /\ (CHOOSE s \in sources : TRUE) = i
  <2>1. sources = {i}
    BY <1>5 DEF InPlace
  <2>. QED BY <2>1
<1> HIDE DEF w, values, sources
<1>6. ~Touches(w, i) \/ (i \notin w.in \cup w.clears /\ InPlace(w)) => mirror'[i] = mirror[i]
  BY <1>3, <1>4
<1>7. i \in w.in /\ InPlace(w) =>
         mirror'[i] = IF i \in w.misreads THEN <<"stray">>
                      ELSE IF \E n \in w.needs : n \in DOMAIN mirror /\ ~Known(n) THEN <<"zero">>
                      ELSE values[i]
  BY <1>3, <1>5
<1>. QED BY <1>6, <1>7 DEF w, values

LEMMA MailboxField ==
    ASSUME MailOK, Mailbox, NEW i \in DOMAIN mirror
    PROVE  /\ ~Dispatch /\ ~DispatchRefusal => mirror' = mirror
           /\ DispatchRefusal => /\ "refused" \in marks' /\ answers # <<>> /\ ReadBy(1).refusable
                                 /\ mirror'[i] = IF i \in ReadBy(1).drops THEN <<"zero">> ELSE mirror[i]
<1>1. ~Dispatch /\ ~DispatchRefusal => mirror' = mirror
  BY DEF Mailbox, Timeouts, Receive, Resend, ResendInVain, GiveUp, DispatchUnknown, Reorder,
     Disconnect
<1>2. DispatchRefusal => /\ "refused" \in marks' /\ answers # <<>> /\ First.what.refusable
                         /\ mirror'[i] = IF i \in First.what.drops THEN <<"zero">> ELSE mirror[i]
  BY DEF DispatchRefusal, Overlay
<1>. QED BY <1>1, <1>2, FirstAnswer

(***************************************************************************)
(* An item that every request has the same value of.                       *)
(***************************************************************************)
Named(i)  == \E m \in DOMAIN Steps : Assigns(Steps[m], i)
Target(i) == IF Named(i) THEN <<Steps[CHOOSE m \in DOMAIN Steps : Assigns(Steps[m], i)].token>>
             ELSE mirror[i]
Given(i)  == \E m \in DOMAIN Steps : m <= At /\ Assigns(Steps[m], i)
Same(i)   == script.kind \notin {"none", "pair"} /\ Steady(Steps, i) /\ i \notin Spoiled(Steps)

ValueOf(i) ==
    /\ \A k \in DOMAIN requests :
          Live(k) /\ i \in DOMAIN requests[k].carries => requests[k].carries[i] = Target(i)
    /\ \A n \in DOMAIN answers : i \in ReadBy(n).in => answers[n].values[i] = Target(i)
    /\ Underway /\ Given(i) => mirror[i] = Target(i)
    /\ result = "PK_OK" /\ i \in uses.carries => meant[i] = Target(i)
ValueInv == \A i \in DOMAIN mirror : Same(i) => ValueOf(i)

LEMMA TargetOf ==
    ASSUME NEW i, Steady(Steps, i), NEW m \in DOMAIN Steps, Assigns(Steps[m], i)
    PROVE  Target(i) = <<Steps[m].token>>
<1>1. Named(i) /\ Assigns(Steps[CHOOSE n \in DOMAIN Steps : Assigns(Steps[n], i)], i)
  BY DEF Named
<1>. QED BY <1>1 DEF Target, Steady, Named

\* What stays in a call, and what changes it.
LEMMA InCall ==
    ASSUME RunInv, Calling \/ Mailbox
    PROVE  /\ script.kind # "none" /\ Shape /\ Position /\ Allotted /\ MailOK /\ MailMoves
           /\ UNCHANGED <<device, script, step, uses>> /\ Steps' = Steps
           /\ \A c : StepsOf(c)' = StepsOf(c)
           /\ DOMAIN mirror' = DOMAIN mirror /\ DOMAIN dev' = DOMAIN dev /\ DOMAIN meant' = DOMAIN meant
           /\ marks \subseteq marks' /\ RunInv'
<1>1. script.kind # "none" /\ Shape /\ Position /\ Allotted /\ MailOK
  BY StepRuns
<1>2. UNCHANGED callVars /\ MailMoves
  BY <1>1, CallingEnabled, CallingMail, MailboxMail DEF callVars
<1>3. Steps' = Steps /\ \A c : StepsOf(c)' = StepsOf(c)
  BY <1>2, SameSteps DEF callVars
<1>4. marks \subseteq marks'
  BY <1>1, RunQuiet, SendMoves, MailboxMail DEF Calling
<1>5. RunInv'
  <2>1. FunctionsInOrder
    BY <1>1 DEF FunctionsInOrder
  <2>2. [Next]_vars
    BY DEF Next, Calling, Mailbox
  <2>. QED BY <2>1, <2>2, RunStep
<1>. QED BY <1>1, <1>2, <1>3, <1>4, <1>5, SameDomains DEF callVars

\* In a call the item changes only as it is assigned.
LEMMA TargetKept ==
    ASSUME RunInv, LiveInv, ValueInv, Calling \/ Mailbox, NEW i \in DOMAIN mirror, Same(i)
    PROVE  /\ mirror'[i] = mirror[i] \/ (Named(i) /\ mirror'[i] = Target(i))
           /\ Target(i)' = Target(i) /\ (Named(i)' <=> Named(i))
<1>1. Shape /\ Position /\ MailOK /\ Steps' = Steps
  BY InCall
<1>2. Steady(Steps, i) /\ i \notin Spoiled(Steps) /\ ValueOf(i) /\ script.kind \notin {"none", "pair"}
  BY DEF Same, ValueInv
<1>3. mirror'[i] = mirror[i] \/ (Named(i) /\ mirror'[i] = Target(i))
  <2>1. CASE Calling
    <3>1. PICK m \in DOMAIN Steps : Now = Steps[m]
      BY <1>1, <2>1, CallingEnabled, NowOfSteps
    <3>2. CASE Assigns(Now, i)
      BY <1>1, <1>2, <2>1, <3>1, <3>2, FieldMoves, TargetOf DEF Named, Assigns
    <3>3. CASE ~Assigns(Now, i)
      BY <1>1, <1>2, <2>1, <3>1, <3>3, FieldMoves DEF Steady
    <3>. QED BY <3>2, <3>3
  <2>2. CASE Dispatch
    <3>1. /\ ReadBy(1) \in Range(Steps) /\ 1 \in DOMAIN answers /\ Exchanges(ReadBy(1))
      BY <1>1, <1>2, <2>2, FirstAnswer DEF LiveInv, Dispatch
    <3>2. PICK m \in DOMAIN Steps : ReadBy(1) = Steps[m]
      BY <3>1 DEF Range
    <3>3. CASE Steps[m].current
      BY <1>1, <1>2, <2>2, <3>2, <3>3, DispatchField DEF Steady, Touches
    <3>4. CASE ~Steps[m].current
      <4>1. InPlace(ReadBy(1))
        BY <3>2, <3>4 DEF InPlace, PlaceOf
      <4>2. CASE i \notin Steps[m].in
        BY <1>1, <1>2, <2>2, <3>2, <4>1, <4>2, DispatchField DEF Steady
      <4>3. CASE i \in Steps[m].in
        <5>1. Stores(Steps[m], i)
          BY <3>1, <3>2, <4>3 DEF Stores
        <5>2. Steps[m].needs = {} /\ i \notin Steps[m].misreads /\ ~Named(i)
          BY <1>2, <5>1 DEF Steady, Named, Spoiled, Misread
        <5>3. answers[1].values[i] = Target(i)
          BY <1>2, <3>1, <3>2, <4>3 DEF ValueOf
        <5>4. mirror'[i] = answers[1].values[i]
          BY <1>1, <2>2, <3>2, <4>1, <4>3, <5>2, DispatchField
        <5>. QED BY <5>2, <5>3, <5>4 DEF Target
      <4>. QED BY <4>2, <4>3
    <3>. QED BY <3>3, <3>4
  <2>3. CASE DispatchRefusal
    <3>1. ReadBy(1) \in Range(Steps)
      BY <1>1, <1>2, <2>3, FirstAnswer DEF LiveInv, DispatchRefusal
    <3>2. i \notin ReadBy(1).drops
      BY <1>2, <3>1 DEF Range, Steady
    <3>. QED BY <1>1, <2>3, <3>2, MailboxField DEF Mailbox, Receive
  <2>4. CASE Mailbox /\ ~Dispatch /\ ~DispatchRefusal
    BY <1>1, <2>4, MailboxField
  <2>. QED BY <2>1, <2>2, <2>3, <2>4
<1>4. Named(i)' <=> Named(i)
  BY <1>1 DEF Named
<1>5. Target(i)' = Target(i)
  BY <1>1, <1>3, <1>4 DEF Target
<1>. QED BY <1>3, <1>4, <1>5

LEMMA ValueInCall ==
    ASSUME RunInv, LiveInv, LiveInv', ValueInv, Calling \/ Mailbox, NEW i \in DOMAIN mirror, Same(i)
    PROVE  ValueOf(i)'
<1>1. /\ Shape /\ Position /\ Allotted /\ MailOK /\ MailMoves /\ Steps' = Steps
      /\ UNCHANGED <<script, uses>> /\ RunInv' /\ script.kind # "none"
  BY InCall
<1>2. Steady(Steps, i) /\ i \notin Spoiled(Steps) /\ ValueOf(i) /\ script.kind # "pair"
  BY DEF Same, ValueInv
<1>3. /\ mirror'[i] = mirror[i] \/ (Named(i) /\ mirror'[i] = Target(i))
      /\ Target(i)' = Target(i) /\ (Named(i)' <=> Named(i))
  BY TargetKept
<1>4. ASSUME NEW k \in DOMAIN requests', Live(k)', i \in DOMAIN requests'[k].carries
      PROVE  requests'[k].carries[i] = Target(i)
  <2>1. CASE k \in DOMAIN requests
    BY <1>1, <1>2, <1>4, <2>1, LiveKept DEF ValueOf
  <2>2. CASE k \notin DOMAIN requests
    <3>1. Made(k)
      BY <1>1, <1>4, <2>2, LiveKept
    <3>2. Calling
      BY <1>1, <2>2, MailboxMail
    <3>3. Now = Steps[At + 1] /\ At + 1 \in DOMAIN Steps /\ At \in Nat /\ Underway
      BY <1>1, <3>2, CallingEnabled, NextStep, CallingPosition
    <3>4. /\ i \in Now.out \cup Now.zeroes
          /\ i \notin Now.zeroes \cup Now.garbles \cup Now.unsure => requests'[k].carries[i] = mirror[i]
      BY <1>4, <3>1, ContentsOf DEF Made
    <3>5. i \in Now.out /\ i \notin Now.zeroes \cup Now.garbles \cup Now.unsure
      BY <1>2, <3>3, <3>4 DEF Steady, Spoiled, Misencoded
    <3>6. CASE Named(i)
      <4>1. PICK j \in DOMAIN Steps : j < At + 1 /\ Assigns(Steps[j], i)
        BY <1>2, <3>3, <3>5, <3>6 DEF Named, Steady
      <4>2. Given(i)
        <5>1. j \in Nat
          BY <1>1, StepsInOrder
        <5>. QED BY <3>3, <4>1, <5>1 DEF Given
      <4>. QED BY <1>2, <3>3, <3>4, <3>5, <4>2 DEF ValueOf
    <3>7. CASE ~Named(i)
      BY <3>4, <3>5, <3>7 DEF Target
    <3>. QED BY <3>6, <3>7
  <2>. QED BY <2>1, <2>2
<1>5. ASSUME NEW n \in DOMAIN answers', i \in requests'[answers'[n].request].what.in
      PROVE  answers'[n].values[i] = Target(i)
  <2>1. CASE OldAnswer(n)
    <3>1. PICK m \in DOMAIN answers : answers'[n] = answers[m]
      BY <2>1 DEF OldAnswer
    <3>2. requests'[answers[m].request].what = ReadBy(m)
      BY <1>1 DEF MailOK, MailMoves, Kept, ReadBy
    <3>. QED BY <1>2, <1>5, <3>1, <3>2 DEF ValueOf
  <2>2. CASE NewAnswer(n)
    <3>1. PICK k \in DOMAIN requests' :
             /\ answers'[n].request = k /\ Executing(k)
             /\ answers'[n].values = [j \in requests'[k].what.in |-> dev'[j]]
      BY <2>2 DEF NewAnswer
    <3>2. Live(k)' /\ RequestOK(requests'[k]) /\ dev' = Executed(requests'[k].carries)
      BY <1>1, <3>1 DEF Executing, Live, MailMoves, Kept, Made
    <3>3. requests'[k].what \in Range(Steps)
      BY <1>1, <1>2, <3>2 DEF LiveInv
    <3>4. i \in requests'[k].what.out
      BY <1>2, <1>5, <3>1, <3>2, <3>3 DEF Range, Steady, Stores, RequestOK
    <3>5. i \in DOMAIN requests'[k].carries /\ i \in DOMAIN dev
      BY <1>1, <3>2, <3>4 DEF RequestOK, Allotted
    <3>6. dev'[i] = requests'[k].carries[i]
      BY <3>2, <3>5 DEF Executed
    <3>. QED BY <1>4, <1>5, <3>1, <3>2, <3>5, <3>6
  <2>. QED BY <1>1, <2>1, <2>2 DEF MailMoves
<1>6. ASSUME Underway', Given(i)' PROVE mirror'[i] = Target(i)
  <2>1. CASE Underway /\ Given(i)
    BY <1>2, <1>3, <2>1 DEF ValueOf
  <2>2. CASE Calling
    <3>1. Now = Steps[At + 1] /\ At + 1 \in DOMAIN Steps /\ At \in Nat /\ Underway /\ Now.kind # "compare"
      BY <1>1, <1>2, <2>2, CallingEnabled, NextStep, CallingPosition DEF Steady
    <3>2. At' = At + 1
      BY <1>1, <1>6, <2>2, <3>1, CallingPosition DEF Jumps
    <3>3. PICK m \in DOMAIN Steps : m <= At + 1 /\ Assigns(Steps[m], i)
      BY <1>1, <1>6, <3>2 DEF Given
    <3>4. CASE m <= At
      BY <2>1, <3>1, <3>3, <3>4 DEF Given
    <3>5. CASE m = At + 1
      <4>1. ~Passed(Now) /\ Assigns(Now, i)
        BY <1>2, <3>1, <3>3, <3>5 DEF Steady, Passed
      <4>2. mirror'[i] = <<Now.token>>
        BY <1>1, <2>2, <4>1, FieldMoves
      <4>. QED BY <1>2, <3>1, <4>1, <4>2, TargetOf
    <3>6. m \in Nat
      BY <1>1, StepsInOrder
    <3>. QED BY <3>1, <3>3, <3>4, <3>5, <3>6
  <2>3. CASE Mailbox
    <3>1. At' = At /\ (Underway' <=> Underway)
      BY <1>1, <2>3, MailboxMail DEF At, Underway
    <3>. QED BY <1>1, <1>6, <2>1, <3>1 DEF Given
  <2>. QED BY <2>2, <2>3
<1>7. ASSUME result' = "PK_OK", i \in uses.carries PROVE meant'[i] = Target(i)
  <2>1. CASE Calling
    <3>1. Underway' /\ todo' = <<>>
      BY <1>1, <1>7, <2>1, CallingPosition DEF Underway, Position
    <3>2. meant'[i] = mirror'[i]
      BY <1>1, <1>7, <2>1, <3>1, MeantMoves DEF Allotted
    <3>3. CASE Named(i)
      <4>1. PICK m \in DOMAIN Steps : Assigns(Steps[m], i)
        BY <3>3 DEF Named
      <4>2. At' = Len(Steps)
        BY <1>1, <3>1, StepsInOrder DEF At
      <4>3. m <= At'
        BY <1>1, <4>2, StepsInOrder
      <4>. QED BY <1>1, <1>6, <3>1, <3>2, <4>1, <4>3 DEF Given
    <3>4. CASE ~Named(i)
      BY <1>3, <3>2, <3>4 DEF Target
    <3>. QED BY <3>3, <3>4
  <2>2. CASE Mailbox
    BY <1>1, <1>2, <1>7, <2>2, MailboxMail DEF ValueOf
  <2>. QED BY <2>1, <2>2
<1>. QED BY <1>1, <1>3, <1>4, <1>5, <1>6, <1>7 DEF ValueOf, ReadBy

\* A call that has just begun has done nothing, and carries nothing if it is over.
LEMMA StartsFresh ==
    ASSUME RunInv, FunctionsInOrder, Starts
    PROVE  /\ Shape' /\ Position' /\ Allotted' /\ MailOK' /\ RunInv' /\ script'.kind # "none"
           /\ At' = 0 /\ \A m \in DOMAIN Steps' : ~(m <= At')
           /\ UNCHANGED <<requests, answers, marks>>
           /\ result' = "PK_OK" => Steps' = <<>> /\ uses'.carries = {}
           /\ result' # "PK_OK" => todo' # <<>>
           /\ todo' = Steps'
<1>1. Shape' /\ Allotted' /\ MailOK' /\ Enter(Steps') /\ UNCHANGED <<requests, answers, marks>>
  BY BeginEnters, AgainEnters, OnwardEnters DEF Starts
<1>2. Position' /\ At' = 0 /\ script'.kind # "none"
  BY <1>1, Entered DEF Shape
<1>3. Steps' \in Seq(Range(Steps'))
  BY <1>1 DEF Shape, InOrder, FunctionInOrder, Steps, StepsOf
<1>4. result' = "PK_OK" => Steps' = <<>>
  BY <1>1 DEF Enter
<1>5. Steps' = <<>> => ItemsOut(Steps') = {}
  BY DEF ItemsOut
<1>6. \A m \in DOMAIN Steps' : ~(m <= At')
  BY <1>2, <1>3
<1>7. RunInv'
  BY <1>1, <1>2 DEF RunInv
<1>. QED BY <1>1, <1>2, <1>4, <1>5, <1>6, <1>7 DEF Enter

LEMMA ValueInvStep ==
    ASSUME RunInv, LiveInv, ValueInv, FunctionsInOrder, [Next]_vars
    PROVE  ValueInv'
<1> SUFFICES ASSUME NEW i \in DOMAIN mirror', Same(i)' PROVE ValueOf(i)'
  BY DEF ValueInv
<1>1. CASE Starts
  <2>1. /\ ~Given(i)' /\ (result' = "PK_OK" => i \notin uses'.carries)
        /\ UNCHANGED <<requests, answers>> /\ MailOK'
    BY <1>1, StartsFresh DEF Given
  <2>2. CASE \A k \in DOMAIN requests : ~Live(k)
    <3>1. \A n \in DOMAIN answers : FALSE
      BY <2>1, <2>2 DEF MailOK, Live, AnswerQueued
    <3>. QED BY <2>1, <2>2, <3>1 DEF ValueOf, Live, AnswerQueued
  <2>3. CASE \E k \in DOMAIN requests : Live(k)
    <3>1. CallAgain
      <4>1. ~BeginScript
        BY <2>1, <2>3, BeginEnters
      <4>2. ~CallNext
        BY <2>3, OnwardEnters, SettledDead DEF Same
      <4>. QED BY <1>1, <4>1, <4>2 DEF Starts
    <3>2. UNCHANGED <<script, mirror>> /\ Steps' = Steps
      BY <3>1, AgainEnters
    <3>3. Same(i) /\ Target(i)' = Target(i) /\ i \in DOMAIN mirror
      BY <3>2 DEF Same, Target, Named
    <3>4. ValueOf(i)
      BY <3>3 DEF ValueInv
    <3>. QED BY <2>1, <3>3, <3>4 DEF ValueOf, Live, AnswerQueued, ReadBy
  <2>. QED BY <2>2, <2>3
<1>2. CASE Calling \/ Mailbox
  <2>1. Same(i) /\ i \in DOMAIN mirror
    BY <1>2, InCall DEF Same
  <2>. QED BY <1>2, <2>1, ValueInCall, LiveInvStep
<1>3. CASE Rests
  <2>1. Same(i) /\ Target(i)' = Target(i) /\ i \in DOMAIN mirror
    BY <1>3, RestsAll DEF Same, Target, Named
  <2>2. ValueOf(i)
    BY <2>1 DEF ValueInv
  <2>. QED BY <1>3, <2>1, <2>2, RestsAll DEF ValueOf, Live, AnswerQueued, ReadBy, Given
<1>. QED BY <1>1, <1>2, <1>3, NextCases

(***************************************************************************)
(* PK_OK means done.                                                       *)
(***************************************************************************)
FlagSends(i, f, k) == script.kind \in {"retry", "pair"} /\ SentByFlag(Steps, i, f, k)
Settling(i, k) == SettlesAt(Steps, i, k) \/ \E f \in Flags(Steps) : FlagSends(i, f, k)

\* An item that the call is bound to bring to the device, as far as it has gone.
Sure(i) ==
    /\ i \in uses.carries \ Spoiled(Steps) /\ \A m \in DOMAIN Steps : Steps[m].kind # "compare"
    /\ "dropped" \notin marks \/ Call \notin IgnoresFailures
    /\ "lost" \notin marks \/ \A m \in DOMAIN Steps : Carries(Steps[m], i) => ~Steps[m].silent
    /\ "resent" \notin marks \/ (script.kind # "pair" /\ Steady(Steps, i))

Goal(i) == IF todo = <<>> THEN meant[i] ELSE mirror[i]
GoalNext(i) == IF todo' = <<>> THEN meant'[i] ELSE mirror'[i]

SentInv ==
    script.kind # "none" /\ Underway =>
        \A i \in DOMAIN mirror : \A k \in DOMAIN Steps :
            Sure(i) /\ Settling(i, k) /\ k <= At => Covered(i, Goal(i))
FlagInv ==
    script.kind # "none" /\ (todo # <<>> \/ script.kind = "retry") =>
        \A i, f \in DOMAIN mirror : \A k \in DOMAIN Steps :
            Sure(i) /\ f \in Flags(Steps) /\ FlagSends(i, f, k) /\ mirror[f] = <<"clear">> =>
                Covered(i, mirror[i])
CoverInv == SentInv /\ FlagInv

LEMMA FlagsThere ==
    ASSUME Shape, Allotted, NEW f \in Flags(Steps)
    PROVE  f \in DOMAIN mirror
<1>1. f \in AllItems(Steps)
  BY DEF Flags, AllItems
<1>. QED BY <1>1 DEF Shape, Allotted, Steps

LEMMA SureBefore ==
    ASSUME RunInv, Calling \/ Mailbox, NEW i, Sure(i)'
    PROVE  Sure(i)
<1>1. Steps' = Steps /\ UNCHANGED <<script, step, uses>> /\ marks \subseteq marks'
  BY InCall
<1>2. Call' = Call
  BY <1>1 DEF Call
<1>. QED BY <1>1, <1>2 DEF Sure

\* While the function runs, what it sends is the item as the structure has it.
LEMMA CallingCovers ==
    ASSUME RunInv, Calling, NEW i \in DOMAIN mirror, i \notin Spoiled(Steps), i \notin Now.zeroes,
           Covered(i, mirror[i])
    PROVE  CoversNext(i, mirror[i])
<1>1. Shape /\ Position /\ Allotted /\ MailOK /\ MailMoves
  BY InCall
<1>2. todo # <<>> /\ \E m \in DOMAIN Steps : Now = Steps[m]
  BY <1>1, CallingEnabled, NowOfSteps
<1>3. i \notin Now.zeroes \cup Now.garbles \cup Now.unsure /\ i \in DOMAIN dev
  BY <1>1, <1>2 DEF Spoiled, Misencoded, Allotted
<1>4. \A carries \in Contents : i \in DOMAIN carries => carries[i] = mirror[i]
  BY <1>3, ContentsOf
<1>5. ASSUME NEW k \in DOMAIN requests', Executing(k), i \in DOMAIN requests'[k].carries
      PROVE  requests'[k].carries[i] = mirror[i]
  <2>1. k \notin DOMAIN requests
    BY <1>2, <1>5 DEF Executing, Idle
  <2>2. requests'[k].carries \in Contents
    BY <1>1, <2>1 DEF MailMoves, Made
  <2>. QED BY <1>4, <1>5, <2>2
<1>6. SentPast => dev'[i] \in {dev[i], mirror[i]}
  BY <1>3, <1>4 DEF SentPast, Executed
<1>. QED BY <1>1, <1>3, <1>5, <1>6, CoverKept

\* Requests that are sent again carry the same.
LEMMA MailboxCovers ==
    ASSUME RunInv, ValueInv, Mailbox, NEW i \in DOMAIN mirror, Sure(i)', NEW v,
           Same(i) /\ todo = <<>> => v = Target(i), Covered(i, v)
    PROVE  CoversNext(i, v)
<1>1. /\ Shape /\ Position /\ Allotted /\ MailOK /\ MailMoves /\ script.kind # "none"
      /\ Steps' = Steps /\ script' = script /\ DOMAIN requests' = DOMAIN requests
  BY InCall, MailboxMail
<1>2. ASSUME NEW k \in DOMAIN requests', Executing(k), i \in DOMAIN requests'[k].carries
      PROVE  requests'[k].carries[i] = v
  <2>1. /\ requests[k].status = "pending" /\ "resent" \in marks' /\ todo = <<>>
        /\ requests'[k].carries = requests[k].carries
    BY <1>1, <1>2 DEF Executing, Idle, MailMoves, Kept
  <2>2. Same(i)
    BY <1>1, <2>1 DEF Sure, Same
  <2>. QED BY <1>1, <1>2, <2>1, <2>2 DEF ValueInv, ValueOf, Live
<1>3. ~SentPast
  <2>1. UNCHANGED todo
    BY <1>1, MailboxMail
  <2>2. SendSilently => todo # <<>> /\ (todo' = Tail(todo) \/ todo' = <<>>)
    BY DEF SendSilently, Runs, Continue, ReturnWith
  <2>3. todo # <<>> => Len(Tail(todo)) # Len(todo)
    BY <1>1, NextStep
  <2>. QED BY <2>1, <2>2, <2>3 DEF SentPast
<1>. QED BY <1>1, <1>2, <1>3, CoverKept DEF Allotted

\* The next step has none of the items that have been sent.
LEMMA CallingHolds ==
    ASSUME RunInv, Calling, NEW i \in DOMAIN mirror, Sure(i)', NEW k \in DOMAIN Steps,
           \/ SettlesAt(Steps, i, k) /\ k <= At + 1
           \/ \E f \in Flags(Steps) : FlagSends(i, f, k)
    PROVE  /\ Sure(i) /\ mirror'[i] = mirror[i] /\ i \notin Now.zeroes
           /\ Now = Steps[At + 1] /\ At + 1 \in DOMAIN Steps /\ todo # <<>> /\ Underway
           /\ Underway' => At' = At + 1
           /\ Covered(i, mirror[i]) => CoversNext(i, mirror[i])
<1>1. Shape /\ Position /\ Sure(i) /\ Steps' = Steps
  BY InCall, SureBefore
<1>2. Now = Steps[At + 1] /\ At + 1 \in DOMAIN Steps /\ At \in Nat /\ todo # <<>> /\ Underway
  BY <1>1, CallingEnabled, NextStep, CallingPosition
<1>3. Untouched(Now, i) /\ i \notin Now.zeroes
  <2>1. CASE SettlesAt(Steps, i, k) /\ k <= At + 1
    BY <1>2, <2>1 DEF SettlesAt, From
  <2>2. CASE \E f \in Flags(Steps) : FlagSends(i, f, k)
    BY <1>2, <2>2 DEF FlagSends, SentByFlag, Untouched
  <2>. QED BY <2>1, <2>2
<1>4. mirror'[i] = mirror[i]
  BY <1>1, <1>3, FieldMoves
<1>5. Underway' => At' = At + 1
  <2>1. ~Jumps
    BY <1>1, <1>2 DEF Jumps, Sure
  <2>. QED BY <1>1, <2>1, CallingPosition
<1>6. Covered(i, mirror[i]) => CoversNext(i, mirror[i])
  BY <1>1, <1>3, CallingCovers DEF Sure
<1>. QED BY <1>1, <1>2, <1>3, <1>4, <1>5, <1>6

LEMMA SentWhileCalling ==
    ASSUME RunInv, CoverInv, Calling, Underway', NEW i \in DOMAIN mirror, NEW k \in DOMAIN Steps,
           Sure(i)', Settling(i, k), k <= At'
    PROVE  CoversNext(i, GoalNext(i))
<1>1. /\ Shape /\ Position /\ Allotted /\ MailOK /\ Steps' = Steps /\ script.kind # "none"
      /\ UNCHANGED <<script, step, uses>>
  BY InCall
<1>2. SettlesAt(Steps, i, k) \/ \E f \in Flags(Steps) : FlagSends(i, f, k)
  BY DEF Settling
<1>3. At' = At + 1
  <2>1. ~Jumps
    <3>1. todo # <<>> /\ Sure(i)
      BY CallingEnabled, SureBefore
    <3>. QED BY <1>1, <3>1, NowOfSteps DEF Jumps, Sure
  <2>. QED BY <1>1, <2>1, CallingPosition
<1>4. /\ Sure(i) /\ mirror'[i] = mirror[i] /\ i \notin Now.zeroes
      /\ Now = Steps[At + 1] /\ At + 1 \in DOMAIN Steps /\ todo # <<>> /\ Underway
      /\ Covered(i, mirror[i]) => CoversNext(i, mirror[i])
  BY <1>2, <1>3, CallingHolds
<1>5. CoversNext(i, mirror[i])
  <2>1. CASE k <= At
    <3>1. Covered(i, mirror[i])
      BY <1>1, <1>4, <2>1 DEF CoverInv, SentInv, Goal
    <3>. QED BY <1>4, <3>1
  <2>2. CASE k = At + 1
    <3>1. /\ i \in Now.out /\ Exchanges(Now) /\ Carries(Now, i)
          /\ i \notin Now.zeroes \cup Now.garbles \cup Now.unsure
      <4>1. i \in Now.out /\ Exchanges(Now)
        BY <1>2, <1>4, <2>2 DEF SettlesAt, FlagSends, SentByFlag
      <4>2. i \notin Now.garbles \cup Now.unsure
        BY <1>4 DEF Sure, Spoiled, Misencoded
      <4>. QED BY <1>4, <4>1, <4>2 DEF Carries
    <3>2. CASE Passed(Now)
      <4>1. PICK f \in Now.unless : mirror[f] = <<"clear">>
        BY <3>2 DEF Passed
      <4>2. FlagSends(i, f, k) /\ f \in Flags(Steps)
        BY <1>2, <1>4, <2>2, <3>1, <4>1 DEF SettlesAt, FlagSends, SentByFlag, Flags
      <4>3. Covered(i, mirror[i])
        BY <1>1, <1>4, <4>1, <4>2, FlagsThere DEF CoverInv, FlagInv
      <4>. QED BY <1>4, <4>3
    <3>3. CASE ~Passed(Now)
      <4>1. Send
        BY <3>1, <3>3, RunQuiet DEF Calling
      <4>2. Call' = Call
        BY <1>1 DEF Call
      <4>3. "dropped" \notin marks' \/ Call \notin IgnoresFailures
        BY <4>2 DEF Sure
      <4>4. "lost" \notin marks' \/ ~Now.silent
        BY <1>1, <1>4, <3>1 DEF Sure
      <4>. QED BY <1>1, <3>1, <4>1, <4>3, <4>4, SendCovers DEF Allotted
    <3>. QED BY <3>2, <3>3
  <2>3. k \in Nat /\ At \in Nat
    BY <1>1, <1>4, StepsInOrder, NextStep
  <2>. QED BY <1>3, <2>1, <2>2, <2>3
<1>6. GoalNext(i) = mirror[i]
  <2>1. i \in uses.carries /\ i \in DOMAIN meant
    BY <1>1, <1>4 DEF Sure, Allotted
  <2>2. todo' = <<>> => meant'[i] = mirror'[i]
    BY <1>1, <2>1, MeantMoves
  <2>. QED BY <1>4, <2>2 DEF GoalNext
<1>. QED BY <1>5, <1>6

LEMMA FlagWhileCalling ==
    ASSUME RunInv, CoverInv, Calling, NEW i \in DOMAIN mirror, NEW f \in DOMAIN mirror,
           NEW k \in DOMAIN Steps, f \in Flags(Steps), FlagSends(i, f, k), Sure(i)',
           mirror'[f] = <<"clear">>
    PROVE  CoversNext(i, mirror'[i])
<1>1. Shape /\ Position /\ Allotted /\ script.kind # "none"
  BY InCall
<1>2. /\ Sure(i) /\ mirror'[i] = mirror[i] /\ i \notin Now.zeroes
      /\ Now = Steps[At + 1] /\ At + 1 \in DOMAIN Steps /\ todo # <<>> /\ Underway
      /\ Covered(i, mirror[i]) => CoversNext(i, mirror[i])
  BY CallingHolds
<1>3. CASE mirror[f] = <<"clear">>
  BY <1>1, <1>2, <1>3 DEF CoverInv, FlagInv
<1>4. CASE mirror[f] # <<"clear">>
  <2>1. Now.kind \in {"assign", "exchange"} /\ (f \in Now.in => Now.kind = "assign" /\ At + 1 > k)
    BY <1>2 DEF FlagSends, SentByFlag
  <2>2. f \in Now.in /\ At + 1 > k
    BY <1>1, <1>4, <2>1, FieldMoves DEF Exchanges
  <2>3. k <= At
    <3>1. k \in Nat /\ At \in Nat
      BY <1>1, <1>2, StepsInOrder, NextStep
    <3>. QED BY <2>2, <3>1
  <2>4. Settling(i, k)
    BY DEF Settling
  <2>. QED BY <1>1, <1>2, <2>3, <2>4 DEF CoverInv, SentInv, Goal
<1>. QED BY <1>3, <1>4

LEMMA CoversWhileResting ==
    ASSUME RunInv, LiveInv, CoverInv, ValueInv, Mailbox, NEW i \in DOMAIN mirror, Sure(i)',
           NEW k \in DOMAIN Steps
    PROVE  /\ (Underway' /\ Settling(i, k) /\ k <= At' => CoversNext(i, GoalNext(i)))
           /\ \A f \in DOMAIN mirror :
                /\ f \in Flags(Steps) /\ FlagSends(i, f, k) /\ mirror'[f] = <<"clear">>
                /\ todo' # <<>> \/ script'.kind = "retry"
                => CoversNext(i, mirror'[i])
<1>1. /\ Shape /\ Position /\ Allotted /\ MailOK /\ MailMoves /\ script.kind # "none"
      /\ Steps' = Steps /\ UNCHANGED <<script, step, uses, todo, meant, result>>
  BY InCall, MailboxMail
<1>2. Sure(i) /\ At' = At /\ (Underway' <=> Underway)
  BY <1>1, SureBefore DEF At, Underway
<1>3. todo # <<>> => mirror' = mirror
  <2>1. todo # <<>> => ~Dispatch /\ ~DispatchRefusal
    BY DEF Dispatch, DispatchRefusal, Idle
  <2>. QED BY <1>1, <2>1, MailboxField
<1>4. ASSUME Underway', Settling(i, k), k <= At' PROVE CoversNext(i, GoalNext(i))
  <2>1. Covered(i, Goal(i))
    BY <1>1, <1>2, <1>4 DEF CoverInv, SentInv
  <2>2. GoalNext(i) = Goal(i)
    BY <1>1, <1>3 DEF Goal, GoalNext
  <2>3. Same(i) /\ todo = <<>> => Goal(i) = Target(i)
    <3>1. todo = <<>> => result = "PK_OK"
      BY <1>1, <1>2, <1>4 DEF Position, Underway
    <3>. QED BY <1>2, <3>1 DEF ValueInv, ValueOf, Sure, Goal
  <2>. QED BY <2>1, <2>2, <2>3, MailboxCovers
<1>5. ASSUME NEW f \in DOMAIN mirror, f \in Flags(Steps), FlagSends(i, f, k), mirror'[f] = <<"clear">>,
             todo' # <<>> \/ script'.kind = "retry"
      PROVE  CoversNext(i, mirror'[i])
  <2>1. \A m \in DOMAIN Steps :
          /\ Steps[m].kind \in {"exchange", "assign"} /\ ~Steps[m].current
          /\ i \notin Steps[m].in \cup Steps[m].drops \cup Steps[m].clears
          /\ f \notin Steps[m].drops \cup Steps[m].clears
          /\ (f \in Steps[m].in => Steps[m].kind = "assign")
    BY <1>5 DEF FlagSends, SentByFlag
  <2>2. mirror'[i] = mirror[i] /\ mirror'[f] = mirror[f]
    <3>1. CASE Dispatch \/ DispatchRefusal
      <4>1. answers # <<>> /\ todo = <<>>
        BY <3>1 DEF Dispatch, DispatchRefusal, Idle
      <4>2. ReadBy(1) \in Range(Steps) /\ Exchanges(ReadBy(1))
        <5>1. script.kind = "retry"
          BY <1>1, <1>5, <4>1
        <5>. QED BY <1>1, <4>1, <5>1, FirstAnswer DEF LiveInv
      <4>3. PICK m \in DOMAIN Steps : ReadBy(1) = Steps[m]
        BY <4>2 DEF Range
      <4>4. InPlace(ReadBy(1)) /\ i \notin ReadBy(1).in \cup ReadBy(1).drops \cup ReadBy(1).clears
            /\ f \notin ReadBy(1).in \cup ReadBy(1).drops \cup ReadBy(1).clears
        BY <2>1, <4>2, <4>3 DEF InPlace, PlaceOf, Exchanges
      <4>5. CASE Dispatch
        BY <1>1, <4>4, <4>5, DispatchField
      <4>6. CASE DispatchRefusal
        BY <1>1, <4>4, <4>6, MailboxField
      <4>. QED BY <3>1, <4>5, <4>6
    <3>2. CASE ~Dispatch /\ ~DispatchRefusal
      BY <1>1, <3>2, MailboxField
    <3>. QED BY <3>1, <3>2
  <2>3. Covered(i, mirror[i])
    BY <1>1, <1>2, <1>5, <2>2 DEF CoverInv, FlagInv
  <2>4. Same(i) => mirror[i] = Target(i)
    <3>1. ~Named(i)
      BY <2>1 DEF Named, Assigns
    <3>. QED BY <3>1 DEF Target
  <2>. QED BY <2>2, <2>3, <2>4, MailboxCovers
<1>. QED BY <1>4, <1>5

LEMMA CoverInvStep ==
    ASSUME RunInv, LiveInv, ValueInv, CoverInv, FunctionsInOrder, [Next]_vars
    PROVE  CoverInv'
<1>1. CASE Starts
  <2>1. SentInv'
    BY <1>1, StartsFresh DEF SentInv
  <2>2. FlagInv'
    <3> SUFFICES ASSUME todo' # <<>> \/ script'.kind = "retry",
                        NEW i \in DOMAIN mirror', NEW f \in DOMAIN mirror', NEW k \in DOMAIN Steps',
                        Sure(i)', f \in Flags(Steps)', FlagSends(i, f, k)', mirror'[f] = <<"clear">>
                 PROVE  CoversNext(i, mirror'[i])
      BY DEF FlagInv, Covered, CoversNext, Carrying
    <3>1. CASE BeginScript
      BY <3>1, BeginEnters DEF FlagSends
    <3>2. CASE CallNext
      <4>1. script'.kind = "pair"
        BY <3>2, OnwardEnters DEF FlagSends
      <4>2. mirror'[f] = <<"app2">>
        BY <3>2, <4>1, OnwardEnters
      <4>. QED BY <4>2
    <3>3. CASE CallAgain
      <4>1. /\ Steps' = Steps /\ script.kind = "retry" /\ Shape' /\ Shape
            /\ UNCHANGED <<device, script, step, mirror, dev, meant, requests, answers, faults, marks>>
        BY <3>3, AgainEnters DEF RunInv
      <4>2. uses'.carries = uses.carries /\ Call' = Call
        BY <4>1 DEF Shape, Call
      <4>3. Sure(i) /\ FlagSends(i, f, k) /\ f \in Flags(Steps)
        BY <4>1, <4>2 DEF Sure, FlagSends
      <4>4. Covered(i, mirror[i])
        BY <4>1, <4>3 DEF CoverInv, FlagInv
      <4>. QED BY <4>1, <4>4 DEF Covered, CoversNext, Carrying, Undone, AnswerQueued
    <3>. QED BY <1>1, <3>1, <3>2, <3>3 DEF Starts
  <2>. QED BY <2>1, <2>2 DEF CoverInv
<1>2. CASE Calling \/ Mailbox
  <2>1. Steps' = Steps /\ script' = script /\ DOMAIN mirror' = DOMAIN mirror /\ script.kind # "none"
    BY <1>2, InCall
  <2>2. ASSUME Underway', NEW i \in DOMAIN mirror, NEW k \in DOMAIN Steps, Sure(i)',
               Settling(i, k), k <= At'
        PROVE  CoversNext(i, GoalNext(i))
    BY <1>2, <2>2, SentWhileCalling, CoversWhileResting
  <2>3. ASSUME NEW i \in DOMAIN mirror, NEW f \in DOMAIN mirror, NEW k \in DOMAIN Steps, Sure(i)',
               f \in Flags(Steps), FlagSends(i, f, k), mirror'[f] = <<"clear">>,
               todo' # <<>> \/ script'.kind = "retry"
        PROVE  CoversNext(i, mirror'[i])
    BY <1>2, <2>3, FlagWhileCalling, CoversWhileResting
  <2>4. SentInv'
    <3> SUFFICES ASSUME Underway', NEW i \in DOMAIN mirror', NEW k \in DOMAIN Steps',
                        Sure(i)', Settling(i, k)', k <= At'
                 PROVE  CoversNext(i, GoalNext(i))
      BY DEF SentInv, Covered, CoversNext, Carrying, Goal, GoalNext
    <3>1. Settling(i, k)
      BY <2>1 DEF Settling, FlagSends
    <3>. QED BY <2>1, <2>2, <3>1
  <2>5. FlagInv'
    <3> SUFFICES ASSUME NEW i \in DOMAIN mirror', NEW f \in DOMAIN mirror', NEW k \in DOMAIN Steps',
                        todo' # <<>> \/ script'.kind = "retry",
                        Sure(i)', f \in Flags(Steps)', FlagSends(i, f, k)', mirror'[f] = <<"clear">>
                 PROVE  CoversNext(i, mirror'[i])
      BY DEF FlagInv, Covered, CoversNext, Carrying
    <3>1. FlagSends(i, f, k) /\ f \in Flags(Steps)
      BY <2>1 DEF FlagSends
    <3>. QED BY <2>1, <2>3, <3>1
  <2>. QED BY <2>4, <2>5 DEF CoverInv
<1>3. CASE Rests
  BY <1>3, RestsAll DEF CoverInv, SentInv, FlagInv, Covered, Carrying, Undone, AnswerQueued, Goal,
     Sure, Call, Settling, FlagSends
<1>. QED BY <1>1, <1>2, <1>3, NextCases

\* Once all is settled, the device holds what is covered.
LEMMA SettledCovered ==
    ASSUME MailOK, Succeeded, NEW i, NEW v, Covered(i, v)
    PROVE  dev[i] = v
<1>1. \A k \in DOMAIN requests : requests[k].status = "answered"
  <2> SUFFICES ASSUME NEW k \in DOMAIN requests PROVE requests[k].status = "answered"
    OBVIOUS
  <2>1. requests[k] \in [what : {requests[k].what}, carries : {requests[k].carries},
                         status : {"pending", "answered", "failed"}, attempts : 1..2]
    BY DEF MailOK, RequestOK
  <2>. QED BY <2>1 DEF Succeeded, Settled, Failed
<1>. QED BY <1>1 DEF Covered, Undone

\* A call that has returned PK_OK has run all of its steps.
LEMMA AllRun ==
    ASSUME Shape, Position, result = "PK_OK", NEW k \in DOMAIN Steps
    PROVE  k <= At /\ todo = <<>> /\ Underway
<1>1. todo = <<>>
  BY DEF Position
<1>2. At = Len(Steps)
  BY <1>1, StepsInOrder DEF At
<1>. QED BY <1>1, <1>2, StepsInOrder DEF Underway

LEMMA CarriedSettles ==
    ASSUME Shape, NEW i \in uses.carries \ (uses.spoils \cup Erased)
    PROVE  /\ \A m \in DOMAIN Steps : Steps[m].kind # "compare"
           /\ \E k \in DOMAIN Steps : Settling(i, k)
           /\ script.kind # "pair" /\ Call # "MatrixKBConfigurationSet" => Steady(Steps, i)
           /\ i \in ItemsOut(Steps) \ Spoiled(Steps)
<1>1. i \in ItemsOut(Steps) \ (Spoiled(Steps) \cup Erased)
  BY DEF Shape
<1>2. FunctionInOrder(Call, script.kind, Steps)
  BY CallsInOrder
<1>3. \E k \in DOMAIN Steps :
         \/ SettlesAt(Steps, i, k)
         \/ script.kind \in {"retry", "pair"} /\ \E f \in Flags(Steps) : SentByFlag(Steps, i, f, k)
  BY <1>1, <1>2 DEF FunctionInOrder
<1>. QED BY <1>1, <1>2, <1>3 DEF FunctionInOrder, Settling, FlagSends

LEMMA CarriedThere ==
    ASSUME Shape, Allotted
    PROVE  uses.carries \subseteq DOMAIN mirror /\ uses.reads \subseteq DOMAIN mirror
<1>1. ItemsOut(Steps) \cup ItemsIn(Steps) \subseteq AllItems(Steps)
  BY DEF ItemsOut, ItemsIn, AllItems
<1>. QED BY <1>1 DEF Shape, Allotted, Steps

LEMMA CoverInvDone == RunInv /\ CoverInv => SettledMeansDone
<1> SUFFICES ASSUME RunInv, CoverInv, Succeeded, AllMade, ~OldRequestWins, "lost" \notin marks,
                    NEW i \in uses.carries \ (uses.spoils \cup Erased)
             PROVE  dev[i] = meant[i]
  BY DEF SettledMeansDone
<1>1. script.kind # "none" /\ result = "PK_OK"
  BY DEF Succeeded, Settled, Idle
<1>2. Shape /\ Position /\ Allotted /\ MailOK
  BY <1>1 DEF RunInv
<1>3. PICK k \in DOMAIN Steps : Settling(i, k)
  BY <1>2, CarriedSettles
<1>4. Sure(i)
  BY <1>2, CarriedSettles DEF Sure, AllMade, OldRequestWins, Shape
<1>5. k <= At /\ todo = <<>> /\ Underway
  BY <1>1, <1>2, AllRun
<1>6. Covered(i, meant[i])
  BY <1>1, <1>2, <1>3, <1>4, <1>5, CarriedThere DEF CoverInv, SentInv, Goal
<1>. QED BY <1>2, <1>6, SettledCovered

LEMMA CoverInit == Init => LiveInv /\ ValueInv /\ CoverInv
  BY DEF Init, LiveInv, ValueInv, Same, CoverInv, SentInv, FlagInv

\* However many requests are lost, sent again, or not made at once: when a call has
\* returned PK_OK and all is answered, the device holds all that it was asked.
THEOREM DoneWhenSettled == Spec /\ []FunctionsInOrder => []SettledMeansDone
<1>1. RunInv /\ LiveInv /\ ValueInv /\ CoverInv /\ FunctionsInOrder /\ [Next]_vars
      => RunInv' /\ LiveInv' /\ ValueInv' /\ CoverInv'
  BY RunStep, LiveInvStep, ValueInvStep, CoverInvStep
<1>. QED BY RunInit, CoverInit, <1>1, CoverInvDone, PTL DEF Spec

(***************************************************************************)
(* Where the answers for an axis are stored.                               *)
(***************************************************************************)
NoCompare   == \A m \in DOMAIN Steps : Steps[m].kind # "compare"
AxisIs(v)   == SelectedAxis \in DOMAIN mirror => mirror[SelectedAxis] = <<"axis", v>>
CurrentLive == \E k \in DOMAIN requests : Live(k) /\ requests[k].what.current

\* The axis stays named from the step that names it on, also when the call is made again.
AxisInv ==
    script.kind # "none" /\ NoCompare =>
        \A j, m \in DOMAIN Steps : \A p \in Steps[j].in :
            /\ Steps[m].current /\ Steps[j].kind = "select"
            /\ (Underway /\ j <= At) \/ (script.kind # "pair" /\ CurrentLive)
            => AxisIs(p[2])

LEMMA AxisOfCall ==
    ASSUME Shape, NEW c \in DOMAIN script.calls
    PROVE  AxisNamed(StepsOf(c))
  BY CallsInOrder DEF FunctionInOrder

LEMMA AxisOfSteps == ASSUME Shape PROVE AxisNamed(Steps)
  BY CallsInOrder DEF FunctionInOrder

LEMMA SelectMoves ==
    ASSUME Shape, Position, Calling, Now.kind = "select", Now.unless = {}, NEW p, Now.in = {p},
           SelectedAxis \in DOMAIN mirror
    PROVE  mirror'[SelectedAxis] = <<"axis", p[2]>>
<1>1. Select
  BY DEF Calling, Run, Send, PassOver, AssignFields, ReturnEarly, CompareWithCopy, Submit,
     SubmitUnsent, NoFreeSlot, SendSilently, MailboxStep, Runs, Passed
<1>2. (CHOOSE i \in Now.in : TRUE) = p
  OBVIOUS
<1>3. mirror' = Overlay(mirror, {i \in DOMAIN mirror : i[1] = "param1"}, <<"axis", p[2]>>)
  BY <1>1, <1>2 DEF Select, Continue
<1>4. SelectedAxis[1] = "param1"
  BY DEF SelectedAxis
<1>. QED BY <1>3, <1>4 DEF Overlay

\* The axis changes only as a function names one.
LEMMA AxisMoves ==
    ASSUME RunInv, Calling \/ Mailbox, SelectedAxis \in DOMAIN mirror
    PROVE  mirror'[SelectedAxis] = mirror[SelectedAxis] \/ (Calling /\ Now.kind = "select")
<1>1. Shape /\ Position /\ MailOK /\ script.kind # "none"
  BY InCall
<1>2. CASE Calling
  <2>1. PICK m \in DOMAIN Steps : Now = Steps[m]
    BY <1>1, <1>2, CallingEnabled, NowOfSteps
  <2>2. CASE Now.kind # "select"
    <3>1. Untouched(Now, SelectedAxis)
      BY <1>1, <2>1, <2>2, AxisOfSteps DEF AxisNamed
    <3>. QED BY <1>1, <1>2, <3>1, FieldMoves
  <2>. QED BY <1>2, <2>2
<1>3. CASE Dispatch \/ DispatchRefusal
  <2>1. answers # <<>>
    BY <1>3 DEF Dispatch, DispatchRefusal
  <2>2. PICK c \in DOMAIN script.calls : ReadBy(1) \in Range(StepsOf(c)) /\ Exchanges(ReadBy(1))
    BY <1>1, <2>1, FirstAnswer DEF RequestOK
  <2>3. ~Touches(ReadBy(1), SelectedAxis) /\ SelectedAxis \notin ReadBy(1).drops
    BY <1>1, <2>2, AxisOfCall DEF Range, AxisNamed, Exchanges
  <2>4. CASE Dispatch
    BY <1>1, <2>3, <2>4, DispatchField
  <2>5. CASE DispatchRefusal
    BY <1>1, <2>3, <2>5, MailboxField DEF Mailbox, Receive
  <2>. QED BY <1>3, <2>4, <2>5
<1>4. CASE Mailbox /\ ~Dispatch /\ ~DispatchRefusal
  BY <1>1, <1>4, MailboxField
<1>. QED BY <1>2, <1>3, <1>4

LEMMA AxisInvStep ==
    ASSUME RunInv, LiveInv, AxisInv, FunctionsInOrder, [Next]_vars
    PROVE  AxisInv'
<1> SUFFICES ASSUME script'.kind # "none", NoCompare',
                    NEW j \in DOMAIN Steps', NEW m \in DOMAIN Steps', NEW p \in Steps'[j].in,
                    Steps'[m].current, Steps'[j].kind = "select",
                    (Underway' /\ j <= At') \/ (script'.kind # "pair" /\ CurrentLive'),
                    SelectedAxis \in DOMAIN mirror'
             PROVE  mirror'[SelectedAxis] = <<"axis", p[2]>>
  BY DEF AxisInv, AxisIs
<1>1. CASE Starts
  <2>1. /\ ~(j <= At') /\ script'.kind # "pair" /\ UNCHANGED <<requests, answers>>
        /\ \E k \in DOMAIN requests : Live(k) /\ requests[k].what.current
    BY <1>1, StartsFresh DEF CurrentLive, Live, AnswerQueued
  <2>2. ~BeginScript
    BY <2>1, BeginEnters
  <2>3. ~CallNext
    BY <2>1, OnwardEnters, SettledDead
  <2>4. CallAgain
    BY <1>1, <2>2, <2>3 DEF Starts
  <2>5. Steps' = Steps /\ script' = script /\ mirror' = mirror
    BY <2>4, AgainEnters
  <2>. QED BY <2>1, <2>5 DEF AxisInv, AxisIs, CurrentLive, NoCompare
<1>2. CASE Calling \/ Mailbox
  <2>1. /\ Shape /\ Position /\ MailOK /\ MailMoves /\ Steps' = Steps /\ script' = script
        /\ DOMAIN mirror' = DOMAIN mirror /\ script.kind # "none" /\ NoCompare
    BY <1>2, InCall DEF NoCompare
  <2>2. \A n \in DOMAIN Steps : Steps[n].current => \E i \in DOMAIN Steps : \E param1 \in Steps[i].in :
           /\ i < n /\ Steps[i].kind = "select" /\ Steps[i].in = {param1} /\ Steps[i].unless = {}
           /\ \A l \in DOMAIN Steps : Steps[l].kind = "select" => l = i
    BY <2>1, AxisOfSteps DEF AxisNamed
  <2>3. Steps[j].in = {p} /\ Steps[j].unless = {} /\ \A l \in DOMAIN Steps : Steps[l].kind = "select" => l = j
    BY <2>1, <2>2
  <2>4. CASE Calling
    <3>1. Now = Steps[At + 1] /\ At + 1 \in DOMAIN Steps /\ At \in Nat /\ Underway
      BY <2>1, <2>4, CallingEnabled, NextStep, CallingPosition
    <3>2. CASE Now.kind = "select"
      <4>1. At + 1 = j
        BY <2>3, <3>1, <3>2
      <4>. QED BY <2>1, <2>3, <2>4, <3>1, <3>2, <4>1, SelectMoves
    <3>3. CASE Now.kind # "select"
      <4>1. j <= At \/ (script.kind # "pair" /\ CurrentLive)
        <5>1. CASE Underway' /\ j <= At'
          <6>1. At' = At + 1 /\ j # At + 1 /\ j \in Nat
            BY <2>1, <2>4, <3>1, <3>3, <5>1, CallingPosition, StepsInOrder DEF Jumps, NoCompare
          <6>. QED BY <3>1, <5>1, <6>1
        <5>2. CASE script'.kind # "pair" /\ CurrentLive'
          <6>1. PICK k \in DOMAIN requests' : Live(k)' /\ requests'[k].what.current
            BY <5>2 DEF CurrentLive, Live, AnswerQueued
          <6>2. CASE k \in DOMAIN requests
            <7>1. Live(k) /\ requests'[k].what = requests[k].what
              BY <2>1, <6>1, <6>2, LiveKept
            <7>. QED BY <2>1, <5>2, <6>1, <6>2, <7>1 DEF CurrentLive
          <6>3. CASE k \notin DOMAIN requests
            <7>1. requests'[k].what = Now
              BY <2>1, <6>1, <6>3, LiveKept DEF Made
            <7>2. j < At + 1 /\ j \in Nat
              BY <2>1, <2>2, <2>3, <3>1, <6>1, <7>1, StepsInOrder
            <7>. QED BY <3>1, <7>2
          <6>. QED BY <6>2, <6>3
        <5>. QED BY <5>1, <5>2
      <4>2. AxisIs(p[2])
        BY <2>1, <3>1, <4>1 DEF AxisInv
      <4>. QED BY <2>1, <2>4, <3>3, <4>2, AxisMoves DEF AxisIs
    <3>. QED BY <3>2, <3>3
  <2>5. CASE Mailbox /\ ~Calling
    <3>1. /\ At' = At /\ (Underway' <=> Underway)
          /\ DOMAIN requests' = DOMAIN requests
      BY <2>1, <2>5, MailboxMail DEF At, Underway
    <3>2. CurrentLive' => CurrentLive
      <4> SUFFICES ASSUME NEW k \in DOMAIN requests', Live(k)', requests'[k].what.current PROVE CurrentLive
        BY DEF CurrentLive, Live, AnswerQueued
      <4>. QED BY <2>1, <3>1, LiveKept DEF CurrentLive
    <3>3. AxisIs(p[2])
      BY <2>1, <3>1, <3>2 DEF AxisInv
    <3>. QED BY <2>1, <2>5, <3>3, AxisMoves DEF AxisIs
  <2>. QED BY <1>2, <2>4, <2>5
<1>3. CASE Rests
  BY <1>3, RestsAll DEF AxisInv, AxisIs, CurrentLive, Live, AnswerQueued, NoCompare
<1>. QED BY <1>1, <1>2, <1>3, NextCases

\* The answers to requests of the call are stored where the device has taken them from.
LEMMA StoredInPlace ==
    ASSUME Shape, Position, AxisInv, script.kind # "none", NoCompare, NEW m \in DOMAIN Steps,
           \/ Underway /\ m <= At
           \/ script.kind # "pair" /\ \E k \in DOMAIN requests : Live(k) /\ requests[k].what = Steps[m]
    PROVE  InPlace(Steps[m])
<1>1. CASE ~Steps[m].current
  BY <1>1 DEF InPlace, PlaceOf
<1>2. CASE Steps[m].current
  <2>1. PICK j \in DOMAIN Steps : \E param1 \in Steps[j].in :
           /\ j < m /\ Steps[j].kind = "select" /\ Steps[j].in = {param1} /\ Steps[j].unless = {}
           /\ \A x \in Steps[m].in \ SharedByAxes : x = <<x[1], param1[2]>>
    BY <1>2, AxisOfSteps DEF AxisNamed
  <2>2. PICK p \in Steps[j].in : \A x \in Steps[m].in \ SharedByAxes : x = <<x[1], p[2]>>
    BY <2>1
  <2>3. (Underway /\ j <= At) \/ (script.kind # "pair" /\ CurrentLive)
    <3>1. j \in Nat /\ m \in Nat /\ (j < m /\ m <= At => j <= At)
      <4>1. j \in Nat /\ m \in Nat /\ At \in Int
        BY StepsInOrder DEF At, Position
      <4>. QED BY <4>1
    <3>. QED BY <1>2, <2>1, <3>1 DEF CurrentLive
  <2>4. AxisIs(p[2])
    BY <1>2, <2>1, <2>2, <2>3 DEF AxisInv
  <2>5. \A x \in Steps[m].in : PlaceOf(Steps[m], x) = x
    BY <2>2, <2>4 DEF PlaceOf, AxisIs
  <2>. QED BY <2>5 DEF InPlace
<1>. QED BY <1>1, <1>2

(***************************************************************************)
(* Fields that no function changes.                                        *)
(***************************************************************************)
LEMMA LeftAlone ==
    ASSUME RunInv, Calling \/ Mailbox, NEW i \in DOMAIN mirror,
           \/ Leaves(Steps, i)
           \/ LeavesInPlace(Steps, i) /\ AxisInv /\ script.kind # "pair",
           \A k \in DOMAIN requests : Live(k) => requests[k].what \in Range(Steps)
    PROVE  mirror'[i] = mirror[i]
<1>1. Shape /\ Position /\ MailOK /\ script.kind # "none"
  BY InCall
<1>2. CASE Calling
  <2>1. \E m \in DOMAIN Steps : Now = Steps[m]
    BY <1>1, <1>2, CallingEnabled, NowOfSteps
  <2>2. Untouched(Now, i)
    BY <2>1 DEF Leaves, LeavesInPlace
  <2>. QED BY <1>1, <1>2, <2>2, FieldMoves
<1>3. CASE Dispatch \/ DispatchRefusal
  <2>1. answers # <<>>
    BY <1>3 DEF Dispatch, DispatchRefusal
  <2>2. /\ answers[1].request \in DOMAIN requests /\ Live(answers[1].request)
        /\ \E m \in DOMAIN Steps : ReadBy(1) = Steps[m]
    BY <1>1, <2>1, FirstAnswer DEF ReadBy, Range
  <2>3. /\ i \notin ReadBy(1).drops
        /\ \/ ~Touches(ReadBy(1), i)
           \/ i \notin ReadBy(1).in \cup ReadBy(1).clears /\ InPlace(ReadBy(1))
    <3>1. CASE Leaves(Steps, i)
      BY <2>2, <3>1 DEF Leaves
    <3>2. CASE LeavesInPlace(Steps, i) /\ AxisInv /\ script.kind # "pair"
      <4>1. NoCompare
        BY <3>2 DEF NoCompare, LeavesInPlace
      <4>2. InPlace(ReadBy(1))
        BY <1>1, <2>2, <3>2, <4>1, StoredInPlace DEF ReadBy
      <4>. QED BY <2>2, <3>2, <4>2 DEF LeavesInPlace
    <3>. QED BY <3>1, <3>2
  <2>4. CASE Dispatch
    BY <1>1, <2>3, <2>4, DispatchField
  <2>5. CASE DispatchRefusal
    BY <1>1, <2>3, <2>5, MailboxField DEF Mailbox, Receive
  <2>. QED BY <1>3, <2>4, <2>5
<1>4. CASE Mailbox /\ ~Dispatch /\ ~DispatchRefusal
  BY <1>1, <1>4, MailboxField
<1>. QED BY <1>2, <1>3, <1>4

\* What is asked of an item that is carried, when PK_OK is returned.
LEMMA MeantThen ==
    ASSUME RunInv, Calling \/ Mailbox, NEW i \in DOMAIN mirror, result' = "PK_OK", i \in uses'.carries
    PROVE  meant'[i] = mirror'[i] \/ (result = "PK_OK" /\ i \in uses.carries /\ meant'[i] = meant[i])
<1>1. Shape /\ Position /\ Allotted /\ RunInv' /\ uses' = uses /\ script' = script /\ script.kind # "none"
  BY InCall
<1>2. CASE Calling
  <2>1. Underway' /\ todo' = <<>>
    BY <1>1 DEF RunInv, Position, Underway
  <2>. QED BY <1>1, <1>2, <2>1, MeantMoves DEF Allotted
<1>3. CASE Mailbox
  BY <1>1, <1>3, MailboxMail DEF MailOK, RunInv
<1>. QED BY <1>2, <1>3

\* Fields that are prepared before another function reads something else.
Prepared(i) ==
    i \in ItemsOut(StepsOf(2)) \ (ItemsTaken(StepsOf(2)) \cup ReadByOthers \cup Erased
                                  \cup Spoiled(StepsOf(1)) \cup Spoiled(StepsOf(2)))
EditInv ==
    script.kind = "between" =>
        \A i \in DOMAIN mirror : Prepared(i) =>
            /\ mirror[i] = <<"app1">>
            /\ step = 2 /\ result = "PK_OK" /\ i \in uses.carries => meant[i] = <<"app1">>

LEMMA PreparedLeft ==
    ASSUME Shape, script.kind = "between", NEW i, Prepared(i)
    PROVE  /\ Leaves(Steps, i) \/ LeavesInPlace(Steps, i)
           /\ Steady(StepsOf(2), i)
           /\ \A m \in DOMAIN StepsOf(2) : Carries(StepsOf(2)[m], i) => ~StepsOf(2)[m].silent
<1>1. DOMAIN script.calls = {1, 2}
  BY DEF Shape
<1>2. LeavesInPlace(StepsOf(1), i) /\ Leaves(StepsOf(2), i) /\ Steady(StepsOf(2), i)
      /\ \A m \in DOMAIN StepsOf(2) : Carries(StepsOf(2)[m], i) => ~StepsOf(2)[m].silent
  BY <1>1 DEF Prepared, Shape, InOrder, StepsOf
<1>3. Steps = StepsOf(1) \/ Steps = StepsOf(2)
  BY <1>1 DEF Shape, Steps
<1>. QED BY <1>2, <1>3

LEMMA EditInvStep ==
    ASSUME RunInv, LiveInv, AxisInv, EditInv, FunctionsInOrder, [Next]_vars
    PROVE  EditInv'
<1> SUFFICES ASSUME script'.kind = "between", NEW i \in DOMAIN mirror', Prepared(i)'
             PROVE  /\ mirror'[i] = <<"app1">>
                    /\ step' = 2 /\ result' = "PK_OK" /\ i \in uses'.carries => meant'[i] = <<"app1">>
  BY DEF EditInv
<1>1. CASE Starts
  <2>1. result' = "PK_OK" => i \notin uses'.carries
    BY <1>1, StartsFresh
  <2>2. mirror'[i] = <<"app1">>
    <3>1. CASE BeginScript
      BY <3>1, BeginEnters
    <3>2. CASE CallNext
      <4>1. script.kind = "between" /\ mirror' = mirror /\ \A c : StepsOf(c)' = StepsOf(c)
        BY <3>2, OnwardEnters
      <4>2. Prepared(i)
        BY <4>1 DEF Prepared
      <4>. QED BY <4>1, <4>2 DEF EditInv
    <3>3. CASE CallAgain
      BY <3>3, AgainEnters
    <3>. QED BY <1>1, <3>1, <3>2, <3>3 DEF Starts
  <2>. QED BY <2>1, <2>2
<1>2. CASE Calling \/ Mailbox
  <2>1. /\ Shape /\ UNCHANGED <<script, step, uses>> /\ i \in DOMAIN mirror
        /\ \A c : StepsOf(c)' = StepsOf(c)
    BY <1>2, InCall
  <2>2. script.kind = "between" /\ Prepared(i)
    BY <2>1 DEF Prepared
  <2>3. mirror'[i] = mirror[i]
    <3>1. \A k \in DOMAIN requests : Live(k) => requests[k].what \in Range(Steps)
      BY <2>2 DEF LiveInv
    <3>. QED BY <1>2, <2>1, <2>2, <3>1, PreparedLeft, LeftAlone
  <2>. QED BY <1>2, <2>1, <2>2, <2>3, MeantThen DEF EditInv
<1>3. CASE Rests
  BY <1>3, RestsAll DEF EditInv, Prepared
<1>. QED BY <1>1, <1>2, <1>3, NextCases

LEMMA EditInvDone == RunInv /\ CoverInv /\ EditInv => EditsSurviveReads
<1> SUFFICES ASSUME RunInv, CoverInv, EditInv, Succeeded, AllMade, script.kind = "between", step = 2,
                    NEW i \in uses.carries \ (uses.takes \cup uses.spoils \cup ReadByOthers \cup Erased)
             PROVE  dev[i] = <<"app1">>
  BY DEF EditsSurviveReads
<1>1. script.kind # "none" /\ result = "PK_OK"
  BY DEF Succeeded, Settled, Idle
<1>2. Shape /\ Position /\ Allotted /\ MailOK
  BY <1>1 DEF RunInv
<1>3. Prepared(i) /\ Steps = StepsOf(2)
  BY <1>2 DEF Prepared, Shape, Steps
<1>4. Sure(i)
  BY <1>2, <1>3, PreparedLeft, CarriedSettles DEF Sure, AllMade, Shape
<1>5. PICK k \in DOMAIN Steps : Settling(i, k)
  BY <1>2, CarriedSettles
<1>6. k <= At /\ todo = <<>> /\ Underway
  BY <1>1, <1>2, AllRun
<1>7. Covered(i, meant[i]) /\ meant[i] = <<"app1">>
  BY <1>1, <1>2, <1>3, <1>4, <1>5, <1>6, CarriedThere DEF CoverInv, SentInv, Goal, EditInv
<1>. QED BY <1>2, <1>7, SettledCovered

LEMMA EditInit == Init => AxisInv /\ EditInv
  BY DEF Init, AxisInv, EditInv

\* What a program has prepared in the structure reaches the device as it is when another
\* function has read something else meanwhile, whatever becomes of the requests.
THEOREM EditsSurvive == Spec /\ []FunctionsInOrder => []EditsSurviveReads
<1>1. RunInv /\ LiveInv /\ ValueInv /\ CoverInv /\ AxisInv /\ EditInv /\ FunctionsInOrder /\ [Next]_vars
      => RunInv' /\ LiveInv' /\ ValueInv' /\ CoverInv' /\ AxisInv' /\ EditInv'
  BY RunStep, LiveInvStep, ValueInvStep, CoverInvStep, AxisInvStep, EditInvStep
<1>. QED BY RunInit, CoverInit, EditInit, <1>1, EditInvDone, PTL DEF Spec

(***************************************************************************)
(* While no request is sent again, and no answer overtakes another, each   *)
(* request is answered at most once, and in its turn.                      *)
(***************************************************************************)
InSequence == marks \cap {"resent", "reordered"} = {}
OnceInv ==
    InSequence =>
        /\ \A k \in DOMAIN requests : requests[k].attempts = 1 /\ requests[k].status # "failed"
        /\ \A n \in DOMAIN answers : requests[answers[n].request].status = "pending"
        /\ \A n, l \in DOMAIN answers : answers[n].request = answers[l].request => n = l

\* The answer to a request has been lost, or the request: it can never be answered.
Doomed == \E k \in DOMAIN requests : Undone(k)

LEMMA DoomedStays ==
    ASSUME RunInv, Calling \/ Mailbox, InSequence', Doomed
    PROVE  \E k \in DOMAIN requests' : Undone(k)'
<1>1. PICK k \in DOMAIN requests : Undone(k)
  BY DEF Doomed
<1>2. MailMoves
  BY InCall
<1>3. k \in DOMAIN requests' /\ (Undone(k)' \/ Executing(k))
  BY <1>1, <1>2 DEF MailMoves, Kept
<1>4. ~Executing(k)
  BY <1>1 DEF Executing, InSequence
<1>. QED BY <1>3, <1>4

ReadNext(n) == requests'[answers'[n].request].what
Joined(l) ==
    /\ l \in DOMAIN answers' /\ DOMAIN answers' = DOMAIN answers \cup {l}
    /\ \A n \in DOMAIN answers : n < l /\ answers'[n] = answers[n] /\ ReadNext(n) = ReadBy(n)
    /\ ReadNext(l) = Now /\ answers'[l].values = [i \in Now.in |-> dev'[i]]
Shifted ==
    /\ \A n \in DOMAIN answers' : n \in Nat /\ n + 1 \in DOMAIN answers
                                  /\ answers'[n] = answers[n + 1] /\ ReadNext(n) = ReadBy(n + 1)
    /\ \A n \in DOMAIN answers : n \in Nat /\ (n = 1 \/ n - 1 \in DOMAIN answers')
    /\ 1 \in DOMAIN answers

\* A request that is made joins the queue with its answer, or is lost.
LEMMA SendJoins ==
    ASSUME Shape, Position, Allotted, MailOK, Send, Underway', ~Now.silent,
           "dropped" \notin marks' \/ Call \notin IgnoresFailures
    PROVE  \/ \E k \in DOMAIN requests' : Undone(k)'
           \/ \E l \in DOMAIN answers' : Joined(l)
<1>1. todo # <<>> /\ (Now.onFail = "skip" => Call \in IgnoresFailures)
  BY CallingEnabled, NextStep, StepsInOrder DEF Calling
<1>2. PICK carries \in Contents : RequestMade(carries) \/ NothingMade \/ WentPast(carries)
  BY SendMoves
<1>3. RequestMade(carries) /\ MailboxStep
  <2>1. ~NothingMade /\ ~WentPast(carries)
    BY <1>1 DEF NothingMade, WentPast
  <2>2. Exchanges(Now) /\ ~Passed(Now)
    BY SendMoves
  <2>. QED BY <1>1, <1>2, <2>1, <2>2 DEF MailboxStep, Runs, Exchanges
<1> DEFINE q == Len(requests) + 1
<1>4. /\ \A k \in DOMAIN requests : requests'[k] = requests[k]
      /\ q \in DOMAIN requests' /\ requests'[q] = NewRequest(carries)
      /\ \A n \in DOMAIN answers : answers[n].request # q
  BY <1>3, AppendMoves DEF RequestMade
<1>5. requests'[q].what = Now /\ requests'[q].status = "pending"
  BY <1>4 DEF NewRequest
<1>6. CASE UNCHANGED answers
  BY <1>4, <1>5, <1>6 DEF Undone, AnswerQueued
<1>7. CASE answers' = Append(answers, Answered(q, Now, dev'))
  <2> DEFINE e == Answered(q, Now, dev')
  <2>1. e.request = q /\ e.values = [i \in Now.in |-> dev'[i]]
    BY DEF Answered
  <2> HIDE DEF e, q
  <2>2. /\ Len(answers) \in Nat /\ DOMAIN answers = 1..Len(answers)
        /\ DOMAIN Append(answers, e) = 1..(Len(answers) + 1)
        /\ \A n \in DOMAIN answers : Append(answers, e)[n] = answers[n]
        /\ Append(answers, e)[Len(answers) + 1] = e
    BY AppendSeq DEF MailOK
  <2>3. answers' = Append(answers, e)
    BY <1>7 DEF e
  <2>4. ASSUME NEW n \in DOMAIN answers PROVE ReadNext(n) = ReadBy(n)
    BY <1>4, <2>2, <2>3, <2>4 DEF ReadNext, ReadBy, MailOK
  <2>5. ReadNext(Len(answers) + 1) = Now
    BY <1>5, <2>1, <2>2, <2>3 DEF ReadNext
  <2>6. Joined(Len(answers) + 1)
    BY <2>1, <2>2, <2>3, <2>4, <2>5 DEF Joined
  <2>. QED BY <2>6 DEF Joined
<1>. QED BY <1>3, <1>6, <1>7 DEF RequestMade, q

LEMMA DispatchShifts ==
    ASSUME MailOK, Dispatch \/ DispatchRefusal
    PROVE  Shifted /\ UNCHANGED dev /\ answers # <<>>
<1>1. answers # <<>> /\ Collected /\ UNCHANGED dev
  BY DEF Dispatch, DispatchRefusal
<1>2. /\ MailMoves
      /\ \A n \in DOMAIN answers' : n + 1 \in DOMAIN answers /\ answers'[n] = answers[n + 1]
      /\ 1 \in DOMAIN answers
      /\ \A n \in DOMAIN answers : n = 1 \/ n - 1 \in DOMAIN answers'
  BY <1>1, CollectMail
<1>3. ASSUME NEW n \in DOMAIN answers' PROVE ReadNext(n) = ReadBy(n + 1)
  BY <1>2, <1>3 DEF ReadNext, ReadBy, MailOK, MailMoves, Kept
<1>4. (\A n \in DOMAIN answers : n \in Nat) /\ (\A n \in DOMAIN answers' : n \in Nat)
  BY <1>2 DEF MailOK, MailMoves
<1>. QED BY <1>1, <1>2, <1>3, <1>4 DEF Shifted

\* The mailbox, as long as nothing is sent again.
LEMMA OnceMailbox ==
    ASSUME RunInv, OnceInv, InSequence', Mailbox
    PROVE  Dispatch \/ DispatchRefusal \/ (Disconnect /\ UNCHANGED <<requests, answers, mirror, dev>>)
<1>1. InSequence /\ MailOK
  BY InCall DEF InSequence
<1>2. ~ResendInVain /\ ~Reorder /\ \A k : ~Resend(k)
  BY DEF InSequence, ResendInVain, Reorder, Resend
<1>3. ~GiveUp
  BY <1>1 DEF GiveUp, ForAll, OnceInv, MayResend, Pending
<1>4. ~DispatchUnknown
  <2>1. answers # <<>> => First.status = "pending"
    BY <1>1, FirstAnswer DEF OnceInv
  <2>. QED BY <2>1 DEF DispatchUnknown
<1>. QED BY <1>2, <1>3, <1>4 DEF Mailbox, Timeouts, Receive, Disconnect

LEMMA OnceInvStep ==
    ASSUME RunInv, OnceInv, FunctionsInOrder, [Next]_vars
    PROVE  OnceInv'
<1> SUFFICES ASSUME InSequence'
             PROVE  /\ \A k \in DOMAIN requests' : requests'[k].attempts = 1 /\ requests'[k].status # "failed"
                    /\ \A n \in DOMAIN answers' : requests'[answers'[n].request].status = "pending"
                    /\ \A n, l \in DOMAIN answers' : answers'[n].request = answers'[l].request => n = l
  BY DEF OnceInv
<1>1. CASE Starts
  BY <1>1, StartsFresh DEF OnceInv, InSequence
<1>2. CASE Calling \/ Mailbox
  <2>1. Shape /\ Position /\ Allotted /\ MailOK /\ InSequence
    BY <1>2, InCall DEF InSequence
  <2>2. /\ \A k \in DOMAIN requests : requests[k].attempts = 1 /\ requests[k].status # "failed"
        /\ \A n \in DOMAIN answers : requests[answers[n].request].status = "pending"
        /\ \A n, l \in DOMAIN answers : answers[n].request = answers[l].request => n = l
    BY <2>1 DEF OnceInv
  <2>3. CASE UNCHANGED <<requests, answers>>
    BY <2>2, <2>3
  <2>4. CASE Send
    <3>1. PICK carries \in Contents : RequestMade(carries) \/ NothingMade \/ WentPast(carries)
      BY <2>1, <2>4, SendMoves
    <3>2. CASE NothingMade \/ WentPast(carries)
      BY <2>3, <3>2 DEF NothingMade, WentPast
    <3>3. CASE RequestMade(carries)
      <4>1. MailboxStep
        <5>1. Exchanges(Now) /\ ~Passed(Now) /\ todo # <<>>
          BY <2>1, <2>4, SendMoves, CallingEnabled DEF Calling
        <5>. QED BY <3>3, <5>1 DEF MailboxStep, Runs, Exchanges, RequestMade
      <4> DEFINE q == Len(requests) + 1
      <4>2. /\ \A k \in DOMAIN requests : requests'[k] = requests[k] /\ k \in DOMAIN requests'
            /\ \A k \in DOMAIN requests' : k \in DOMAIN requests \/ Made(k)
            /\ q \in DOMAIN requests' /\ requests'[q] = NewRequest(carries)
            /\ \A n \in DOMAIN answers : answers[n].request # q
        BY <2>1, <3>3, <4>1, AppendMoves DEF RequestMade, Kept
      <4>3. \A k \in DOMAIN requests' : requests'[k].attempts = 1 /\ requests'[k].status # "failed"
        BY <2>2, <4>2 DEF Made
      <4>4. requests'[q].status = "pending"
        BY <4>2 DEF NewRequest
      <4>5. CASE UNCHANGED answers
        BY <2>1, <2>2, <4>2, <4>3, <4>5 DEF MailOK
      <4>6. CASE answers' = Append(answers, Answered(q, Now, dev'))
        <5> DEFINE e == Answered(q, Now, dev')
        <5>1. e.request = q
          BY DEF Answered
        <5> HIDE DEF e, q
        <5>2. /\ Len(answers) \in Nat /\ DOMAIN answers = 1..Len(answers)
              /\ DOMAIN Append(answers, e) = 1..(Len(answers) + 1)
              /\ \A n \in DOMAIN answers : Append(answers, e)[n] = answers[n]
              /\ Append(answers, e)[Len(answers) + 1] = e
          BY <2>1, AppendSeq DEF MailOK
        <5>3. answers' = Append(answers, e)
          BY <4>6 DEF e
        <5>4. ASSUME NEW n \in DOMAIN answers'
              PROVE  (n \in DOMAIN answers /\ answers'[n] = answers[n]) \/ (n = Len(answers) + 1 /\ answers'[n] = e)
          BY <5>2, <5>3
        <5>5. \A n \in DOMAIN answers' : requests'[answers'[n].request].status = "pending"
          BY <2>1, <2>2, <4>2, <4>4, <5>1, <5>4 DEF MailOK
        <5>6. \A n, l \in DOMAIN answers' : answers'[n].request = answers'[l].request => n = l
          BY <2>2, <4>2, <5>1, <5>4
        <5>. QED BY <4>3, <5>5, <5>6
      <4>. QED BY <3>3, <4>5, <4>6 DEF RequestMade, q
    <3>. QED BY <3>1, <3>2, <3>3
  <2>5. CASE Run
    BY <2>3, <2>5, RunQuiet
  <2>6. CASE Dispatch \/ DispatchRefusal
    <3>1. answers # <<>> /\ Collected /\ UNCHANGED dev
      BY <2>6 DEF Dispatch, DispatchRefusal
    <3>2. /\ MailMoves /\ DOMAIN requests' = DOMAIN requests
          /\ \A n \in DOMAIN answers' : n + 1 \in DOMAIN answers /\ answers'[n] = answers[n + 1]
          /\ 1 \in DOMAIN answers
          /\ \A k \in DOMAIN requests : k # answers[1].request => requests'[k] = requests[k]
          /\ requests'[answers[1].request].status = "answered"
      BY <2>1, <3>1, CollectMail
    <3>3. \A n \in DOMAIN answers' : n \in Nat /\ n + 1 # 1
      BY <3>2 DEF MailMoves
    <3>4. \A n \in DOMAIN answers' : answers'[n].request # answers[1].request /\ answers'[n].request \in DOMAIN requests
      BY <2>1, <2>2, <3>2, <3>3 DEF MailOK
    <3>5. ASSUME NEW k \in DOMAIN requests
          PROVE requests'[k].attempts = 1 /\ requests'[k].status # "failed"
      <4>1. requests' = [requests EXCEPT ![Head(answers).request].status = "answered"]
        BY <3>1 DEF Collected
      <4>. QED BY <2>2, <3>2, <4>1
    <3>6. \A n, l \in DOMAIN answers' : answers'[n].request = answers'[l].request => n = l
      BY <2>2, <3>2, <3>3
    <3>. QED BY <2>2, <3>2, <3>4, <3>5, <3>6
  <2>7. CASE Mailbox /\ ~Dispatch /\ ~DispatchRefusal
    BY <2>3, <2>7, OnceMailbox
  <2>. QED BY <1>2, <2>4, <2>5, <2>6, <2>7 DEF Calling
<1>3. CASE Rests
  BY <1>3, RestsAll DEF OnceInv, InSequence
<1>. QED BY <1>1, <1>2, <1>3, NextCases

(***************************************************************************)
(* What is known when a parser needs it.                                   *)
(***************************************************************************)
Sound(v) == v \notin {<<"unset">>, <<"zero">>, <<"stray">>, <<"garbled">>}

LEMMA StartsSound ==
    ASSUME RunInv, FunctionsInOrder, BeginScript, NEW i \in DOMAIN mirror'
    PROVE  Sound(dev'[i]) /\ (script'.kind # "rmw" => Sound(mirror'[i]))
<1>1. dev'[i] = <<"dev", i>> /\ (script'.kind # "rmw" => mirror'[i] = <<"app1">>)
  BY BeginEnters
<1>2. Sound(<<"dev", i>>) /\ Sound(<<"app1">>)
  BY DEF Sound
<1>. QED BY <1>1, <1>2

\* What the function that runs does to an item of the device.
LEMMA DeviceMoves ==
    ASSUME RunInv, Calling, NEW i \in DOMAIN dev
    PROVE  \/ dev'[i] = dev[i]
           \/ Carries(Now, i) /\ \E carries \in Contents : i \in DOMAIN carries /\ dev'[i] = carries[i]
<1>1. Shape /\ Position /\ MailOK /\ MailMoves /\ todo # <<>>
  BY InCall, CallingEnabled
<1>2. ASSUME NEW carries \in Contents, dev' = Executed(carries), Exchanges(Now)
      PROVE  \/ dev'[i] = dev[i]
             \/ Carries(Now, i) /\ i \in DOMAIN carries /\ dev'[i] = carries[i]
  <2>1. DOMAIN carries = Now.out \cup Now.zeroes
    BY ContentsOf
  <2>. QED BY <1>2, <2>1 DEF Executed, Carries
<1>3. CASE SentPast
  <2>1. Exchanges(Now)
    BY <1>3 DEF SentPast, SendSilently, Runs, Exchanges
  <2>. QED BY <1>2, <1>3, <2>1 DEF SentPast
<1>4. CASE \E k \in DOMAIN requests' : Executing(k)
  <2>1. PICK k \in DOMAIN requests' : Executing(k)
    BY <1>4
  <2>2. Made(k)
    BY <1>1, <2>1 DEF Executing, Idle, MailMoves
  <2>3. Exchanges(Now) /\ requests'[k].carries \in Contents
    BY <2>2 DEF Made, MailboxStep, Runs, Exchanges
  <2>. QED BY <1>2, <2>1, <2>3 DEF Executing
<1>. QED BY <1>1, <1>3, <1>4 DEF MailMoves

\* Functions that go on whatever happens do not return an error.
NoFailInv == script.kind # "none" /\ NeverFails(Steps) => Underway

LEMMA NoFailInvStep ==
    ASSUME RunInv, NoFailInv, FunctionsInOrder, [Next]_vars
    PROVE  NoFailInv'
<1>1. CASE Starts
  <2>1. Position' /\ (todo' = <<>> => result' = "PK_OK")
    BY <1>1, StartsFresh
  <2>. QED BY <2>1 DEF NoFailInv, Underway, Position
<1>2. CASE Calling
  <2>1. /\ Shape /\ Position /\ Steps' = Steps /\ script' = script /\ todo # <<>>
        /\ \E m \in DOMAIN Steps : Now = Steps[m]
    BY <1>2, InCall, CallingEnabled, NowOfSteps
  <2>2. ASSUME NeverFails(Steps) PROVE Underway'
    <3>1. Exchanges(Now) /\ Now.onFail = "skip" /\ ~Now.silent
      BY <2>1, <2>2 DEF NeverFails
    <3>2. \E rest, new : Continue(rest, new)
      BY <1>2, <3>1 DEF Calling, Run, Send, PassOver, AssignFields, Select, ReturnEarly, CompareWithCopy,
         Submit, SubmitUnsent, NoFreeSlot, SendSilently, FailOrSkip, Runs, Exchanges
    <3>. QED BY <3>2 DEF Continue, Underway
  <2>. QED BY <2>1, <2>2 DEF NoFailInv
<1>3. CASE Mailbox
  <2>1. Steps' = Steps /\ script' = script /\ result' = result
    BY <1>3, InCall, MailboxMail
  <2>. QED BY <2>1 DEF NoFailInv, Underway
<1>4. CASE Rests
  BY <1>4, RestsAll DEF NoFailInv
<1>. QED BY <1>1, <1>2, <1>3, <1>4, NextCases

\* The first call of two leaves what the parsers of the second need.
FirstInv ==
    script.kind = "pair" /\ step = 1 /\ InSequence /\ ~PinsReadTwice =>
        \A n \in DOMAIN mirror : n \in Needed(StepsOf(2)) => Sound(mirror[n]) /\ Sound(dev[n])

LEMMA SecondNeeds ==
    ASSUME Shape, script.kind # "retry", ~PinsReadTwice, NEW n \in Needed(StepsOf(2))
    PROVE  script.kind = "pair" /\ LeavesKnown(StepsOf(1), n)
<1>1. DOMAIN script.calls = {1, 2} /\ Len(script.calls) = 2
  BY DEF Shape
<1>. QED BY <1>1 DEF Shape, InOrder, StepsOf, PinsReadTwice

\* All the requests are of the first call.
LEMMA FirstRequests ==
    ASSUME Shape, MailOK, step = 1
    PROVE  \A k \in DOMAIN requests : requests[k].what \in Range(Steps)
<1>1. \A c \in DOMAIN script.calls : c <= step => c = 1
  BY CallsInOrder
<1>. QED BY <1>1 DEF MailOK, RequestOK, Steps

LEMMA FirstInvStep ==
    ASSUME RunInv, OnceInv, FirstInv, FunctionsInOrder, [Next]_vars
    PROVE  FirstInv'
<1> SUFFICES ASSUME script'.kind = "pair", step' = 1, InSequence', ~PinsReadTwice',
                    NEW n \in DOMAIN mirror', n \in Needed(StepsOf(2))'
             PROVE  Sound(mirror'[n]) /\ Sound(dev'[n])
  BY DEF FirstInv, Sound
<1>1. CASE Starts
  <2>1. BeginScript
    BY <1>1, AgainEnters, OnwardEnters DEF Starts
  <2>. QED BY <2>1, StartsSound
<1>2. CASE Calling \/ Mailbox
  <2>1. /\ Shape /\ Position /\ Allotted /\ MailOK /\ UNCHANGED <<script, step>>
        /\ \A c : StepsOf(c)' = StepsOf(c)
        /\ n \in DOMAIN mirror /\ n \in DOMAIN dev /\ marks \subseteq marks'
    BY <1>2, InCall DEF Allotted
  <2>2. n \in Needed(StepsOf(2)) /\ ~PinsReadTwice /\ InSequence /\ Steps = StepsOf(1)
    BY <2>1 DEF PinsReadTwice, InSequence, Steps
  <2>3. LeavesKnown(Steps, n)
    BY <2>1, <2>2, SecondNeeds
  <2>4. Sound(mirror[n]) /\ Sound(dev[n])
    BY <2>1, <2>2 DEF FirstInv
  <2>5. mirror'[n] = mirror[n]
    BY <1>2, <2>1, <2>3, FirstRequests, LeftAlone DEF LeavesKnown
  <2>6. dev'[n] \in {dev[n], mirror[n]}
    <3>1. CASE Calling
      <4>1. PICK m \in DOMAIN Steps : Now = Steps[m]
        BY <2>1, <3>1, CallingEnabled, NowOfSteps
      <4>2. n \notin Now.zeroes \cup Now.garbles \cup Now.unsure
        BY <2>3, <4>1 DEF LeavesKnown, Misencoded
      <4>3. dev'[n] = dev[n] \/ \E carries \in Contents : n \in DOMAIN carries /\ dev'[n] = carries[n]
        BY <2>1, <3>1, DeviceMoves
      <4>. QED BY <4>2, <4>3, ContentsOf
    <3>2. CASE Mailbox
      BY <2>1, <3>2, OnceMailbox, DispatchShifts
    <3>. QED BY <1>2, <3>1, <3>2
  <2>. QED BY <2>4, <2>5, <2>6
<1>3. CASE Rests
  BY <1>3, RestsAll DEF FirstInv, InSequence, PinsReadTwice
<1>. QED BY <1>1, <1>2, <1>3, NextCases

\* The answer that tells what n is comes before those whose parsers need it.
Settles(p, n, j) ==
    /\ p \in DOMAIN answers /\ ReadBy(p) = Steps[j]
    /\ \A q \in DOMAIN answers : n \in ReadBy(q).needs => q > p
Foretold(n, j) ==
    /\ \A q \in DOMAIN answers :
          Touches(ReadBy(q), n) => ReadBy(q) = Steps[j] /\ Sound(answers[q].values[n])
    /\ j > At => Sound(dev[n]) /\ \A q \in DOMAIN answers : n \notin ReadBy(q).needs
    /\ j <= At => Known(n) \/ \E p \in DOMAIN answers : Settles(p, n, j)
KnownInv ==
    script.kind # "none" /\ InSequence /\ ~PinsReadTwice /\ "dropped" \notin marks =>
        \A n \in DOMAIN mirror : \A j \in DOMAIN Steps :
            n \in Needed(Steps) /\ KnownBy(Steps, n, j) => Doomed \/ Foretold(n, j)

LEMMA NeedingCall ==
    ASSUME Shape, Needed(Steps) # {}
    PROVE  Call = "PinConfigurationGet" /\ NeverFails(Steps)
           /\ \A n \in Needed(Steps) : \E j \in DOMAIN Steps : KnownBy(Steps, n, j)
<1>1. FunctionInOrder(Call, script.kind, Steps)
  BY CallsInOrder
<1>. QED BY <1>1 DEF FunctionInOrder

\* The answers of another call neither change nor need what the parsers of this one need.
LEMMA OtherAnswers ==
    ASSUME Shape, MailOK, ~PinsReadTwice, NEW n \in Needed(Steps), NEW j, KnownBy(Steps, n, j),
           NEW q \in DOMAIN answers
    PROVE  \/ \E m \in DOMAIN Steps : ReadBy(q) = Steps[m]
           \/ ~Touches(ReadBy(q), n) /\ n \notin ReadBy(q).needs /\ n \notin ReadBy(q).drops
<1>1. PICK c \in DOMAIN script.calls : c <= step /\ ReadBy(q) \in Range(StepsOf(c))
  BY DEF MailOK, RequestOK, ReadBy
<1>2. CASE c = step
  BY <1>1, <1>2 DEF Range, Steps
<1>3. CASE c # step
  <2>1. c = 1 /\ step = 2 /\ script.kind # "retry"
    BY <1>1, <1>3, CallsInOrder DEF Shape
  <2>2. LeavesKnown(StepsOf(1), n)
    BY <2>1, SecondNeeds DEF Steps
  <2>. QED BY <1>1, <2>1, <2>2 DEF Range, LeavesKnown, Leaves, Needed
<1>. QED BY <1>2, <1>3

SettlesNext(p, n, j) ==
    /\ p \in DOMAIN answers' /\ ReadNext(p) = Steps[j]
    /\ \A q \in DOMAIN answers' : n \in ReadNext(q).needs => q > p
ForetoldNext(n, j) ==
    /\ \A q \in DOMAIN answers' :
          Touches(ReadNext(q), n) => ReadNext(q) = Steps[j] /\ Sound(answers'[q].values[n])
    /\ j > At' => Sound(dev'[n]) /\ \A q \in DOMAIN answers' : n \notin ReadNext(q).needs
    /\ j <= At' => Sound(mirror'[n]) \/ \E p \in DOMAIN answers' : SettlesNext(p, n, j)

LEMMA ForetoldCalling ==
    ASSUME RunInv, NoFailInv, Calling, "dropped" \notin marks', NEW n \in DOMAIN mirror,
           n \in Needed(Steps), NEW j \in DOMAIN Steps, KnownBy(Steps, n, j), Foretold(n, j)
    PROVE  (\E k \in DOMAIN requests' : Undone(k)') \/ ForetoldNext(n, j)
<1>1. Shape /\ Position /\ Allotted /\ MailOK /\ Steps' = Steps /\ script.kind # "none" /\ n \in DOMAIN dev
  BY InCall DEF Allotted
<1>2. Now = Steps[At + 1] /\ At + 1 \in DOMAIN Steps /\ At \in Nat /\ j \in Nat
  BY <1>1, CallingEnabled, NextStep, StepsInOrder
<1>3. NeverFails(Steps) /\ Exchanges(Now) /\ Now.kind # "compare" /\ ~Now.silent /\ RunInv'
  BY <1>1, <1>2, NeedingCall, InCall DEF NeverFails, Exchanges
<1>4. At' = At + 1 /\ Underway'
  <2>1. ~Returns
    <3>1. \E rest, new : Continue(rest, new)
      BY <1>2, <1>3 DEF Calling, Run, Send, PassOver, AssignFields, Select, ReturnEarly, CompareWithCopy,
         Submit, SubmitUnsent, NoFreeSlot, SendSilently, FailOrSkip, Runs, Exchanges, NeverFails
    <3>. QED BY <3>1 DEF Continue, Returns, Results
  <2>2. Goes
    BY <1>1, <1>3, <2>1, CallingMoves DEF Jumps
  <2>. QED BY <1>1, <2>2, CallingPosition
<1>5. /\ Stores(Steps[j], n) /\ Steps[j].unless = {} /\ Steps[j].needs = {}
      /\ Untouched(Now, n) /\ ~Now.current
      /\ (At + 1 # j => ~Touches(Now, n)) /\ (At + 1 <= j => ~Carries(Now, n))
      /\ (n \in Now.needs => At + 1 > j)
  BY <1>2 DEF KnownBy
<1>6. mirror'[n] = mirror[n]
  BY <1>1, <1>5, FieldMoves
<1>7. At + 1 <= j => dev'[n] = dev[n]
  BY <1>1, <1>5, DeviceMoves
<1>8. CASE Run
  <2>1. UNCHANGED <<requests, answers, dev>> /\ Passed(Now)
    BY <1>3, <1>8, RunQuiet
  <2>2. At + 1 # j
    BY <1>2, <1>5, <2>1 DEF Passed
  <2>3. \A q \in DOMAIN answers' : ReadNext(q) = ReadBy(q)
    BY <2>1 DEF ReadNext, ReadBy
  <2>4. (j > At' => j > At) /\ (j <= At' => j <= At)
    BY <1>2, <1>4, <2>2
  <2>. QED BY <1>6, <2>1, <2>3, <2>4 DEF Foretold, ForetoldNext, Settles, SettlesNext, Known, Sound
<1>9. CASE Send
  <2>1. (\E k \in DOMAIN requests' : Undone(k)') \/ \E l \in DOMAIN answers' : Joined(l)
    BY <1>1, <1>3, <1>4, <1>9, SendJoins
  <2>2. ASSUME NEW l \in DOMAIN answers', Joined(l) PROVE ForetoldNext(n, j)
    <3>1. /\ DOMAIN answers' = DOMAIN answers \cup {l}
          /\ \A q \in DOMAIN answers : q < l /\ answers'[q] = answers[q] /\ ReadNext(q) = ReadBy(q)
          /\ ReadNext(l) = Now /\ answers'[l].values = [i \in Now.in |-> dev'[i]]
      BY <2>2 DEF Joined
    <3>2. Touches(Now, n) => At + 1 = j /\ n \in Now.in /\ Sound(answers'[l].values[n])
      <4>1. Touches(Now, n) => At + 1 = j /\ n \in Now.in
        BY <1>2, <1>5 DEF Touches, Stores
      <4>2. At + 1 = j => Sound(dev[n]) /\ dev'[n] = dev[n]
        BY <1>2, <1>7 DEF Foretold
      <4>. QED BY <3>1, <4>1, <4>2
    <3>3. \A q \in DOMAIN answers' :
             Touches(ReadNext(q), n) => ReadNext(q) = Steps[j] /\ Sound(answers'[q].values[n])
      BY <1>2, <3>1, <3>2 DEF Foretold
    <3>4. j > At' => Sound(dev'[n]) /\ \A q \in DOMAIN answers' : n \notin ReadNext(q).needs
      <4>1. j > At' => j > At /\ At + 1 <= j
        BY <1>2, <1>4
      <4>2. j > At' => n \notin Now.needs
        BY <1>2, <1>4, <1>5
      <4>. QED BY <1>7, <3>1, <4>1, <4>2 DEF Foretold
    <3>5. ASSUME j <= At', ~Sound(mirror'[n]) PROVE \E p \in DOMAIN answers' : SettlesNext(p, n, j)
      <4>1. CASE j <= At
        <5>1. PICK p \in DOMAIN answers : Settles(p, n, j)
          BY <1>6, <3>5, <4>1 DEF Foretold, Known, Sound
        <5>2. SettlesNext(p, n, j)
          BY <3>1, <5>1 DEF Settles, SettlesNext
        <5>. QED BY <3>1, <5>2
      <4>2. CASE j = At + 1
        <5>1. \A q \in DOMAIN answers : n \notin ReadBy(q).needs
          BY <1>2, <4>2 DEF Foretold
        <5>2. n \notin Now.needs
          BY <1>2, <1>5, <4>2
        <5>3. SettlesNext(l, n, j)
          BY <1>2, <3>1, <4>2, <5>1, <5>2 DEF SettlesNext
        <5>. QED BY <5>3
      <4>. QED BY <1>2, <1>4, <3>5, <4>1, <4>2
    <3>. QED BY <3>3, <3>4, <3>5 DEF ForetoldNext
  <2>. QED BY <2>1, <2>2
<1>. QED BY <1>8, <1>9 DEF Calling

LEMMA ForetoldMailbox ==
    ASSUME RunInv, OnceInv, InSequence', ~PinsReadTwice, Mailbox, NEW n \in DOMAIN mirror,
           n \in Needed(Steps), NEW j \in DOMAIN Steps, KnownBy(Steps, n, j), Foretold(n, j)
    PROVE  ForetoldNext(n, j)
<1>1. Shape /\ Position /\ MailOK /\ Steps' = Steps /\ UNCHANGED <<todo, result>>
  BY InCall, MailboxMail
<1>2. At' = At
  BY <1>1 DEF At
<1>3. CASE Dispatch \/ DispatchRefusal
  <2>1. Shifted /\ UNCHANGED dev /\ 1 \in DOMAIN answers
    BY <1>1, <1>3, DispatchShifts DEF Shifted
  <2>2. /\ \A q \in DOMAIN answers' : q \in Nat /\ q + 1 \in DOMAIN answers
                                      /\ answers'[q] = answers[q + 1] /\ ReadNext(q) = ReadBy(q + 1)
        /\ \A q \in DOMAIN answers : q \in Nat /\ (q = 1 \/ q - 1 \in DOMAIN answers')
    BY <2>1 DEF Shifted
  <2>3. /\ Stores(Steps[j], n) /\ n \notin Steps[j].misreads /\ Steps[j].needs = {}
        /\ ~Steps[j].refusable /\ ~Steps[j].current /\ n \notin Steps[j].drops
    BY DEF KnownBy
  <2>4. n \notin ReadBy(1).drops
    BY <1>1, <2>1, OtherAnswers DEF KnownBy
  <2>5. \/ mirror'[n] = mirror[n] /\ ReadBy(1) # Steps[j]
        \/ Sound(mirror'[n])
    <3>1. CASE Dispatch
      <4>1. CASE ~Touches(ReadBy(1), n)
        <5>1. ReadBy(1) # Steps[j]
          BY <2>3, <4>1 DEF Stores, Touches
        <5>. QED BY <1>1, <3>1, <4>1, <5>1, DispatchField
      <4>2. CASE Touches(ReadBy(1), n)
        <5>1. ReadBy(1) = Steps[j] /\ Sound(answers[1].values[n])
          BY <2>1, <4>2 DEF Foretold
        <5>2. InPlace(ReadBy(1))
          BY <2>3, <5>1 DEF InPlace, PlaceOf
        <5>3. mirror'[n] = answers[1].values[n]
          BY <1>1, <2>3, <3>1, <5>1, <5>2, DispatchField DEF Stores
        <5>. QED BY <5>1, <5>3
      <4>. QED BY <4>1, <4>2
    <3>2. CASE DispatchRefusal
      <4>1. ReadBy(1).refusable /\ mirror'[n] = mirror[n]
        BY <1>1, <2>4, <3>2, MailboxField DEF Mailbox, Receive
      <4>. QED BY <2>3, <4>1
    <3>. QED BY <1>3, <3>1, <3>2
  <2>6. \A q \in DOMAIN answers' :
           Touches(ReadNext(q), n) => ReadNext(q) = Steps[j] /\ Sound(answers'[q].values[n])
    BY <2>2 DEF Foretold
  <2>7. j > At' => Sound(dev'[n]) /\ \A q \in DOMAIN answers' : n \notin ReadNext(q).needs
    BY <1>2, <2>1, <2>2 DEF Foretold
  <2>8. ASSUME j <= At', ~Sound(mirror'[n]) PROVE \E p \in DOMAIN answers' : SettlesNext(p, n, j)
    <3>1. PICK p \in DOMAIN answers : Settles(p, n, j)
      BY <1>2, <2>5, <2>8 DEF Foretold, Known, Sound
    <3>2. p # 1 /\ p - 1 \in DOMAIN answers' /\ p \in Nat
      BY <2>2, <2>5, <2>8, <3>1 DEF Settles
    <3>3. p - 1 + 1 = p
      BY <3>2
    <3>4. ReadNext(p - 1) = Steps[j]
      BY <2>2, <3>1, <3>2, <3>3 DEF Settles
    <3>5. \A q \in DOMAIN answers' : n \in ReadNext(q).needs => q > p - 1
      BY <2>2, <3>1, <3>2 DEF Settles
    <3>. QED BY <3>2, <3>4, <3>5 DEF SettlesNext
  <2>. QED BY <2>6, <2>7, <2>8 DEF ForetoldNext
<1>4. CASE ~Dispatch /\ ~DispatchRefusal
  <2>1. UNCHANGED <<requests, answers, mirror, dev>>
    BY <1>4, OnceMailbox
  <2>2. \A q \in DOMAIN answers' : ReadNext(q) = ReadBy(q)
    BY <2>1 DEF ReadNext, ReadBy
  <2>. QED BY <1>2, <2>1, <2>2 DEF Foretold, ForetoldNext, Settles, SettlesNext, Known, Sound
<1>. QED BY <1>3, <1>4

LEMMA KnownInvStep ==
    ASSUME RunInv, OnceInv, NoFailInv, FirstInv, KnownInv, FunctionsInOrder, [Next]_vars
    PROVE  KnownInv'
<1> SUFFICES ASSUME script'.kind # "none", InSequence', ~PinsReadTwice', "dropped" \notin marks',
                    NEW n \in DOMAIN mirror', NEW j \in DOMAIN Steps',
                    n \in Needed(Steps'), KnownBy(Steps', n, j)
             PROVE  \/ \E k \in DOMAIN requests' : Undone(k)'
                    \/ /\ \A q \in DOMAIN answers' :
                             Touches(ReadNext(q), n) =>
                                ReadNext(q) = Steps'[j] /\ Sound(answers'[q].values[n])
                       /\ j > At' => /\ Sound(dev'[n])
                                     /\ \A q \in DOMAIN answers' : n \notin ReadNext(q).needs
                       /\ j <= At' => \/ Sound(mirror'[n])
                                      \/ \E p \in DOMAIN answers' :
                                            /\ ReadNext(p) = Steps'[j]
                                            /\ \A q \in DOMAIN answers' : n \in ReadNext(q).needs => q > p
  BY DEF KnownInv, Foretold, Doomed, Settles, Known, Sound, ReadBy, ReadNext
<1>1. CASE Starts
  <2>1. ~(j <= At') /\ UNCHANGED <<requests, answers, marks>> /\ Shape'
    BY <1>1, StartsFresh
  <2>2. CASE BeginScript
    <3>1. answers' = <<>>
      BY <2>2, BeginEnters
    <3>. QED BY <2>1, <2>2, <3>1, StartsSound, StartsFresh DEF Allotted
  <2>3. CASE CallNext
    <3>1. /\ Shape /\ script.kind # "retry" /\ step = 1 /\ script' = script /\ dev' = dev
          /\ Steps' = StepsOf(2) /\ \A c : StepsOf(c)' = StepsOf(c)
          /\ DOMAIN mirror' = DOMAIN mirror /\ MailOK
      BY <2>3, OnwardEnters DEF Steps, StepsOf, RunInv
    <3>2. ~PinsReadTwice /\ InSequence
      BY <2>1, <3>1 DEF PinsReadTwice, InSequence
    <3>3. script.kind = "pair" /\ LeavesKnown(Steps, n)
      BY <3>1, <3>2, SecondNeeds DEF Steps
    <3>4. Sound(dev[n])
      BY <3>1, <3>2, <3>3 DEF FirstInv
    <3>5. ASSUME NEW q \in DOMAIN answers' PROVE ~Touches(ReadNext(q), n) /\ n \notin ReadNext(q).needs
      <4>1. ReadNext(q) \in Range(Steps)
        BY <2>1, <3>1, FirstRequests DEF ReadNext, MailOK
      <4>. QED BY <3>3, <4>1 DEF Range, LeavesKnown, Leaves, Needed
    <3>. QED BY <2>1, <3>1, <3>4, <3>5
  <2>4. CASE CallAgain
    <3>1. Steps' = Steps /\ result \in {"PK_ERR_TRANSFER", "PK_ERR_GENERIC"} /\ script.kind # "none" /\ Shape
      BY <2>4, AgainEnters DEF RunInv
    <3>2. NeverFails(Steps)
      BY <3>1, NeedingCall
    <3>. QED BY <3>1, <3>2 DEF NoFailInv, Underway
  <2>. QED BY <1>1, <2>2, <2>3, <2>4 DEF Starts
<1>2. CASE Calling \/ Mailbox
  <2>1. /\ Steps' = Steps /\ script' = script /\ DOMAIN mirror' = DOMAIN mirror /\ script.kind # "none"
        /\ marks \subseteq marks'
    BY <1>2, InCall
  <2>2. InSequence /\ ~PinsReadTwice /\ "dropped" \notin marks
    BY <2>1 DEF InSequence, PinsReadTwice
  <2>3. Doomed \/ Foretold(n, j)
    BY <2>1, <2>2 DEF KnownInv
  <2>4. CASE Doomed
    BY <1>2, <2>4, DoomedStays
  <2>5. CASE Foretold(n, j)
    <3>1. (\E k \in DOMAIN requests' : Undone(k)') \/ ForetoldNext(n, j)
      BY <1>2, <2>1, <2>2, <2>5, ForetoldCalling, ForetoldMailbox
    <3>. QED BY <2>1, <3>1 DEF ForetoldNext, SettlesNext
  <2>. QED BY <2>3, <2>4, <2>5
<1>3. CASE Rests
  BY <1>3, RestsAll DEF KnownInv, InSequence, PinsReadTwice, Foretold, Settles, Known, Sound, ReadBy,
     ReadNext, Doomed, Undone, AnswerQueued
<1>. QED BY <1>1, <1>2, <1>3, NextCases

(***************************************************************************)
(* In sequence: the last answer that stores an item is the device's value. *)
(***************************************************************************)
\* Nothing but the order of the answers stands in the way of reading the item.
Clear(i) ==
    /\ i \notin Spoiled(Steps)
    /\ "dropped" \notin marks \/ Call \notin IgnoresFailures
    /\ \/ "refused" \notin marks
       \/ /\ script.kind # "pair"
          /\ \A m \in DOMAIN Steps :
                Steps[m].refusable => ~Touches(Steps[m], i) /\ i \notin Steps[m].drops
Clean(i) == Clear(i) /\ NoCompare

\* A request of the call that runs; one of the call before whose answer is stored as it is.
Own(w)      == NoCompare /\ \E m \in DOMAIN Steps : m <= At /\ w = Steps[m]
OwnNext(w)  == NoCompare /\ \E m \in DOMAIN Steps : m <= At' /\ w = Steps[m]
Plain(w, i) == ~w.current /\ w.needs = {} /\ i \notin w.misreads

Fresh(n, i) ==
    /\ i \in ReadBy(n).in /\ answers[n].values[i] = dev[i]
    /\ Own(ReadBy(n)) \/ Plain(ReadBy(n), i)
Landed(i) ==
    \/ mirror[i] = dev[i] /\ \A n \in DOMAIN answers : ~Touches(ReadBy(n), i)
    \/ \E n \in DOMAIN answers :
          Fresh(n, i) /\ \A l \in DOMAIN answers : l > n => ~Touches(ReadBy(l), i)
FreshNext(n, i) ==
    /\ i \in ReadNext(n).in /\ answers'[n].values[i] = dev'[i]
    /\ OwnNext(ReadNext(n)) \/ Plain(ReadNext(n), i)
LandedNext(i) ==
    \/ mirror'[i] = dev'[i] /\ \A n \in DOMAIN answers' : ~Touches(ReadNext(n), i)
    \/ \E n \in DOMAIN answers' :
          FreshNext(n, i) /\ \A l \in DOMAIN answers' : l > n => ~Touches(ReadNext(l), i)

QueueInv ==
    script.kind # "none" /\ Underway /\ InSequence /\ ~PinsReadTwice =>
        \A i \in DOMAIN mirror : \A k \in DOMAIN Steps :
            Clean(i) /\ LandsAt(Steps, i, k) /\ k <= At => Doomed \/ Landed(i)

LEMMA ClearBefore ==
    ASSUME RunInv, Calling \/ Mailbox, NEW i, Clear(i)'
    PROVE  Clear(i) /\ ("dropped" \notin marks' \/ Call \notin IgnoresFailures)
<1>1. Steps' = Steps /\ UNCHANGED <<script, step, uses>> /\ marks \subseteq marks'
  BY InCall
<1>2. Call' = Call
  BY <1>1 DEF Call
<1>. QED BY <1>1, <1>2 DEF Clear

LEMMA CleanBefore ==
    ASSUME RunInv, Calling \/ Mailbox, NEW i, Clean(i)'
    PROVE  Clean(i) /\ ("dropped" \notin marks' \/ Call \notin IgnoresFailures)
<1>1. NoCompare' <=> NoCompare
  BY InCall DEF NoCompare
<1>. QED BY <1>1, ClearBefore DEF Clean

LEMMA OwnKept ==
    ASSUME Shape, At' = At \/ (At' = At + 1 /\ At \in Nat), NEW w, Own(w)
    PROVE  OwnNext(w)
<1>1. PICK m \in DOMAIN Steps : m <= At /\ w = Steps[m]
  BY DEF Own
<1>2. m <= At'
  BY <1>1, StepsInOrder
<1>. QED BY <1>1, <1>2 DEF Own, OwnNext

LEMMA LandedCalling ==
    ASSUME RunInv, Calling, Underway', NEW i \in DOMAIN mirror, NEW k \in DOMAIN Steps, Clean(i)',
           LandsAt(Steps, i, k), k <= At', k <= At => Landed(i)
    PROVE  (\E q \in DOMAIN requests' : Undone(q)') \/ LandedNext(i)
<1>1. Shape /\ Position /\ Allotted /\ MailOK /\ i \in DOMAIN dev
  BY InCall DEF Allotted
<1>2. Now = Steps[At + 1] /\ At + 1 \in DOMAIN Steps /\ At \in Nat /\ k \in Nat
  BY <1>1, CallingEnabled, NextStep, StepsInOrder
<1>3. Clean(i) /\ ("dropped" \notin marks' \/ Call \notin IgnoresFailures)
  BY CleanBefore
<1>4. At' = At + 1
  BY <1>1, <1>2, <1>3, CallingPosition DEF Jumps, Clean, NoCompare
<1>5. /\ Stores(Steps[k], i) /\ Steps[k].unless = {} /\ ~Steps[k].silent
      /\ Untouched(Now, i) /\ (Touches(Now, i) => i \in Now.in) /\ (At + 1 > k => ~Carries(Now, i))
  BY <1>2, <1>4 DEF LandsAt, From, After
<1>6. mirror'[i] = mirror[i]
  BY <1>1, <1>5, FieldMoves
<1>7. k <= At => dev'[i] = dev[i]
  BY <1>1, <1>2, <1>5, DeviceMoves
<1>8. k = At + 1 => Send /\ ~Now.silent /\ i \in Now.in
  <2>1. k = At + 1 => Exchanges(Now) /\ ~Passed(Now) /\ ~Now.silent /\ i \in Now.in
    BY <1>2, <1>5 DEF Passed, Stores
  <2>. QED BY <2>1, RunQuiet DEF Calling
<1>9. CASE UNCHANGED <<requests, answers>> /\ k <= At
  <2>1. \A n \in DOMAIN answers' : ReadNext(n) = ReadBy(n)
    BY <1>9 DEF ReadNext, ReadBy
  <2>2. \A n \in DOMAIN answers : Fresh(n, i) => FreshNext(n, i)
    BY <1>1, <1>2, <1>4, <1>7, <1>9, <2>1, OwnKept DEF Fresh, FreshNext
  <2>. QED BY <1>6, <1>7, <1>9, <2>1, <2>2 DEF Landed, LandedNext
<1>10. CASE Send /\ ~Now.silent /\ ~(UNCHANGED <<requests, answers>> /\ k <= At)
  <2>1. (\E q \in DOMAIN requests' : Undone(q)') \/ \E l \in DOMAIN answers' : Joined(l)
    BY <1>1, <1>3, <1>10, SendJoins
  <2>2. ASSUME NEW l \in DOMAIN answers', Joined(l) PROVE LandedNext(i)
    <3>1. /\ DOMAIN answers' = DOMAIN answers \cup {l}
          /\ \A q \in DOMAIN answers : q < l /\ answers'[q] = answers[q] /\ ReadNext(q) = ReadBy(q)
          /\ ReadNext(l) = Now /\ answers'[l].values = [x \in Now.in |-> dev'[x]]
      BY <2>2 DEF Joined
    <3>2. \A q \in DOMAIN answers' : ~(q > l)
      <4>1. \A q \in DOMAIN answers' : q \in Nat
        <5>1. MailMoves
          BY <1>1, CallingMail
        <5>. QED BY <5>1 DEF MailMoves
      <4>. QED BY <3>1, <4>1
    <3>3. CASE i \in Now.in
      <4>1. FreshNext(l, i)
        BY <1>2, <1>3, <1>4, <3>1, <3>3 DEF FreshNext, OwnNext, Clean
      <4>. QED BY <3>2, <4>1 DEF LandedNext
    <3>4. CASE i \notin Now.in
      <4>1. ~Touches(Now, i) /\ k <= At
        BY <1>2, <1>4, <1>5, <1>8, <3>4
      <4>2. ASSUME NEW n \in DOMAIN answers, Fresh(n, i) PROVE FreshNext(n, i)
        BY <1>1, <1>2, <1>4, <1>7, <3>1, <4>1, <4>2, OwnKept DEF Fresh, FreshNext
      <4>. QED BY <1>6, <1>7, <3>1, <4>1, <4>2 DEF Landed, LandedNext
    <3>. QED BY <3>3, <3>4
  <2>. QED BY <2>1, <2>2
<1>11. CASE Run \/ (Send /\ Now.silent)
  <2>1. UNCHANGED <<requests, answers>>
    <3>1. CASE Run
      BY <3>1, RunQuiet
    <3>2. CASE Send /\ Now.silent
      BY <1>1, <3>2, SendMoves DEF RequestMade, NothingMade, WentPast
    <3>. QED BY <1>11, <3>1, <3>2
  <2>2. k # At + 1
    <3>1. Run => ~Exchanges(Now) \/ Passed(Now)
      BY RunQuiet
    <3>2. k = At + 1 => Exchanges(Now) /\ ~Passed(Now) /\ ~Now.silent
      BY <1>2, <1>5 DEF Passed, Stores
    <3>. QED BY <1>11, <3>1, <3>2
  <2>. QED BY <1>2, <1>4, <1>9, <2>1, <2>2
<1>. QED BY <1>9, <1>10, <1>11 DEF Calling

\* What the parser of the first answer needs is known.
LEMMA NeededKnown ==
    ASSUME RunInv, KnownInv, script.kind # "none", InSequence, ~PinsReadTwice, ~Doomed, NEW i, Clear(i),
           1 \in DOMAIN answers, NEW m \in DOMAIN Steps, m <= At, ReadBy(1) = Steps[m],
           NEW x \in Steps[m].needs, x \in DOMAIN mirror
    PROVE  Known(x)
<1>1. Shape /\ Position /\ MailOK
  BY DEF RunInv
<1>2. x \in Needed(Steps)
  BY DEF Needed
<1>3. Call = "PinConfigurationGet" /\ \E j \in DOMAIN Steps : KnownBy(Steps, x, j)
  BY <1>1, <1>2, NeedingCall
<1>4. PICK j \in DOMAIN Steps : KnownBy(Steps, x, j)
  BY <1>3
<1>5. "dropped" \notin marks
  BY <1>3 DEF Clear, IgnoresFailures
<1>6. j <= At
  <2>1. j \in Nat /\ m \in Nat /\ At \in Int /\ m > j
    BY <1>1, <1>4, StepsInOrder DEF At, Position, KnownBy
  <2>. QED BY <2>1
<1>7. Foretold(x, j)
  BY <1>2, <1>4, <1>5 DEF KnownInv
<1>8. \A p \in DOMAIN answers : p >= 1 /\ p \in Nat
  BY <1>1 DEF MailOK
<1>. QED BY <1>6, <1>7, <1>8 DEF Foretold, Settles

LEMMA LandedMailbox ==
    ASSUME RunInv, LiveInv, AxisInv, OnceInv, KnownInv, Underway, InSequence', ~PinsReadTwice, ~Doomed,
           Mailbox, NEW i \in DOMAIN mirror, Clear(i)', Landed(i)
    PROVE  LandedNext(i)
<1>1. /\ Shape /\ Position /\ MailOK /\ Steps' = Steps /\ UNCHANGED <<todo, result>>
      /\ script.kind # "none" /\ marks \subseteq marks' /\ script' = script
  BY InCall, MailboxMail
<1>2. At' = At /\ Clear(i) /\ InSequence
  BY <1>1, ClearBefore DEF At, InSequence
<1>3. CASE Dispatch \/ DispatchRefusal
  <2>1. Shifted /\ UNCHANGED dev /\ 1 \in DOMAIN answers /\ answers # <<>>
    BY <1>1, <1>3, DispatchShifts DEF Shifted
  <2>2. /\ \A q \in DOMAIN answers' : q \in Nat /\ q + 1 \in DOMAIN answers
                                      /\ answers'[q] = answers[q + 1] /\ ReadNext(q) = ReadBy(q + 1)
        /\ \A q \in DOMAIN answers : q \in Nat /\ (q = 1 \/ q - 1 \in DOMAIN answers')
    BY <2>1 DEF Shifted
  <2>3. Exchanges(ReadBy(1))
    BY <1>1, <2>1, FirstAnswer
  <2>4. ASSUME DispatchRefusal PROVE ~Touches(ReadBy(1), i) /\ i \notin ReadBy(1).drops
    <3>1. "refused" \in marks' /\ ReadBy(1).refusable
      BY <1>1, <2>4, MailboxField DEF Mailbox, Receive
    <3>2. /\ script.kind # "pair"
          /\ \A m \in DOMAIN Steps :
                Steps[m].refusable => ~Touches(Steps[m], i) /\ i \notin Steps[m].drops
      BY <1>1, <3>1 DEF Clear
    <3>3. ReadBy(1) \in Range(Steps)
      BY <1>1, <2>1, <3>2, FirstAnswer DEF LiveInv
    <3>. QED BY <3>1, <3>2, <3>3 DEF Range
  <2>5. ~Touches(ReadBy(1), i) => mirror'[i] = mirror[i]
    BY <1>1, <1>3, <2>4, DispatchField, MailboxField DEF Mailbox, Receive
  <2>6. CASE mirror[i] = dev[i] /\ \A n \in DOMAIN answers : ~Touches(ReadBy(n), i)
    BY <2>1, <2>2, <2>5, <2>6 DEF LandedNext
  <2>7. CASE \E n \in DOMAIN answers :
                Fresh(n, i) /\ \A l \in DOMAIN answers : l > n => ~Touches(ReadBy(l), i)
    <3>1. PICK n \in DOMAIN answers :
             Fresh(n, i) /\ \A l \in DOMAIN answers : l > n => ~Touches(ReadBy(l), i)
      BY <2>7
    <3>2. CASE n = 1
      <4>1. Own(ReadBy(1)) \/ Plain(ReadBy(1), i)
        BY <3>1, <3>2 DEF Fresh
      <4>2. Touches(ReadBy(1), i) /\ Dispatch
        <5>1. Touches(ReadBy(1), i)
          BY <2>3, <3>1, <3>2 DEF Fresh, Touches
        <5>. QED BY <1>3, <2>4, <5>1
      <4>3. /\ InPlace(ReadBy(1)) /\ i \notin ReadBy(1).misreads
            /\ ~ \E x \in ReadBy(1).needs : x \in DOMAIN mirror /\ ~Known(x)
        <5>1. CASE Own(ReadBy(1))
          <6>1. PICK m \in DOMAIN Steps : m <= At /\ ReadBy(1) = Steps[m]
            BY <5>1 DEF Own
          <6>2. InPlace(ReadBy(1))
            BY <1>1, <5>1, <6>1, StoredInPlace DEF Own
          <6>3. i \notin ReadBy(1).misreads
            BY <1>2, <6>1 DEF Clear, Spoiled, Misread
          <6>. QED BY <1>1, <1>2, <2>1, <6>1, <6>2, <6>3, NeededKnown
        <5>2. CASE Plain(ReadBy(1), i)
          BY <5>2 DEF Plain, InPlace, PlaceOf
        <5>. QED BY <4>1, <5>1, <5>2
      <4>6. mirror'[i] = dev'[i]
        BY <1>1, <2>1, <3>1, <3>2, <4>2, <4>3, DispatchField DEF Fresh
      <4>7. \A q \in DOMAIN answers' : ~Touches(ReadNext(q), i)
        <5> SUFFICES ASSUME NEW q \in DOMAIN answers' PROVE ~Touches(ReadNext(q), i)
          OBVIOUS
        <5>1. q + 1 \in DOMAIN answers /\ ReadNext(q) = ReadBy(q + 1) /\ q \in Nat
          BY <2>2
        <5>2. q \in 1..Len(answers')
          <6>1. MailMoves
            BY InCall
          <6>. QED BY <6>1 DEF MailMoves
        <5>3. q + 1 > 1
          BY <5>2
        <5>. QED BY <3>1, <3>2, <5>1, <5>3
      <4>. QED BY <4>6, <4>7 DEF LandedNext
    <3>3. CASE n # 1
      <4>1. n - 1 \in DOMAIN answers' /\ n \in Nat /\ n - 1 + 1 = n
        BY <2>2, <3>3
      <4>2. ReadNext(n - 1) = ReadBy(n) /\ answers'[n - 1] = answers[n]
        BY <2>2, <4>1
      <4>3. FreshNext(n - 1, i)
        BY <1>1, <1>2, <2>1, <3>1, <4>2, OwnKept DEF Fresh, FreshNext
      <4>4. ASSUME NEW l \in DOMAIN answers', l > n - 1 PROVE ~Touches(ReadNext(l), i)
        <5>1. l + 1 > n /\ l + 1 \in DOMAIN answers /\ ReadNext(l) = ReadBy(l + 1)
          BY <2>2, <4>1, <4>4
        <5>. QED BY <3>1, <5>1
      <4>. QED BY <4>1, <4>3, <4>4 DEF LandedNext
    <3>. QED BY <3>2, <3>3
  <2>. QED BY <2>6, <2>7 DEF Landed
<1>4. CASE ~Dispatch /\ ~DispatchRefusal
  <2>1. UNCHANGED <<requests, answers, mirror, dev>>
    BY <1>4, OnceMailbox
  <2>2. \A q \in DOMAIN answers' : ReadNext(q) = ReadBy(q)
    BY <2>1 DEF ReadNext, ReadBy
  <2>. QED BY <1>1, <1>2, <2>1, <2>2, OwnKept DEF Landed, LandedNext, Fresh, FreshNext
<1>. QED BY <1>3, <1>4

LEMMA QueueInvStep ==
    ASSUME RunInv, LiveInv, AxisInv, OnceInv, KnownInv, QueueInv, FunctionsInOrder, [Next]_vars
    PROVE  QueueInv'
<1> SUFFICES ASSUME script'.kind # "none", Underway', InSequence', ~PinsReadTwice',
                    NEW i \in DOMAIN mirror', NEW k \in DOMAIN Steps',
                    Clean(i)', LandsAt(Steps', i, k), k <= At'
             PROVE  (\E q \in DOMAIN requests' : Undone(q)') \/ LandedNext(i) \/ Rests
  <2>1. CASE Rests
    BY <2>1, RestsAll DEF QueueInv, InSequence, PinsReadTwice, Clean, Clear, Own, NoCompare, Call, Landed, Fresh,
       ReadBy, Doomed, Undone, AnswerQueued
  <2>2. CASE ~Rests /\ Steps' = Steps
    BY <2>2 DEF QueueInv, Landed, Fresh, LandedNext, FreshNext, Own, OwnNext, NoCompare, Doomed, ReadBy,
       ReadNext
  <2>3. CASE ~Rests /\ Steps' # Steps
    <3>1. Starts
      BY <2>3, InCall, NextCases
    <3>. QED BY <3>1, StartsFresh DEF QueueInv
  <2>. QED BY <2>1, <2>2, <2>3
<1>1. CASE Starts
  BY <1>1, StartsFresh
<1>2. CASE Calling \/ Mailbox
  <2>1. /\ Steps' = Steps /\ script' = script /\ DOMAIN mirror' = DOMAIN mirror /\ script.kind # "none"
        /\ marks \subseteq marks'
    BY <1>2, InCall
  <2>2. InSequence /\ ~PinsReadTwice /\ Clean(i) /\ Underway
    <3>1. Underway
      <4>1. Calling => Underway
        BY InCall, CallingPosition
      <4>2. Mailbox => result' = result
        BY InCall, MailboxMail
      <4>. QED BY <1>2, <4>1, <4>2 DEF Underway
    <3>. QED BY <1>2, <2>1, <3>1, CleanBefore DEF InSequence, PinsReadTwice
  <2>3. k <= At => Doomed \/ Landed(i)
    BY <2>1, <2>2 DEF QueueInv
  <2>4. CASE Doomed
    BY <1>2, <2>4, DoomedStays
  <2>5. CASE ~Doomed /\ Calling
    BY <2>1, <2>3, <2>5, LandedCalling
  <2>6. CASE ~Doomed /\ Mailbox
    <3>1. At' = At
      BY <2>1, <2>6, InCall, MailboxMail DEF At
    <3>. QED BY <2>1, <2>2, <2>3, <2>6, <3>1, LandedMailbox DEF Clean
  <2>. QED BY <1>2, <2>4, <2>5, <2>6
<1>. QED BY <1>1, <1>2, NextCases

(***************************************************************************)
(* What the first call of a pair has read, while the second runs.          *)
(***************************************************************************)
Earlier(i) ==
    /\ script.kind = "pair" /\ \A m \in DOMAIN StepsOf(1) : ~StepsOf(1)[m].current
    /\ i \in ItemsIn(StepsOf(1)) \ (Spoiled(StepsOf(1)) \cup Spoiled(StepsOf(2)))
    /\ i \notin ItemsOut(StepsOf(2)) \cup ItemsTaken(StepsOf(2)) \cup ItemsIn(StepsOf(2))
EarlierInv ==
    script.kind # "none" /\ step = 2 /\ Underway /\ InSequence /\ ~PinsReadTwice =>
        \A i \in DOMAIN mirror : Earlier(i) /\ Clear(i) => Doomed \/ Landed(i)

LEMMA EarlierInOrder ==
    ASSUME Shape, NEW i, Earlier(i)
    PROVE  /\ script.calls[1] \in IgnoresFailures => script.calls[2] \in IgnoresFailures
           /\ \A m \in DOMAIN StepsOf(1) :
                 /\ StepsOf(1)[m].kind # "compare"
                 /\ Stores(StepsOf(1)[m], i) => StepsOf(1)[m].needs = {}
           /\ \E k \in DOMAIN StepsOf(1) : LandsAt(StepsOf(1), i, k)
           /\ Leaves(StepsOf(2), i) /\ i \notin Flags(StepsOf(2))
           /\ \A m \in DOMAIN StepsOf(2) : ~Carries(StepsOf(2)[m], i)
<1>1. DOMAIN script.calls = {1, 2} /\ InOrder(script, device) /\ script.kind = "pair"
  BY DEF Shape, Earlier
<1>2. /\ script.calls[1] \in IgnoresFailures => script.calls[2] \in IgnoresFailures
      /\ \A m \in DOMAIN StepsOf(1) : Stores(StepsOf(1)[m], i) => StepsOf(1)[m].needs = {}
      /\ Leaves(StepsOf(2), i) /\ i \notin Flags(StepsOf(2))
      /\ \A m \in DOMAIN StepsOf(2) : ~Carries(StepsOf(2)[m], i)
  BY <1>1 DEF InOrder, StepsOf, Earlier
<1>3. FunctionInOrder(script.calls[1], script.kind, StepsOf(1))
  BY <1>1, CallsInOrder
<1>. QED BY <1>2, <1>3 DEF FunctionInOrder, Earlier

\* The second call begins with what the answers of the first have stored, or will store.
LEMMA EarlierBegins ==
    ASSUME RunInv, QueueInv, CallNext, InSequence, ~PinsReadTwice, RunInv', NEW i \in DOMAIN mirror,
           Earlier(i)', Clear(i)'
    PROVE  Doomed' \/ Landed(i)'
<1>1. /\ Shape /\ Position /\ MailOK /\ step = 1 /\ result = "PK_OK" /\ Steps = StepsOf(1)
      /\ UNCHANGED <<script, dev, requests, answers, marks>>
      /\ \A c : StepsOf(c)' = StepsOf(c)
      /\ mirror'[i] = IF script.kind = "pair" /\ i \in ItemsOut(Steps') \cup Flags(Steps')
                      THEN <<"app2">> ELSE mirror[i]
  BY OnwardEnters DEF RunInv, Steps
<1>2. step' = 2 /\ Earlier(i) /\ Steps' = StepsOf(2)
  BY <1>1, OnwardEnters DEF Earlier, Steps, StepsOf
<1>3. /\ script.kind = "pair" /\ i \notin Spoiled(Steps)
      /\ script.calls[1] \in IgnoresFailures => script.calls[2] \in IgnoresFailures
      /\ \A m \in DOMAIN Steps : ~Steps[m].current /\ Steps[m].kind # "compare"
                                 /\ (Stores(Steps[m], i) => Steps[m].needs = {})
      /\ \E k \in DOMAIN Steps : LandsAt(Steps, i, k)
      /\ i \notin ItemsOut(Steps') \cup Flags(Steps')
  BY <1>1, <1>2, EarlierInOrder DEF Earlier
<1>4. PICK k \in DOMAIN Steps : LandsAt(Steps, i, k)
  BY <1>3
<1>5. Clean(i)
  BY <1>1, <1>2, <1>3 DEF Clean, Clear, NoCompare, Call
<1>6. k <= At /\ Underway
  BY <1>1, AllRun
<1>7. Doomed \/ Landed(i)
  BY <1>1, <1>3, <1>4, <1>5, <1>6 DEF QueueInv
<1>8. Doomed => Doomed'
  BY <1>1 DEF Doomed, Undone, AnswerQueued
<1>9. mirror'[i] = mirror[i]
  BY <1>1, <1>3
<1>10. ASSUME NEW n \in DOMAIN answers, Fresh(n, i) PROVE Fresh(n, i)'
  <2>1. i \in ReadBy(n).in /\ Exchanges(ReadBy(n)) /\ ReadBy(n) \in Range(Steps)
    BY <1>1, <1>10, FirstRequests DEF Fresh, ReadBy, MailOK, RequestOK
  <2>2. Plain(ReadBy(n), i)
    BY <1>3, <2>1 DEF Plain, Stores, Range, Spoiled, Misread
  <2>. QED BY <1>1, <1>10, <2>2 DEF Fresh, Plain, ReadBy
<1>. QED BY <1>1, <1>7, <1>8, <1>9, <1>10 DEF Landed, ReadBy

LEMMA EarlierCalling ==
    ASSUME RunInv, Calling, step = 2, Underway', NEW i \in DOMAIN mirror, Earlier(i), Clear(i)', Landed(i)
    PROVE  (\E q \in DOMAIN requests' : Undone(q)') \/ LandedNext(i)
<1>1. Shape /\ Position /\ Allotted /\ MailOK /\ MailMoves /\ i \in DOMAIN dev
  BY InCall DEF Allotted
<1>2. Now = Steps[At + 1] /\ At + 1 \in DOMAIN Steps /\ At \in Nat
  BY <1>1, CallingEnabled, NextStep
<1>3. Untouched(Now, i) /\ ~Touches(Now, i) /\ ~Carries(Now, i)
  BY <1>1, <1>2, EarlierInOrder DEF Leaves, Steps
<1>4. mirror'[i] = mirror[i] /\ dev'[i] = dev[i]
  BY <1>1, <1>3, FieldMoves, DeviceMoves
<1>5. ASSUME NEW w, Own(w) PROVE OwnNext(w)
  <2>1. At' = At + 1
    BY <1>1, <1>2, <1>5, CallingPosition DEF Jumps, Own, NoCompare
  <2>. QED BY <1>1, <1>2, <1>5, <2>1, OwnKept
<1>6. CASE UNCHANGED <<requests, answers>>
  <2>1. \A n \in DOMAIN answers' : ReadNext(n) = ReadBy(n)
    BY <1>6 DEF ReadNext, ReadBy
  <2>. QED BY <1>4, <1>5, <1>6, <2>1 DEF Landed, LandedNext, Fresh, FreshNext
<1>7. CASE Send /\ ~Now.silent
  <2>1. (\E q \in DOMAIN requests' : Undone(q)') \/ \E l \in DOMAIN answers' : Joined(l)
    BY <1>1, <1>7, ClearBefore, SendJoins
  <2>2. ASSUME NEW l \in DOMAIN answers', Joined(l) PROVE LandedNext(i)
    <3>1. /\ DOMAIN answers' = DOMAIN answers \cup {l} /\ ReadNext(l) = Now
          /\ \A q \in DOMAIN answers : q < l /\ answers'[q] = answers[q] /\ ReadNext(q) = ReadBy(q)
      BY <2>2 DEF Joined
    <3>. QED BY <1>3, <1>4, <1>5, <3>1 DEF Landed, LandedNext, Fresh, FreshNext
  <2>. QED BY <2>1, <2>2
<1>8. CASE Run \/ (Send /\ Now.silent)
  <2>1. CASE Run
    BY <1>6, <2>1, RunQuiet
  <2>2. CASE Send /\ Now.silent
    BY <1>1, <1>6, <2>2, SendMoves DEF RequestMade, NothingMade, WentPast
  <2>. QED BY <1>8, <2>1, <2>2
<1>. QED BY <1>7, <1>8 DEF Calling

LEMMA EarlierInvStep ==
    ASSUME RunInv, LiveInv, AxisInv, OnceInv, KnownInv, QueueInv, EarlierInv, FunctionsInOrder, [Next]_vars
    PROVE  EarlierInv'
<1> SUFFICES ASSUME script'.kind # "none", step' = 2, Underway', InSequence', ~PinsReadTwice', NEW i \in DOMAIN mirror',
                    Earlier(i)', Clear(i)'
             PROVE  Doomed' \/ Landed(i)'
  BY DEF EarlierInv
<1>1. CASE Starts
  <2>1. ~BeginScript
    BY BeginEnters
  <2>2. ~CallAgain
    BY AgainEnters DEF Earlier
  <2>3. CASE CallNext
    <3>1. RunInv' /\ UNCHANGED <<script, marks>> /\ DOMAIN mirror' = DOMAIN mirror
      BY <1>1, <2>3, StartsFresh, OnwardEnters
    <3>2. InSequence /\ ~PinsReadTwice
      BY <3>1 DEF InSequence, PinsReadTwice
    <3>. QED BY <2>3, <3>1, <3>2, EarlierBegins
  <2>. QED BY <1>1, <2>1, <2>2, <2>3 DEF Starts
<1>2. CASE Calling \/ Mailbox
  <2>1. /\ Steps' = Steps /\ UNCHANGED <<device, script, step, uses>> /\ DOMAIN mirror' = DOMAIN mirror
        /\ script.kind # "none" /\ marks \subseteq marks' /\ \A c : StepsOf(c)' = StepsOf(c)
    BY <1>2, InCall
  <2>2. /\ InSequence /\ ~PinsReadTwice /\ Clear(i) /\ Earlier(i)
    BY <1>2, <2>1, ClearBefore DEF InSequence, PinsReadTwice, Earlier
  <2>3. Underway
    <3>1. Calling => Underway
      BY InCall, CallingPosition
    <3>2. Mailbox => result' = result
      BY InCall, MailboxMail
    <3>. QED BY <1>2, <3>1, <3>2 DEF Underway
  <2>4. Doomed \/ Landed(i)
    BY <2>1, <2>2, <2>3 DEF EarlierInv
  <2>5. (\E q \in DOMAIN requests' : Undone(q)') \/ LandedNext(i)
    <3>1. CASE Doomed
      BY <1>2, <3>1, DoomedStays
    <3>2. CASE ~Doomed /\ Calling
      BY <2>1, <2>2, <2>4, <3>2, EarlierCalling
    <3>3. CASE ~Doomed /\ Mailbox
      BY <2>1, <2>2, <2>3, <2>4, <3>3, LandedMailbox
    <3>. QED BY <1>2, <3>1, <3>2, <3>3
  <2>. QED BY <2>1, <2>5 DEF Landed, Fresh, LandedNext, FreshNext, Own, OwnNext, NoCompare, Doomed,
       ReadBy, ReadNext
<1>3. CASE Rests
  BY <1>3, RestsAll DEF EarlierInv, InSequence, PinsReadTwice, Earlier, Clear, Own, NoCompare,
     Call, Landed, Fresh, ReadBy, Doomed, Undone, AnswerQueued
<1>. QED BY <1>1, <1>2, <1>3, NextCases

(***************************************************************************)
(* Out of sequence: an item that is only read has one value in all of the  *)
(* answers, whichever comes last.                                          *)
(***************************************************************************)
LEMMA DeviceKept ==
    ASSUME RunInv, LiveInv, LiveInv', script.kind # "pair", Calling \/ Mailbox, NEW i \in DOMAIN mirror,
           i \notin ItemsOut(Steps)
    PROVE  dev'[i] = dev[i]
<1>1. /\ Shape /\ Position /\ Allotted /\ MailOK /\ MailMoves /\ Steps' = Steps /\ script' = script
      /\ script.kind # "none"
  BY InCall
<1>2. \A w \in Range(Steps) : i \notin w.out \cup w.zeroes
  BY DEF Range, ItemsOut
<1>3. CASE SentPast
  <2>1. todo # <<>>
    BY <1>3 DEF SentPast, SendSilently, Runs
  <2>2. \A carries \in Contents : i \notin DOMAIN carries
    BY <1>1, <1>2, <2>1, ContentsOf, NowOfSteps
  <2>. QED BY <1>1, <1>3, <2>2 DEF SentPast, Executed, Allotted
<1>4. CASE \E k \in DOMAIN requests' : Executing(k)
  <2>1. PICK k \in DOMAIN requests' : Executing(k)
    BY <1>4
  <2>2. requests'[k].what \in Range(Steps) /\ RequestOK(requests'[k])
    BY <1>1, <2>1 DEF Executing, LiveInv, Live, MailMoves, Kept, Made
  <2>3. i \notin DOMAIN requests'[k].carries
    BY <1>2, <2>2 DEF RequestOK
  <2>. QED BY <1>1, <2>1, <2>3 DEF Executing, Executed, Allotted
<1>. QED BY <1>1, <1>3, <1>4 DEF MailMoves

ReadInv ==
    script.kind \notin {"none", "pair"} =>
        \A i \in DOMAIN mirror : i \notin ItemsOut(Steps) =>
            \A n \in DOMAIN answers : i \in ReadBy(n).in => answers[n].values[i] = dev[i]

LEMMA ReadInvStep ==
    ASSUME RunInv, LiveInv, LiveInv', ReadInv, FunctionsInOrder, [Next]_vars
    PROVE  ReadInv'
<1> SUFFICES ASSUME script'.kind \notin {"none", "pair"}, NEW i \in DOMAIN mirror', i \notin ItemsOut(Steps'),
                    NEW n \in DOMAIN answers', i \in ReadNext(n).in
             PROVE  answers'[n].values[i] = dev'[i]
  BY DEF ReadInv, ReadBy, ReadNext
<1>1. CASE Starts
  <2>1. UNCHANGED <<requests, answers>> /\ MailOK'
    BY <1>1, StartsFresh
  <2>2. ~BeginScript
    BY <2>1, BeginEnters
  <2>3. ~CallNext
    BY <2>1, OnwardEnters, SettledDead
  <2>4. CallAgain
    BY <1>1, <2>2, <2>3 DEF Starts
  <2>5. Steps' = Steps /\ UNCHANGED <<script, mirror, dev>>
    BY <2>4, AgainEnters
  <2>. QED BY <2>1, <2>5 DEF ReadInv, ReadBy, ReadNext
<1>2. CASE Calling \/ Mailbox
  <2>1. /\ Steps' = Steps /\ script' = script /\ DOMAIN mirror' = DOMAIN mirror /\ MailMoves /\ MailOK
        /\ script.kind # "none"
    BY <1>2, InCall
  <2>2. dev'[i] = dev[i]
    BY <1>2, <2>1, DeviceKept
  <2>3. CASE OldAnswer(n)
    <3>1. PICK l \in DOMAIN answers : answers'[n] = answers[l]
      BY <2>3 DEF OldAnswer
    <3>2. ReadNext(n) = ReadBy(l)
      BY <2>1, <3>1 DEF MailOK, MailMoves, Kept, ReadBy, ReadNext
    <3>. QED BY <2>1, <2>2, <3>1, <3>2 DEF ReadInv
  <2>4. CASE NewAnswer(n)
    BY <2>4 DEF NewAnswer, ReadNext
  <2>. QED BY <2>1, <2>3, <2>4 DEF MailMoves
<1>3. CASE Rests
  BY <1>3, RestsAll DEF ReadInv, ReadBy, ReadNext
<1>. QED BY <1>1, <1>2, <1>3, NextCases

\* A request that is not answered stays so, unless its answer is the one that is parsed.
LEMMA StatusKept ==
    ASSUME RunInv, Calling \/ Mailbox, NEW r \in DOMAIN requests, requests[r].status # "answered",
           Dispatch \/ DispatchRefusal => r # answers[1].request
    PROVE  r \in DOMAIN requests' /\ requests'[r].status # "answered"
<1>1. Shape /\ Position /\ MailOK /\ MailMoves
  BY InCall
<1>2. r \in DOMAIN requests'
  BY <1>1 DEF MailMoves, Kept
<1>3. CASE Run
  BY <1>3, RunQuiet
<1>4. CASE Send
  <2>1. PICK carries \in Contents : RequestMade(carries) \/ NothingMade \/ WentPast(carries)
    BY <1>1, <1>4, SendMoves
  <2>2. CASE RequestMade(carries)
    <3>1. requests' = Append(requests, NewRequest(carries))
      BY <2>2 DEF RequestMade
    <3>. QED BY <1>1, <3>1, AppendSeq DEF MailOK
  <2>. QED BY <2>1, <2>2 DEF NothingMade, WentPast
<1>5. CASE Dispatch \/ DispatchRefusal
  <2>1. answers # <<>> /\ Collected /\ UNCHANGED dev
    BY <1>5 DEF Dispatch, DispatchRefusal
  <2>. QED BY <1>1, <1>2, <1>5, <2>1, CollectMail
<1>6. requests[r] \in [what : {requests[r].what}, carries : {requests[r].carries},
              status : {"pending", "answered", "failed"}, attempts : 1..2]
  BY <1>1 DEF MailOK, RequestOK
<1>7. CASE Timeouts
  <2>1. \/ requests'[r] = requests[r]
        \/ requests'[r] = [requests[r] EXCEPT !.attempts = @ + 1]
        \/ requests'[r] = [requests[r] EXCEPT !.status = "failed"]
    BY <1>7 DEF Timeouts, Resend, ResendInVain, GiveUp, ForAll
  <2>. QED BY <1>2, <1>6, <2>1
<1>8. CASE DispatchUnknown \/ Reorder \/ Disconnect
  BY <1>8 DEF DispatchUnknown, Reorder, Disconnect
<1>. QED BY <1>3, <1>4, <1>5, <1>7, <1>8 DEF Calling, Mailbox, Receive

\* Once its request is made, the item is what the device has, or the answer is outstanding.
Open(r, i) == requests[r].status # "answered" /\ i \in requests[r].what.in
OpenNext(r, i) == requests'[r].status # "answered" /\ i \in requests'[r].what.in
LandInv ==
    script.kind \notin {"none", "pair"} /\ Underway /\ script.calls[1] # "PinConfigurationGet" =>
        \A i \in DOMAIN mirror : \A k \in DOMAIN Steps :
            Clean(i) /\ i \notin ItemsOut(Steps) /\ LandsAt(Steps, i, k) /\ k <= At =>
                mirror[i] = dev[i] \/ \E r \in DOMAIN requests : Open(r, i)

LEMMA NoNeeds ==
    ASSUME Shape, script.kind # "pair", script.calls[1] # "PinConfigurationGet"
    PROVE  Needed(Steps) = {}
<1>1. CASE step = 1
  BY <1>1, NeedingCall DEF Call
<1>2. CASE step # 1
  <2>1. step = 2 /\ script.kind # "retry"
    BY <1>2, CallsInOrder DEF Shape
  <2>2. ~PinsReadTwice
    BY DEF PinsReadTwice
  <2>3. ASSUME NEW n \in Needed(Steps) PROVE FALSE
    BY <2>1, <2>2, <2>3, SecondNeeds DEF Steps
  <2>. QED BY <2>3
<1>. QED BY <1>1, <1>2

\* A request that is not answered before stays outstanding.
LEMMA OpenKept ==
    ASSUME RunInv, Calling \/ Mailbox, NEW i, NEW r \in DOMAIN requests, Open(r, i),
           Dispatch \/ DispatchRefusal => r # answers[1].request
    PROVE  r \in DOMAIN requests' /\ OpenNext(r, i)
<1>1. r \in DOMAIN requests' /\ requests'[r].status # "answered"
  BY StatusKept DEF Open
<1>2. requests'[r].what = requests[r].what
  BY InCall DEF MailMoves, Kept
<1>. QED BY <1>1, <1>2 DEF Open, OpenNext

\* A step that reads the item makes a request for it.
LEMMA SendOpens ==
    ASSUME RunInv, Send, Underway', NEW i, i \in Now.in, ~Now.silent,
           "dropped" \notin marks' \/ Call \notin IgnoresFailures
    PROVE  \E r \in DOMAIN requests' : OpenNext(r, i)
<1>1. Shape /\ Position /\ MailOK
  BY InCall DEF Calling
<1>2. todo # <<>> /\ (Now.onFail = "skip" => Call \in IgnoresFailures)
  BY <1>1, CallingEnabled, NextStep, StepsInOrder DEF Calling
<1>3. PICK carries \in Contents : RequestMade(carries) \/ NothingMade \/ WentPast(carries)
  BY <1>1, SendMoves
<1>4. requests' = Append(requests, NewRequest(carries))
  BY <1>2, <1>3 DEF NothingMade, WentPast, RequestMade
<1> DEFINE e == NewRequest(carries)
<1>5. e.what = Now /\ e.status = "pending"
  BY DEF NewRequest
<1> HIDE DEF e
<1>6. /\ DOMAIN Append(requests, e) = 1..(Len(requests) + 1)
      /\ Append(requests, e)[Len(requests) + 1] = e /\ Len(requests) \in Nat
  BY <1>1, AppendSeq DEF MailOK
<1>7. requests' = Append(requests, e)
  BY <1>4 DEF e
<1>8. Len(requests) + 1 \in DOMAIN requests' /\ requests'[Len(requests) + 1] = e
  BY <1>6, <1>7
<1>. QED BY <1>5, <1>8 DEF OpenNext

LEMMA LandWhileCalling ==
    ASSUME RunInv, LiveInv, LiveInv', LandInv, Calling, script.kind # "pair", Underway',
           script.calls[1] # "PinConfigurationGet", NEW i \in DOMAIN mirror, NEW k \in DOMAIN Steps,
           Clean(i)', i \notin ItemsOut(Steps), LandsAt(Steps, i, k), k <= At'
    PROVE  mirror'[i] = dev'[i] \/ \E r \in DOMAIN requests' : OpenNext(r, i)
<1>1. Shape /\ Position /\ Allotted /\ MailOK /\ script.kind # "none"
  BY InCall
<1>2. Now = Steps[At + 1] /\ At + 1 \in DOMAIN Steps /\ At \in Nat /\ k \in Nat
  BY <1>1, CallingEnabled, NextStep, StepsInOrder
<1>3. Clean(i) /\ ("dropped" \notin marks' \/ Call \notin IgnoresFailures)
  BY CleanBefore
<1>4. At' = At + 1 /\ Underway
  BY <1>1, <1>2, <1>3, CallingPosition DEF Jumps, Clean, NoCompare
<1>5. CASE k <= At
  <2>1. mirror'[i] = mirror[i]
    <3>1. At + 1 >= k
      BY <1>2, <1>5
    <3>2. Untouched(Now, i)
      BY <1>2, <3>1 DEF LandsAt, From
    <3>. QED BY <1>1, <3>2, FieldMoves
  <2>2. dev'[i] = dev[i]
    BY DeviceKept
  <2>3. mirror[i] = dev[i] \/ \E r \in DOMAIN requests : Open(r, i)
    BY <1>1, <1>3, <1>4, <1>5 DEF LandInv
  <2>4. ~Dispatch /\ ~DispatchRefusal
    BY <1>1, CallingEnabled DEF Dispatch, DispatchRefusal, Idle
  <2>. QED BY <2>1, <2>2, <2>3, <2>4, OpenKept
<1>6. CASE k = At + 1
  <2>1. Exchanges(Now) /\ ~Passed(Now) /\ ~Now.silent /\ i \in Now.in
    BY <1>2, <1>6 DEF Passed, Stores, LandsAt
  <2>2. Send
    BY <2>1, RunQuiet DEF Calling
  <2>. QED BY <1>3, <2>1, <2>2, SendOpens
<1>. QED BY <1>2, <1>4, <1>5, <1>6

LEMMA LandWhileResting ==
    ASSUME RunInv, LiveInv, LiveInv', AxisInv, ReadInv, LandInv, Mailbox, script.kind # "pair", Underway,
           script.calls[1] # "PinConfigurationGet", NEW i \in DOMAIN mirror, NEW k \in DOMAIN Steps,
           Clean(i)', i \notin ItemsOut(Steps), LandsAt(Steps, i, k), k <= At
    PROVE  mirror'[i] = dev'[i] \/ \E r \in DOMAIN requests' : OpenNext(r, i)
<1>1. Shape /\ Position /\ Allotted /\ MailOK /\ script.kind # "none"
  BY InCall
<1>2. Clean(i) /\ dev'[i] = dev[i] /\ UNCHANGED script
  BY CleanBefore, DeviceKept, InCall
<1>3. mirror[i] = dev[i] \/ \E r \in DOMAIN requests : Open(r, i)
  BY <1>1, <1>2 DEF LandInv
<1>4. CASE Dispatch \/ DispatchRefusal
  <2>1. answers # <<>>
    BY <1>4 DEF Dispatch, DispatchRefusal
  <2>2. 1 \in DOMAIN answers /\ Exchanges(ReadBy(1)) /\ Live(answers[1].request)
        /\ answers[1].request \in DOMAIN requests
    BY <1>1, <2>1, FirstAnswer
  <2>3. PICK m \in DOMAIN Steps : ReadBy(1) = Steps[m]
    BY <1>1, <2>2 DEF LiveInv, ReadBy, Range
  <2>4. InPlace(ReadBy(1))
    BY <1>1, <1>2, <2>2, <2>3, StoredInPlace DEF Clean, ReadBy
  <2>5. CASE Dispatch /\ i \in ReadBy(1).in
    <3>1. i \notin ReadBy(1).misreads
      BY <1>2, <2>3 DEF Clean, Clear, Spoiled, Misread
    <3>2. ReadBy(1).needs = {}
      BY <1>1, <2>3, NoNeeds DEF Needed
    <3>3. answers[1].values[i] = dev[i]
      BY <1>1, <2>2, <2>5 DEF ReadInv
    <3>. QED BY <1>1, <1>2, <2>4, <2>5, <3>1, <3>2, <3>3, DispatchField
  <2>6. CASE ~(Dispatch /\ i \in ReadBy(1).in)
    <3>1. DispatchRefusal => ~Touches(ReadBy(1), i) /\ i \notin ReadBy(1).drops
      <4>1. DispatchRefusal => "refused" \in marks' /\ ReadBy(1).refusable
        BY <1>1, MailboxField
      <4>2. DispatchRefusal => \A q \in DOMAIN Steps :
                Steps[q].refusable => ~Touches(Steps[q], i) /\ i \notin Steps[q].drops
        BY <1>2, <4>1, InCall DEF Clean, Clear
      <4>. QED BY <2>3, <4>1, <4>2
    <3>2. i \notin ReadBy(1).in
      BY <1>4, <2>2, <2>6, <3>1 DEF Touches
    <3>3. mirror'[i] = mirror[i]
      <4>1. i \notin ReadBy(1).clears
        BY <2>3 DEF LandsAt
      <4>. QED BY <1>1, <1>4, <2>4, <3>1, <3>2, <4>1, DispatchField, MailboxField
    <3>4. \A r \in DOMAIN requests : Open(r, i) => r # answers[1].request
      BY <3>2 DEF Open, ReadBy
    <3>. QED BY <1>2, <1>3, <3>3, <3>4, OpenKept
  <2>. QED BY <2>5, <2>6
<1>5. CASE ~Dispatch /\ ~DispatchRefusal
  <2>1. mirror'[i] = mirror[i]
    BY <1>1, <1>5, MailboxField
  <2>. QED BY <1>2, <1>3, <1>5, <2>1, OpenKept
<1>. QED BY <1>4, <1>5

LEMMA LandInvStep ==
    ASSUME RunInv, LiveInv, LiveInv', AxisInv, ReadInv, LandInv, FunctionsInOrder, [Next]_vars
    PROVE  LandInv'
<1> SUFFICES ASSUME script'.kind \notin {"none", "pair"}, Underway',
                    script'.calls[1] # "PinConfigurationGet",
                    NEW i \in DOMAIN mirror', NEW k \in DOMAIN Steps',
                    Clean(i)', i \notin ItemsOut(Steps'), LandsAt(Steps', i, k), k <= At'
             PROVE  mirror'[i] = dev'[i] \/ \E r \in DOMAIN requests' : OpenNext(r, i)
  BY DEF LandInv, Open, OpenNext
<1>1. CASE Starts
  BY <1>1, StartsFresh
<1>2. CASE Calling
  BY <1>2, InCall, LandWhileCalling
<1>3. CASE Mailbox
  <2>1. /\ Steps' = Steps /\ script' = script /\ DOMAIN mirror' = DOMAIN mirror
        /\ UNCHANGED <<todo, result>>
    BY <1>3, InCall, MailboxMail
  <2>2. At' = At /\ Underway
    BY <2>1 DEF At, Underway
  <2>. QED BY <1>3, <2>1, <2>2, LandWhileResting
<1>4. CASE Rests
  BY <1>4, RestsAll DEF LandInv, Clean, Clear, NoCompare, Call, Open, OpenNext
<1>. QED BY <1>1, <1>2, <1>3, <1>4, NextCases

(***************************************************************************)
(* PK_OK means read.                                                       *)
(***************************************************************************)
LEMMA AllAnswered ==
    ASSUME MailOK, Succeeded
    PROVE  answers = <<>> /\ \A k \in DOMAIN requests : requests[k].status = "answered"
<1>1. ASSUME NEW k \in DOMAIN requests PROVE requests[k].status = "answered"
  <2>1. requests[k] \in [what : {requests[k].what}, carries : {requests[k].carries},
                         status : {"pending", "answered", "failed"}, attempts : 1..2]
    BY DEF MailOK, RequestOK
  <2>. QED BY <2>1 DEF Succeeded, Settled, Failed
<1>. QED BY <1>1 DEF Succeeded, Settled

LEMMA ReadLands ==
    ASSUME Shape, NEW i \in uses.reads \ uses.spoils
    PROVE  /\ NoCompare /\ i \in ItemsIn(Steps) \ (Spoiled(Steps) \cup Erased)
           /\ \E k \in DOMAIN Steps : LandsAt(Steps, i, k)
           /\ i \in ItemsOut(Steps) /\ script.kind # "pair" =>
                 /\ Steady(Steps, i) /\ ~Named(i)
                 /\ \A m \in DOMAIN Steps : Carries(Steps[m], i) => ~Steps[m].silent
<1>1. i \in ItemsIn(Steps) \ Spoiled(Steps)
  BY DEF Shape
<1>2. FunctionInOrder(Call, script.kind, Steps)
  BY CallsInOrder
<1>. QED BY <1>1, <1>2 DEF FunctionInOrder, NoCompare, Named

LEMMA LandedWhenDone ==
    ASSUME RunInv, ValueInv, CoverInv, QueueInv, LandInv, Succeeded, NEW i \in uses.reads \ uses.spoils,
           Clean(i), ~PinsReadTwice,
           InSequence \/ (script.kind # "pair" /\ script.calls[1] # "PinConfigurationGet")
    PROVE  mirror[i] = dev[i]
<1>1. script.kind # "none" /\ result = "PK_OK"
  BY DEF Succeeded, Settled, Idle
<1>2. Shape /\ Position /\ Allotted /\ MailOK
  BY <1>1 DEF RunInv
<1>3. answers = <<>> /\ \A r \in DOMAIN requests : requests[r].status = "answered"
  BY <1>2, AllAnswered
<1>4. PICK k \in DOMAIN Steps : LandsAt(Steps, i, k)
  BY <1>2, ReadLands
<1>5. k <= At /\ todo = <<>> /\ Underway /\ i \in DOMAIN mirror
  BY <1>1, <1>2, AllRun, CarriedThere
<1>6. CASE InSequence
  <2>1. Doomed \/ Landed(i)
    BY <1>1, <1>4, <1>5, <1>6 DEF QueueInv
  <2>. QED BY <1>3, <2>1 DEF Doomed, Undone, Landed
<1>7. CASE ~InSequence /\ i \notin ItemsOut(Steps)
  BY <1>1, <1>3, <1>4, <1>5, <1>7 DEF LandInv, Open
<1>8. CASE ~InSequence /\ i \in ItemsOut(Steps)
  <2>1. script.kind # "pair" /\ i \in uses.carries \ (uses.spoils \cup Erased) /\ i \notin Spoiled(Steps)
    BY <1>2, <1>8, ReadLands DEF Shape
  <2>2. NoCompare /\ Steady(Steps, i) /\ ~Named(i)
        /\ \A m \in DOMAIN Steps : Carries(Steps[m], i) => ~Steps[m].silent
    BY <1>2, <1>8, <2>1, ReadLands
  <2>3. Sure(i)
    BY <2>1, <2>2 DEF Sure, Clean, Clear, NoCompare
  <2>4. PICK m \in DOMAIN Steps : Settling(i, m)
    BY <1>2, <2>1, CarriedSettles
  <2>5. m <= At
    BY <1>1, <1>2, AllRun
  <2>6. Covered(i, meant[i])
    BY <1>1, <1>5, <2>3, <2>4, <2>5 DEF CoverInv, SentInv, Goal
  <2>7. dev[i] = meant[i]
    BY <1>2, <2>6, SettledCovered
  <2>8. meant[i] = Target(i)
    BY <1>1, <1>5, <2>1, <2>2 DEF ValueInv, ValueOf, Same
  <2>. QED BY <2>2, <2>7, <2>8 DEF Target
<1>. QED BY <1>6, <1>7, <1>8

LEMMA LandedDone ==
    RunInv /\ ValueInv /\ CoverInv /\ QueueInv /\ EarlierInv /\ LandInv => AnswersLand
<1> SUFFICES ASSUME RunInv, ValueInv, CoverInv, QueueInv, EarlierInv, LandInv, Succeeded, AllMade,
                    "refused" \notin marks, ~OutOfOrder, ~PinsReadTwice,
                    NEW i \in (uses.reads \cup ReadBefore) \ uses.spoils
             PROVE  mirror[i] = dev[i]
  BY DEF AnswersLand
<1>1. Shape /\ Allotted /\ MailOK /\ Underway
  BY DEF Succeeded, Settled, Idle, RunInv, Underway
<1>2. Clear(i)
  BY <1>1 DEF Clear, AllMade, Shape
<1>3. InSequence \/ (script.kind # "pair" /\ script.calls[1] # "PinConfigurationGet")
  BY DEF InSequence, OutOfOrder
<1>4. CASE i \in uses.reads
  BY <1>1, <1>2, <1>3, <1>4, ReadLands, LandedWhenDone DEF Clean
<1>5. CASE i \notin uses.reads
  <2>1. step = 2 /\ Earlier(i)
    BY <1>1, <1>5 DEF Earlier, ReadBefore, Shape, Steps
  <2>2. script.kind = "pair" /\ step = 2 /\ InSequence /\ i \in ItemsIn(StepsOf(1))
    BY <1>3, <2>1 DEF Earlier
  <2>3. i \in DOMAIN mirror
    BY <1>1, <2>2 DEF Shape, Allotted, ItemsIn, AllItems
  <2>4. Doomed \/ Landed(i)
    BY <1>1, <1>2, <2>1, <2>2, <2>3 DEF EarlierInv
  <2>. QED BY <1>1, <2>4, AllAnswered DEF Doomed, Undone, Landed
<1>. QED BY <1>4, <1>5

ReadingInv ==
    /\ AxisInv /\ OnceInv /\ NoFailInv /\ FirstInv /\ KnownInv /\ QueueInv /\ EarlierInv
    /\ ReadInv /\ LandInv

LEMMA ReadingStep ==
    ASSUME RunInv, LiveInv, ReadingInv, FunctionsInOrder, [Next]_vars
    PROVE  ReadingInv'
<1>1. LiveInv'
  BY LiveInvStep
<1>2. AxisInv' /\ OnceInv' /\ NoFailInv' /\ FirstInv'
  BY AxisInvStep, OnceInvStep, NoFailInvStep, FirstInvStep DEF ReadingInv
<1>3. KnownInv' /\ QueueInv' /\ EarlierInv' /\ ReadInv' /\ LandInv'
  BY <1>1, KnownInvStep, QueueInvStep, EarlierInvStep, ReadInvStep, LandInvStep DEF ReadingInv
<1>. QED BY <1>2, <1>3 DEF ReadingInv

LEMMA ReadingInit == Init => ReadingInv
<1> SUFFICES ASSUME Init PROVE ReadingInv
  OBVIOUS
<1>1. script.kind = "none" /\ requests = <<>> /\ answers = <<>> /\ mirror = <<>>
  BY DEF Init
<1>2. AxisInv /\ NoFailInv /\ KnownInv /\ QueueInv /\ EarlierInv /\ ReadInv /\ LandInv /\ FirstInv
  BY <1>1 DEF AxisInv, NoFailInv, KnownInv, QueueInv, EarlierInv, ReadInv, LandInv, FirstInv
<1>3. OnceInv
  BY <1>1 DEF OnceInv
<1>. QED BY <1>2, <1>3 DEF ReadingInv

\* When a call has returned PK_OK and all its requests are answered, the structure holds of
\* everything it has read what the device has - whatever has been lost, sent again or
\* answered late.  Of two calls without waiting, the same goes for what the first has
\* read and the second does not send, but for the configuration of an axis: its answer
\* is stored for the axis the second has named.  With two calls, and with key mappings,
\* this takes answers that come in their order.
THEOREM AnswersAreStored == Spec /\ []FunctionsInOrder => []AnswersLand
<1>1. RunInv /\ LiveInv /\ ValueInv /\ CoverInv /\ ReadingInv /\ FunctionsInOrder /\ [Next]_vars
      => RunInv' /\ LiveInv' /\ ValueInv' /\ CoverInv' /\ ReadingInv'
  BY RunStep, LiveInvStep, ValueInvStep, CoverInvStep, ReadingStep
<1>2. RunInv /\ ValueInv /\ CoverInv /\ ReadingInv => AnswersLand
  BY LandedDone DEF ReadingInv
<1>. QED BY RunInit, CoverInit, ReadingInit, <1>1, <1>2, PTL DEF Spec

(***************************************************************************)
(* Settings that are read and written back.                                *)
(***************************************************************************)
\* A request has failed for good: the script does not succeed any more.
Dead == \E k \in DOMAIN requests : requests[k].status = "failed" /\ ~AnswerQueued(k)
DeadNext == \E k \in DOMAIN requests' :
    requests'[k].status = "failed" /\ \A n \in DOMAIN answers' : answers'[n].request # k

WrittenBack(i) ==
    i \in ItemsOut(StepsOf(2)) \ (NeverRead \cup Erased \cup Spoiled(StepsOf(1)) \cup Spoiled(StepsOf(2)))
\* The answers of the first call are in the structure.
ReadWell ==
    /\ "dropped" \notin marks \/ script.calls[1] \notin IgnoresFailures
    /\ InSequence \/ script.calls[1] # "PinConfigurationGet"
RmwInv ==
    script.kind = "rmw" =>
        \A i \in DOMAIN mirror : WrittenBack(i) =>
            /\ step = 1 => dev[i] = <<"dev", i>>
            /\ step = 2 /\ ReadWell =>
                  \/ Dead
                  \/ /\ mirror[i] = <<"dev", i>>
                     /\ result = "PK_OK" /\ i \in uses.carries => meant[i] = <<"dev", i>>

LEMMA DeadStays ==
    ASSUME RunInv, Calling \/ Mailbox, Dead
    PROVE  DeadNext
<1>1. PICK k \in DOMAIN requests : requests[k].status = "failed" /\ ~AnswerQueued(k)
  BY DEF Dead
<1>2. MailMoves
  BY InCall
<1>3. k \in DOMAIN requests' /\ requests'[k].status = "failed"
  BY <1>1, <1>2 DEF MailMoves, Kept
<1>4. Undone(k)'
  BY <1>1, <1>2, <1>3 DEF MailMoves, Undone, Executing
<1>. QED BY <1>3, <1>4 DEF DeadNext, Undone, AnswerQueued

LEMMA WrittenInOrder ==
    ASSUME Shape, script.kind = "rmw", NEW i, WrittenBack(i)
    PROVE  /\ i \in ItemsIn(StepsOf(1)) \ ItemsOut(StepsOf(1)) /\ i \notin Spoiled(StepsOf(1))
           /\ \A m \in DOMAIN StepsOf(1) : StepsOf(1)[m].refusable =>
                 ~Touches(StepsOf(1)[m], i) /\ i \notin StepsOf(1)[m].drops
           /\ Leaves(StepsOf(2), i)
           /\ \A m \in DOMAIN StepsOf(2) : Carries(StepsOf(2)[m], i) => ~StepsOf(2)[m].silent
           /\ script.calls[1] \in IgnoresFailures => script.calls[2] \in IgnoresFailures
           /\ ~PinsReadTwice
<1>1. DOMAIN script.calls = {1, 2}
  BY DEF Shape
<1>2. InOrder(script, device)
  BY DEF Shape
<1>3. /\ i \in ItemsIn(StepsOf(1)) \ ItemsOut(StepsOf(1))
      /\ \A m \in DOMAIN StepsOf(1) : StepsOf(1)[m].refusable =>
            ~Touches(StepsOf(1)[m], i) /\ i \notin StepsOf(1)[m].drops
      /\ Leaves(StepsOf(2), i)
      /\ \A m \in DOMAIN StepsOf(2) : Carries(StepsOf(2)[m], i) => ~StepsOf(2)[m].silent
      /\ script.calls[1] \in IgnoresFailures => script.calls[2] \in IgnoresFailures
  BY <1>1, <1>2 DEF WrittenBack, InOrder, StepsOf
<1>4. ~PinsReadTwice
  <2>1. PinsReadTwice => StepsOf(1) = StepsOf(2)
    BY DEF PinsReadTwice, StepsOf
  <2>. QED BY <1>3, <2>1 DEF WrittenBack
<1>. QED BY <1>3, <1>4 DEF WrittenBack

\* The second call begins with what the device has.
LEMMA WrittenRead ==
    ASSUME RunInv, ValueInv, CoverInv, QueueInv, LandInv, RmwInv, CallNext, script.kind = "rmw", ReadWell,
           NEW i \in DOMAIN mirror, WrittenBack(i)
    PROVE  Dead \/ mirror[i] = <<"dev", i>>
<1>1. Shape /\ step = 1 /\ result = "PK_OK" /\ Settled
  BY OnwardEnters
<1>2. CASE Failed
  BY <1>1, <1>2 DEF Failed, Dead, Settled, AnswerQueued
<1>3. CASE ~Failed
  <2>1. Succeeded /\ Steps = StepsOf(1) /\ Call = script.calls[1] /\ uses.spoils = Spoiled(Steps)
        /\ uses.reads = ItemsIn(Steps)
    BY <1>1, <1>3 DEF Succeeded, Steps, Call, Shape
  <2>2. i \in uses.reads \ uses.spoils /\ ~PinsReadTwice
    BY <1>1, <2>1, WrittenInOrder
  <2>3. Clean(i)
    BY <1>1, <2>1, <2>2, ReadLands, WrittenInOrder DEF Clean, Clear, ReadWell
  <2>4. mirror[i] = dev[i]
    BY <2>1, <2>2, <2>3, LandedWhenDone DEF ReadWell
  <2>. QED BY <1>1, <2>4 DEF RmwInv
<1>. QED BY <1>2, <1>3

LEMMA RmwInvStep ==
    ASSUME RunInv, LiveInv, ValueInv, CoverInv, QueueInv, LandInv, RmwInv, FunctionsInOrder, [Next]_vars
    PROVE  RmwInv'
<1> SUFFICES ASSUME script'.kind = "rmw", NEW i \in DOMAIN mirror', WrittenBack(i)'
             PROVE  /\ step' = 1 => dev'[i] = <<"dev", i>>
                    /\ step' = 2 /\ ReadWell' =>
                          \/ DeadNext
                          \/ /\ mirror'[i] = <<"dev", i>>
                             /\ result' = "PK_OK" /\ i \in uses'.carries => meant'[i] = <<"dev", i>>
  BY DEF RmwInv, Dead, DeadNext, AnswerQueued
<1>1. CASE BeginScript
  BY <1>1, BeginEnters DEF BeginScript
<1>2. CASE CallAgain
  BY <1>2, AgainEnters
<1>3. CASE CallNext
  <2>1. /\ step' = 2 /\ \A c : StepsOf(c)' = StepsOf(c)
        /\ UNCHANGED <<script, requests, answers, marks>> /\ DOMAIN mirror' = DOMAIN mirror
    BY <1>3, OnwardEnters
  <2>2. mirror' = mirror /\ WrittenBack(i) /\ (ReadWell' => ReadWell)
    BY <1>3, <2>1, OnwardEnters DEF WrittenBack, ReadWell, InSequence
  <2>3. result' = "PK_OK" => i \notin uses'.carries
    BY <1>3, StartsFresh DEF Starts
  <2>4. Dead => DeadNext
    BY <2>1 DEF Dead, DeadNext, AnswerQueued
  <2>. QED BY <1>3, <2>1, <2>2, <2>3, <2>4, WrittenRead
<1>4. CASE Calling \/ Mailbox
  <2>1. /\ Shape /\ UNCHANGED <<script, step, uses>> /\ i \in DOMAIN mirror
        /\ \A c : StepsOf(c)' = StepsOf(c)
        /\ marks \subseteq marks'
    BY <1>4, InCall
  <2>2. script.kind = "rmw" /\ WrittenBack(i) /\ (ReadWell' => ReadWell)
    BY <2>1 DEF WrittenBack, ReadWell, InSequence
  <2>3. CASE step = 1
    <3>1. i \notin ItemsOut(Steps)
      BY <2>1, <2>2, <2>3, WrittenInOrder DEF Steps
    <3>2. dev'[i] = dev[i]
      BY <1>4, <2>1, <2>2, <3>1, LiveInvStep, InCall, DeviceKept
    <3>. QED BY <2>1, <2>2, <2>3, <3>2 DEF RmwInv
  <2>4. CASE step = 2 /\ ReadWell /\ Dead
    BY <1>4, <2>1, <2>4, DeadStays
  <2>5. CASE step = 2 /\ ReadWell /\ ~Dead
    <3>1. Leaves(Steps, i)
      BY <2>1, <2>2, <2>5, WrittenInOrder DEF Steps
    <3>2. \A k \in DOMAIN requests : Live(k) => requests[k].what \in Range(Steps)
      BY <2>2 DEF LiveInv
    <3>3. mirror'[i] = mirror[i]
      BY <1>4, <2>1, <3>1, <3>2, LeftAlone
    <3>. QED BY <1>4, <2>1, <2>2, <2>5, <3>3, MeantThen DEF RmwInv
  <2>. QED BY <2>1, <2>2, <2>3, <2>4, <2>5
<1>5. CASE Rests
  BY <1>5, RestsAll DEF RmwInv, WrittenBack, ReadWell, InSequence, Dead, DeadNext, AnswerQueued
<1>. QED BY <1>1, <1>2, <1>3, <1>4, <1>5, NextCases DEF Starts

LEMMA RmwInvDone == RunInv /\ CoverInv /\ RmwInv => ReadModifyWrite
<1> SUFFICES ASSUME RunInv, CoverInv, RmwInv, Succeeded, AllMade, ~OutOfOrder, ~OldRequestWins,
                    script.kind = "rmw", step = 2,
                    NEW i \in uses.carries \ (NeverRead \cup Erased \cup uses.spoils)
             PROVE  dev[i] = <<"dev", i>>
  BY DEF ReadModifyWrite
<1>1. result = "PK_OK"
  BY DEF Succeeded
<1>2. Shape /\ Position /\ Allotted /\ MailOK
  BY DEF RunInv
<1>3. WrittenBack(i) /\ Steps = StepsOf(2) /\ Call = script.calls[2] /\ i \in DOMAIN mirror
  BY <1>2, CarriedThere DEF WrittenBack, Shape, Steps, Call
<1>4. ReadWell
  BY <1>2, <1>3, WrittenInOrder DEF ReadWell, AllMade, OutOfOrder, InSequence
<1>5. ~Dead
  BY <1>2, AllAnswered DEF Dead
<1>6. meant[i] = <<"dev", i>>
  BY <1>1, <1>3, <1>4, <1>5 DEF RmwInv
<1>7. Sure(i)
  BY <1>2, <1>3, WrittenInOrder, CarriedSettles DEF Sure, AllMade, OldRequestWins
<1>8. PICK k \in DOMAIN Steps : Settling(i, k)
  BY <1>2, CarriedSettles
<1>9. k <= At /\ todo = <<>> /\ Underway
  BY <1>1, <1>2, AllRun
<1>10. Covered(i, meant[i])
  BY <1>3, <1>7, <1>8, <1>9 DEF CoverInv, SentInv, Goal
<1>. QED BY <1>2, <1>6, <1>10, SettledCovered

LEMMA RmwInit == Init => RmwInv
  BY DEF Init, RmwInv

\* Settings that a program reads with one call and writes back with another are the
\* same on the device afterwards, whatever is lost, refused, sent again or answered
\* late in either call.
THEOREM WrittenAsRead == Spec /\ []FunctionsInOrder => []ReadModifyWrite
<1>1. RunInv /\ LiveInv /\ ValueInv /\ CoverInv /\ ReadingInv /\ RmwInv /\ FunctionsInOrder /\ [Next]_vars
      => RunInv' /\ LiveInv' /\ ValueInv' /\ CoverInv' /\ ReadingInv' /\ RmwInv'
  BY RunStep, LiveInvStep, ValueInvStep, CoverInvStep, ReadingStep, RmwInvStep DEF ReadingInv
<1>. QED BY RunInit, CoverInit, ReadingInit, RmwInit, <1>1, RmwInvDone, PTL DEF Spec
=============================================================================
