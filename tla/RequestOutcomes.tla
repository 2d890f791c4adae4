--------------------------- MODULE RequestOutcomes ---------------------------
(***************************************************************************)
(* What the mailbox promises its clients of every request, whatever the    *)
(* network does to it: it is open until it is answered, given up or        *)
(* failed, and its slot is not reused before; it is given up only after it *)
(* went out; it is never opened again, though a late answer still counts.  *)
(***************************************************************************)
EXTENDS Integers

CONSTANT MaxRequests  \* bound on the requests, numbered in the order they are made

VARIABLES
    outcome,  \* of each request: "none" before it is made, "gone" once its slot is reused
    sent      \* the requests that were transmitted

promiseVars == <<outcome, sent>>

Requests == 1..MaxRequests
Resolved == {"COMPLETED", "TIMEOUT", "FAILED"}

Init ==
    /\ outcome = [s \in Requests |-> "none"]
    /\ sent = {}

\* s is the next request to be made.
NextOne(s) == \A r \in Requests : outcome[r] = "none" <=> r >= s

\* Request s takes a free slot, or that of a request that is resolved.
TakesSlot(s, o) ==
    /\ NextOne(s)
    /\ \E old \in {{}} \cup {{r} : r \in Requests} :
        /\ \A r \in old : outcome[r] \in Resolved
        /\ outcome' = [r \in Requests |-> IF r = s THEN o
                                          ELSE IF r \in old THEN "gone" ELSE outcome[r]]

\* The request is transmitted, or another one in its place, or none.
Make(s) ==
    /\ TakesSlot(s, "PENDING")
    /\ \/ sent' = sent
       \/ \E r \in Requests : outcome'[r] \notin {"none", "gone"} /\ sent' = sent \cup {r}

\* The request is refused, its slot already cleared.
Refuse(s) == TakesSlot(s, "gone") /\ UNCHANGED sent

Retry(s) ==
    /\ outcome[s] = "PENDING"
    /\ sent' = sent \cup {s}
    /\ UNCHANGED outcome

Answer(s) ==
    /\ outcome[s] \in Resolved \cup {"PENDING"}
    /\ outcome' = [outcome EXCEPT ![s] = "COMPLETED"]
    /\ UNCHANGED sent

GiveUp(s) ==
    /\ outcome[s] = "PENDING" /\ s \in sent
    /\ outcome' = [outcome EXCEPT ![s] = "TIMEOUT"]
    /\ UNCHANGED sent

\* It cannot be repeated ...
Fail(s) ==
    /\ outcome[s] = "PENDING"
    /\ outcome' = [outcome EXCEPT ![s] = "FAILED"]
    /\ UNCHANGED sent

\* ... or there is no connection at all, and every open request fails.
FailAll ==
    /\ outcome' = [s \in Requests |-> IF outcome[s] = "PENDING" THEN "FAILED" ELSE outcome[s]]
    /\ UNCHANGED sent

Next ==
    \/ \E s \in Requests : Make(s) \/ Refuse(s) \/ Retry(s) \/ Answer(s) \/ GiveUp(s) \/ Fail(s)
    \/ FailAll

Spec == Init /\ [][Next]_promiseVars
=============================================================================
