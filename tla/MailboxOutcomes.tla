--------------------------- MODULE MailboxOutcomes ---------------------------
(***************************************************************************)
(* The mailbox keeps what RequestOutcomes promises: the outcome of a       *)
(* request is the status of the slot that holds it.                        *)
(***************************************************************************)
EXTENDS PoKeysLibAsync

OutcomeOf(s) ==
    IF s > created THEN "none"
    ELSE IF \E i \in Slots : trans[i].serial = s
         THEN trans[CHOOSE i \in Slots : trans[i].serial = s].status
         ELSE "gone"

Outcomes == [s \in 1..MaxRequests |-> OutcomeOf(s)]
WentOut  == {s \in 1..MaxRequests : sends[s] > 0}

Promise == INSTANCE RequestOutcomes WITH outcome <- Outcomes, sent <- WentOut

\* transaction_alloc() drops no open request, PK_TimeoutAndRetryCheck() reports
\* TIMEOUT only of one that was sent, and none is ever opened twice: in all
\* that the mailbox does a client sees what RequestOutcomes promises.
KeepsPromise == Promise!Spec
=============================================================================
