---------------------------- MODULE MCDisbursement ----------------------------
(***************************************************************************)
(* An instance of Disbursement for TLC, with a history variable: no two    *)
(* calls have overlapped so far.  What the saga promises only then is      *)
(* stated here.                                                            *)
(***************************************************************************)
EXTENDS Disbursement

VARIABLE alone  \* at no time so far were two calls in progress

\* At most one call is in progress.
NoOverlap == \A c, d \in Calls : ~At(c, "idle") /\ ~At(d, "idle") => c = d

MCVars == <<vars, alone>>
MCInit == Init /\ alone = TRUE
MCNext == Next /\ alone' = (alone /\ NoOverlap')
MCSpec == MCInit /\ [][MCNext]_MCVars /\ Fairness

\* Disbursements that do not overlap never pay a loan out twice: the in-flight
\* index and the loan's status, which a second one reads, are then enough.
OnePayoutUnlessOverlapped == alone => OnePayoutPerLoan

\* Unless calls overlap, a finished row stays as it is: no resent request takes a
\* final disbursement up again.
FinalUnlessOverlapped ==
    [][alone' => \A k \in Keys : rowStatus[k] \in {"SUCCEEDED", "COMPENSATED"} =>
           rowStatus'[k] = rowStatus[k]]_MCVars

\* A disbursement whose client keeps resending it gets an answer from the payment
\* service recorded, however many of its calls died, unless calls overlap: then a
\* second success of the loan may be refused by the index each time.
RetryConverges ==
    \A k \in Keys : rowStatus[k] \in {"APPROVAL_PENDING", "LEDGER_POSTING", "PAYMENT_SUBMITTING"} ~>
        rowStatus[k] \in {"PENDING", "SUCCEEDED", "COMPENSATED"} \/ ~alone
===============================================================================
