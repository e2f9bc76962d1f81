----------------------------- MODULE Disbursement -----------------------------
(***************************************************************************)
(* LoanDisbursementService.start and the rows, indexes and services it     *)
(* works on.  A call is one HTTP request: between two of its awaits other  *)
(* calls run, and it may die at any of them (exception, timeout, process   *)
(* crash); the client may then send the same request again.                *)
(*                                                                         *)
(* A disbursement row is named by its idempotency key, which the database  *)
(* keeps unique.  The request's destination and amount are folded into the *)
(* loan: a key reused with another payload is a key reused for another     *)
(* loan.                                                                   *)
(***************************************************************************)
EXTENDS Naturals, FiniteSets

CONSTANTS
    Loans,      \* approved and contracted loans
    Keys,       \* idempotency keys of disbursement requests
    Calls,      \* requests the service handles at the same time
    NoLoan,     \* loan of a key that has no row, and of an idle call
    NoKey,      \* key of an idle call
    MaxAborts   \* bound: how many calls die before they end

ASSUME NullAssumption == NoLoan \notin Loans /\ NoKey \notin Keys
ASSUME MaxAbortsAssumption == MaxAborts \in Nat

VARIABLES
    loanStatus,   \* loans.status
    rowLoan,      \* loan_disbursements.loan_id, NoLoan while the key has no row
    rowStatus,    \* loan_disbursements.status
    rowLedgerTx,  \* loan_disbursements.ledger_transaction_id is set
    outbox,       \* loans whose "loan:<id>:disbursed" event is in the outbox
    approved,     \* approval service: consumed approvals
    posted,       \* ledger: disbursement postings
    reversed,     \* ledger: reversals of those postings
    payout,       \* payment service: state of the payout of each key
    call,         \* the calls in progress
    aborts        \* calls that died so far

db       == <<loanStatus, rowLoan, rowStatus, rowLedgerTx, outbox>>
services == <<approved, posted, reversed, payout>>
vars     == <<db, services, call, aborts>>

RowStatus == {"NONE", "APPROVAL_PENDING", "LEDGER_POSTING", "PAYMENT_SUBMITTING",
              "PENDING", "SUCCEEDED", "COMPENSATED"}
Outcomes  == {"PENDING", "SUCCEEDED", "FAILED"}
Points    == {"idle", "source", "insert", "approve", "recordApproval", "post",
              "recordPosting", "submit", "finish", "reverse", "compensate"}

Idle == [at |-> "idle", key |-> NoKey, loan |-> NoLoan, outcome |-> "PENDING"]

TypeOK ==
    /\ loanStatus \in [Loans -> {"APPROVED", "DISBURSED"}]
    /\ rowLoan \in [Keys -> Loans \cup {NoLoan}]
    /\ rowStatus \in [Keys -> RowStatus]
    /\ rowLedgerTx \in [Keys -> BOOLEAN]
    /\ outbox \subseteq Loans
    /\ approved \subseteq Keys /\ posted \subseteq Keys /\ reversed \subseteq Keys
    /\ payout \in [Keys -> Outcomes \cup {"NONE"}]
    /\ call \in [Calls -> [at : Points, key : Keys \cup {NoKey},
                           loan : Loans \cup {NoLoan}, outcome : Outcomes]]
    /\ aborts \in 0..MaxAborts

Init ==
    /\ loanStatus = [l \in Loans |-> "APPROVED"]
    /\ rowLoan = [k \in Keys |-> NoLoan]
    /\ rowStatus = [k \in Keys |-> "NONE"]
    /\ rowLedgerTx = [k \in Keys |-> FALSE]
    /\ outbox = {} /\ approved = {} /\ posted = {} /\ reversed = {}
    /\ payout = [k \in Keys |-> "NONE"]
    /\ call = [c \in Calls |-> Idle]
    /\ aborts = 0

-----------------------------------------------------------------------------
(* The database: unique partial indexes of loan_disbursements. *)

\* Mutant: the in-flight index forgets the payouts that wait for the payment rail.
InFlightBeforeAnswer == {"APPROVAL_PENDING", "LEDGER_POSTING", "PAYMENT_SUBMITTING"}

InFlight == {"APPROVAL_PENDING", "LEDGER_POSTING", "PAYMENT_SUBMITTING", "PENDING"}

\* uq_inflight_disbursement_per_loan: no other row of loan l is in flight.
NoOtherInFlight(k, l) ==
    \A j \in Keys \ {k} : rowLoan[j] = l => rowStatus[j] \notin InFlight

\* uq_successful_disbursement_per_loan: no other row of loan l has succeeded.
NoOtherSuccess(k, l) ==
    \A j \in Keys \ {k} : rowLoan[j] = l => rowStatus[j] # "SUCCEEDED"

\* Row k of loan l may be given status s.
IndexesAllow(k, l, s) ==
    /\ s \in InFlight => NoOtherInFlight(k, l)
    /\ s = "SUCCEEDED" => NoOtherSuccess(k, l)

-----------------------------------------------------------------------------
(* A call. *)

At(c, point)  == call[c].at = point
Key(c)        == call[c].key
GoTo(c, point) == call' = [call EXCEPT ![c].at = point]
End(c)        == call' = [call EXCEPT ![c] = Idle]

\* Mutants: a resumed row skips its posting; a final row is taken up again; a row
\* whose payment was being submitted is not taken up.
ResumePointSkipsPosting(k) ==
    CASE rowStatus[k] = "APPROVAL_PENDING" -> "approve"
      [] rowStatus[k] \in {"LEDGER_POSTING", "PAYMENT_SUBMITTING"} -> "submit"
      [] OTHER -> "idle"
ResumePointReposts(k) ==
    IF rowStatus[k] = "APPROVAL_PENDING" THEN "approve" ELSE "post"
ResumePointLeavesSubmitting(k) ==
    CASE rowStatus[k] = "APPROVAL_PENDING" -> "approve"
      [] rowStatus[k] = "LEDGER_POSTING" -> "post"
      [] OTHER -> "idle"

\* Where start() resumes a row it found under the key; "idle" when it returns at once.
ResumePoint(k) ==
    CASE rowStatus[k] = "APPROVAL_PENDING" -> "approve"
      [] rowStatus[k] = "LEDGER_POSTING" -> "post"
      [] rowStatus[k] = "PAYMENT_SUBMITTING" -> IF rowLedgerTx[k] THEN "submit" ELSE "post"
      [] OTHER -> "idle"

\* A request arrives and looks its key up.  A key of another loan is refused and
\* a row past the saga's own steps is answered as it stands: both change nothing.
Lookup(c, k, l) ==
    /\ At(c, "idle")
    /\ rowLoan[k] \in {NoLoan, l}
    /\ LET point == IF rowLoan[k] = NoLoan THEN "source" ELSE ResumePoint(k) IN
          /\ point # "idle"
          /\ call' = [call EXCEPT ![c].at = point, ![c].key = k, ![c].loan = l]
    /\ UNCHANGED <<db, services, aborts>>

\* No row: the loan is read, in a transaction of its own, and must be APPROVED.
ReadSource(c) ==
    /\ At(c, "source")
    /\ IF loanStatus[call[c].loan] = "APPROVED" THEN GoTo(c, "insert") ELSE End(c)
    /\ UNCHANGED <<db, services, aborts>>

CanInsert(k, l) == rowLoan[k] = NoLoan /\ IndexesAllow(k, l, "APPROVAL_PENDING")

\* The row is inserted, in another transaction, unless a unique index refuses it.
InsertRow(c) ==
    LET k == Key(c)  l == call[c].loan IN
    /\ At(c, "insert")
    /\ IF CanInsert(k, l)
       THEN /\ rowLoan' = [rowLoan EXCEPT ![k] = l]
            /\ rowStatus' = [rowStatus EXCEPT ![k] = "APPROVAL_PENDING"]
            /\ GoTo(c, "approve")
       ELSE End(c) /\ UNCHANGED <<rowLoan, rowStatus>>
    /\ UNCHANGED <<loanStatus, rowLedgerTx, outbox, services, aborts>>

\* The approval service consumes the approval bound to the row.
ConsumeApproval(c) ==
    /\ At(c, "approve")
    /\ approved' = approved \cup {Key(c)}
    /\ GoTo(c, "recordApproval")
    /\ UNCHANGED <<db, posted, reversed, payout, aborts>>

\* The row moves only if still APPROVAL_PENDING; the call goes on either way.
RecordApproval(c) ==
    /\ At(c, "recordApproval")
    /\ rowStatus' = IF rowStatus[Key(c)] = "APPROVAL_PENDING"
                    THEN [rowStatus EXCEPT ![Key(c)] = "LEDGER_POSTING"] ELSE rowStatus
    /\ GoTo(c, "post")
    /\ UNCHANGED <<loanStatus, rowLoan, rowLedgerTx, outbox, services, aborts>>

\* The ledger posts once per idempotency key.
PostLedger(c) ==
    /\ At(c, "post")
    /\ posted' = posted \cup {Key(c)}
    /\ GoTo(c, "recordPosting")
    /\ UNCHANGED <<db, approved, reversed, payout, aborts>>

\* Written whatever the row's status is by now, if the indexes let it.
RecordPosting(c) ==
    LET k == Key(c) IN
    /\ At(c, "recordPosting")
    /\ IF IndexesAllow(k, rowLoan[k], "PAYMENT_SUBMITTING")
       THEN /\ rowStatus' = [rowStatus EXCEPT ![k] = "PAYMENT_SUBMITTING"]
            /\ rowLedgerTx' = [rowLedgerTx EXCEPT ![k] = TRUE]
            /\ GoTo(c, "submit")
       ELSE End(c) /\ UNCHANGED <<rowStatus, rowLedgerTx>>
    /\ UNCHANGED <<loanStatus, rowLoan, outbox, services, aborts>>

\* Mutant: only a success is good enough.
AfterAnswerImpatient(outcome) == IF outcome = "SUCCEEDED" THEN "finish" ELSE "reverse"

\* Where a call goes with the payment service's answer.
AfterAnswer(outcome) == IF outcome = "FAILED" THEN "reverse" ELSE "finish"

\* The payment service starts one payout per idempotency key and answers with
\* its present state; a status the gateway does not know counts as PENDING.
SubmitPayout(c) ==
    /\ At(c, "submit")
    /\ \E outcome \in IF payout[Key(c)] = "NONE" THEN Outcomes ELSE {payout[Key(c)]} :
          /\ payout' = [payout EXCEPT ![Key(c)] = outcome]
          /\ call' = [call EXCEPT ![c].at = AfterAnswer(outcome), ![c].outcome = outcome]
    /\ UNCHANGED <<db, approved, posted, reversed, aborts>>

\* The answer that makes the loan DISBURSED and writes its event.
Disburses(outcome) == outcome = "SUCCEEDED"

\* The final transaction: the row takes the answer and, on success, the loan is
\* DISBURSED and its event written; a unique index rolls all of it back.
CanFinish(k, outcome) ==
    /\ IndexesAllow(k, rowLoan[k], outcome)
    /\ Disburses(outcome) => rowLoan[k] \notin outbox

Finish(c) ==
    LET k == Key(c)  outcome == call[c].outcome  l == call[c].loan IN
    /\ At(c, "finish")
    /\ \/ /\ CanFinish(k, outcome)
          /\ rowStatus' = [rowStatus EXCEPT ![k] = outcome]
          /\ IF Disburses(outcome)
             THEN /\ loanStatus' = [loanStatus EXCEPT ![l] = "DISBURSED"]
                  /\ outbox' = outbox \cup {l}
             ELSE UNCHANGED <<loanStatus, outbox>>
       \/ /\ ~CanFinish(k, outcome)
          /\ UNCHANGED <<rowStatus, loanStatus, outbox>>
    /\ End(c)
    /\ UNCHANGED <<rowLoan, rowLedgerTx, services, aborts>>

\* A refused payout: the ledger reverses the posting, once per idempotency key.
ReverseLedger(c) ==
    /\ At(c, "reverse")
    /\ reversed' = reversed \cup {Key(c)}
    /\ GoTo(c, "compensate")
    /\ UNCHANGED <<db, approved, posted, payout, aborts>>

\* Written whatever the row's status is by now.
RecordCompensation(c) ==
    /\ At(c, "compensate")
    /\ rowStatus' = [rowStatus EXCEPT ![Key(c)] = "COMPENSATED"]
    /\ End(c)
    /\ UNCHANGED <<loanStatus, rowLoan, rowLedgerTx, outbox, services, aborts>>

\* A call dies at one of its awaits: nothing it held in memory survives.
Abort(c) ==
    /\ ~At(c, "idle")
    /\ aborts < MaxAborts
    /\ aborts' = aborts + 1
    /\ End(c)
    /\ UNCHANGED <<db, services>>

\* The payment service learns the end of a payout it had answered PENDING.
PayoutSettles(k) ==
    /\ payout[k] = "PENDING"
    /\ \E outcome \in {"SUCCEEDED", "FAILED"} : payout' = [payout EXCEPT ![k] = outcome]
    /\ UNCHANGED <<db, approved, posted, reversed, call, aborts>>

Step(c) ==
    \/ ReadSource(c) \/ InsertRow(c) \/ ConsumeApproval(c) \/ RecordApproval(c)
    \/ PostLedger(c) \/ RecordPosting(c) \/ SubmitPayout(c) \/ Finish(c)
    \/ ReverseLedger(c) \/ RecordCompensation(c)

Next ==
    \/ \E c \in Calls, k \in Keys, l \in Loans : Lookup(c, k, l)
    \/ \E c \in Calls : Step(c) \/ Abort(c)
    \/ \E k \in Keys : PayoutSettles(k)

Spec == Init /\ [][Next]_vars

\* The event loop runs what is ready, and every call to a service has a timeout,
\* so a call under way goes on or dies; the client resends a request until answered.
Fairness ==
    /\ \A c \in Calls : WF_vars(Step(c))
    /\ \A k \in Keys, l \in Loans : SF_vars(\E c \in Calls : Lookup(c, k, l))

-----------------------------------------------------------------------------
(* Properties. *)

\* The funds of a disbursement, as the outside services see them.
Funds == [k \in Keys |->
    CASE k \in reversed -> "unwound"
      [] k \notin reversed /\ payout[k] = "FAILED" -> "refused"
      [] k \notin reversed /\ payout[k] = "SUCCEEDED" -> "paid"
      [] k \notin reversed /\ payout[k] = "PENDING" -> "sent"
      [] k \notin reversed /\ payout[k] = "NONE" /\ k \in posted -> "booked"
      [] k \notin reversed /\ payout[k] = "NONE" /\ k \notin posted /\ k \in approved -> "authorised"
      [] OTHER -> "untouched"]

Money == INSTANCE DisbursementMoney WITH funds <- Funds

\* Whatever calls overlap, die and are repeated, the money of each disbursement
\* is approved, booked, paid and unwound in order and at most once.
MoneyInOrder == Money!Spec

\* A DISBURSED loan is backed by a disbursement of that loan that was approved,
\* is booked and not reversed, and whose payout succeeded, even when a late call
\* has meanwhile overwritten the row's status.
DisbursedIsPaid ==
    \A l \in Loans : loanStatus[l] = "DISBURSED" =>
        \E k \in Keys : rowLoan[k] = l /\ k \in posted \ reversed /\ payout[k] = "SUCCEEDED"

\* What a row in a final status tells an operator is true of the other systems:
\* SUCCEEDED means paid, and the loan DISBURSED and announced; COMPENSATED means
\* refused and reversed.
FinalRowsAreTrue ==
    \A k \in Keys :
        /\ rowStatus[k] = "SUCCEEDED" =>
              /\ payout[k] = "SUCCEEDED"
              /\ loanStatus[rowLoan[k]] = "DISBURSED" /\ rowLoan[k] \in outbox
        /\ rowStatus[k] = "COMPENSATED" => payout[k] = "FAILED" /\ k \in reversed

\* Whatever calls overlap and die, the loan's status and a final row say what happened.
StatusesAreTrue == DisbursedIsPaid /\ FinalRowsAreTrue

\* No loan is paid out, or left on its way to being paid out, by two disbursements:
\* what the comment on the insert expects of the in-flight index, which "rejects a
\* concurrent disbursement for the loan".
OnePayoutPerLoan ==
    \A j, k \in Keys : j # k /\ rowLoan[j] = rowLoan[k] =>
        ~(payout[j] \in {"PENDING", "SUCCEEDED"} /\ payout[k] \in {"PENDING", "SUCCEEDED"})
================================================================================
