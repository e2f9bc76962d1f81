------------------------------- MODULE Repayment -------------------------------
(***************************************************************************)
(* LoanRepaymentService.allocateConfirmedPayment and                       *)
(* LoanRepaymentReversalService.reverse, on one loan and its installments. *)
(* Each is a transaction, a call to the ledger and a second transaction;   *)
(* other calls run between them, and a call may die between them and be    *)
(* sent again.                                                             *)
(*                                                                         *)
(* A slot is one component of one installment.  Slots are numbered in the  *)
(* order in which the loan's allocation policy pays them (module           *)
(* Allocation).  A repayment is named by its idempotency key and payment,  *)
(* which the database keeps unique.  Its allocation batch has its own      *)
(* status column, always written with the repayment's.                     *)
(***************************************************************************)
EXTENDS AllocationRule, FiniteSets

CONSTANTS
    Slots,      \* how many slots the schedule has
    Component,  \* the component each slot belongs to
    Due,        \* what each slot owes
    Repayments, \* confirmed payments
    Amount,     \* what each brings
    Calls,      \* requests the service handles at the same time
    NoRepayment, \* repayment of an idle call
    MaxAborts   \* bound: how many calls die before they end

Slot == 1..Slots
Components == {Component[s] : s \in Slot}

ASSUME SlotsAssumption ==
    /\ Slots \in Nat /\ Component \in [Slot -> STRING] /\ Due \in [Slot -> Nat]
    /\ \E s \in Slot : Due[s] > 0
ASSUME RepaymentsAssumption ==
    /\ IsFiniteSet(Repayments)
    /\ Amount \in [Repayments -> Nat \ {0}]
    /\ NoRepayment \notin Repayments
ASSUME MaxAbortsAssumption == MaxAborts \in Nat

VARIABLES
    loanStatus,  \* loans.status
    pastDue,     \* loans.days_past_due > 0
    outstanding, \* loans.outstanding_principal, _interest, _fees, _penalties
    totalRepaid, \* loans.total_repaid
    paid,        \* loan_installments.<component>_paid of each slot
    status,      \* loan_repayments.status
    line,        \* loan_repayment_allocation_lines: what a repayment gives each slot
    credit,      \* loan_unapplied_credits.status
    reversal,    \* loan_repayment_reversals.status
    events,      \* what is in the outbox
    posted,      \* ledger: repayments posted
    unposted,    \* ledger: repayment postings reversed
    call,        \* the calls in progress
    aborts       \* calls that died so far

loan    == <<loanStatus, pastDue, outstanding, totalRepaid, paid>>
rows    == <<status, line, credit, reversal, events>>
ledger  == <<posted, unposted>>
vars    == <<loan, rows, ledger, call, aborts>>

Repayable == {"DISBURSED", "ACTIVE", "OVERDUE"}
Points    == {"idle", "post", "apply", "unpost", "unapply"}
Idle      == [at |-> "idle", repayment |-> NoRepayment]
NoLines   == [s \in Slot |-> 0]

SlotsOf(c) == {s \in Slot : Component[s] = c}
Allocated(r) == Total(line[r], Slot)

TypeOK ==
    /\ loanStatus \in Repayable \cup {"SETTLED"}
    /\ pastDue \in BOOLEAN
    /\ outstanding \in [Components -> Nat]
    /\ totalRepaid \in Nat
    /\ paid \in [Slot -> Nat]
    /\ status \in [Repayments -> {"NONE", "LEDGER_POSTING", "SUCCESSFUL", "REVERSED"}]
    /\ line \in [Repayments -> [Slot -> Nat]]
    /\ credit \in [Repayments -> {"NONE", "AVAILABLE", "REFUNDED"}]
    /\ reversal \in [Repayments -> {"NONE", "PENDING", "POSTED"}]
    /\ events \subseteq Repayments \X {"allocated", "reversed"}
    /\ posted \subseteq Repayments /\ unposted \subseteq Repayments
    /\ call \in [Calls -> [at : Points, repayment : Repayments \cup {NoRepayment}]]
    /\ aborts \in 0..MaxAborts

\* A disbursed loan, not repaid yet; servicing may have found it late already.
Init ==
    /\ loanStatus \in Repayable
    /\ pastDue = (loanStatus = "OVERDUE")
    /\ outstanding = [c \in Components |-> Total(Due, SlotsOf(c))]
    /\ totalRepaid = 0
    /\ paid = NoLines
    /\ status = [r \in Repayments |-> "NONE"]
    /\ line = [r \in Repayments |-> NoLines]
    /\ credit = [r \in Repayments |-> "NONE"]
    /\ reversal = [r \in Repayments |-> "NONE"]
    /\ events = {} /\ posted = {} /\ unposted = {}
    /\ call = [c \in Calls |-> Idle]
    /\ aborts = 0

-----------------------------------------------------------------------------
At(c, point)      == call[c].at = point
Begin(c, point, r) == call' = [call EXCEPT ![c] = [at |-> point, repayment |-> r]]
GoTo(c, point)    == call' = [call EXCEPT ![c].at = point]
End(c)            == call' = [call EXCEPT ![c] = Idle]

(* Repayment. *)

Open(s) == Due[s] - paid[s]

\* Mutant: the allocation works from the dues and ignores what was paid on them.
AllocationOfDues(amount) == Greedy(Due, amount)

\* The lines of an amount, from what the slots still owe.
AllocationOf(amount) == Greedy([s \in Slot |-> Open(s)], amount)

\* First transaction: under the lock of the loan and its installments the payment
\* is allocated and recorded.  Nothing of the loan changes before the posting.
Prepare(c, r) ==
    /\ At(c, "idle") /\ status[r] = "NONE"
    /\ loanStatus \in Repayable
    /\ status' = [status EXCEPT ![r] = "LEDGER_POSTING"]
    /\ line' = [line EXCEPT ![r] = AllocationOf(Amount[r])]
    /\ Begin(c, "post", r)
    /\ UNCHANGED <<loan, credit, reversal, events, ledger, aborts>>

\* Mutant: a request that finds its payment recorded takes it for applied.
AnsweredWhenRecorded == {"LEDGER_POSTING", "SUCCESSFUL"}

\* Statuses of a recorded payment for which a request is answered at once.
Answered == {"SUCCESSFUL"}

\* The same payment again: its record is found, and the call goes on with it.
Replay(c, r) ==
    /\ At(c, "idle") /\ status[r] \notin Answered \cup {"NONE"}
    /\ Begin(c, "post", r)
    /\ UNCHANGED <<loan, rows, ledger, aborts>>

\* The ledger posts once per idempotency key.
PostLedger(c) ==
    /\ At(c, "post")
    /\ posted' = posted \cup {call[c].repayment}
    /\ GoTo(c, "apply")
    /\ UNCHANGED <<loan, rows, unposted, aborts>>

\* Mutant: a component's total is its last line instead of their sum.
ComponentTotalsLastLine(r) ==
    [c \in Components |->
        IF \E s \in SlotsOf(c) : line[r][s] > 0
        THEN line[r][CHOOSE s \in SlotsOf(c) : line[r][s] > 0
                        /\ \A t \in SlotsOf(c) : t > s => line[r][t] = 0]
        ELSE 0]

\* What r pays of each component.
ComponentTotals(r) == [c \in Components |-> Total(line[r], SlotsOf(c))]

\* The installments and the loan still have room for the lines of r: the trigger
\* on installments and the guard of the loan's update.
Fits(r) ==
    /\ \A s \in Slot : paid[s] + line[r][s] <= Due[s]
    /\ \A c \in Components : outstanding[c] >= ComponentTotals(r)[c]

\* Mutant: a repayment is applied again whatever has become of it.
CanApplyAnything(r) == Fits(r)

\* The second transaction commits: the row of a REVERSED repayment is immutable.
CanApply(r) == status[r] = "LEDGER_POSTING" /\ Fits(r)

\* The loan's status once the balances are down to left.
StatusAfter(left) ==
    CASE \A c \in Components : left[c] = 0 -> "SETTLED"
      [] (\E c \in Components : left[c] # 0) /\ loanStatus = "DISBURSED" -> "ACTIVE"
      [] OTHER -> loanStatus

\* Second transaction: the recorded lines are paid to installments and loan.  One
\* that finds the repayment SUCCESSFUL changes nothing; one that fails, neither.
Apply(c) ==
    LET r == call[c].repayment
        left == [x \in Components |-> outstanding[x] - ComponentTotals(r)[x]] IN
    /\ At(c, "apply")
    /\ \/ /\ status[r] # "SUCCESSFUL" /\ CanApply(r)
          /\ paid' = [s \in Slot |-> paid[s] + line[r][s]]
          /\ outstanding' = left
          /\ totalRepaid' = totalRepaid + Allocated(r)
          /\ loanStatus' = StatusAfter(left)
          /\ credit' = IF Amount[r] > Allocated(r)
                       THEN [credit EXCEPT ![r] = "AVAILABLE"] ELSE credit
          /\ status' = [status EXCEPT ![r] = "SUCCESSFUL"]
          /\ events' = events \cup {<<r, "allocated">>}
       \/ /\ status[r] = "SUCCESSFUL" \/ ~CanApply(r)
          /\ UNCHANGED <<paid, outstanding, totalRepaid, loanStatus, credit, status, events>>
    /\ End(c)
    /\ UNCHANGED <<pastDue, line, reversal, ledger, aborts>>

(* Reversal. *)

\* First transaction: a SUCCESSFUL repayment gets its one reversal.
StartReversal(c, r) ==
    /\ At(c, "idle") /\ reversal[r] = "NONE" /\ status[r] = "SUCCESSFUL"
    /\ reversal' = [reversal EXCEPT ![r] = "PENDING"]
    /\ Begin(c, "unpost", r)
    /\ UNCHANGED <<loan, status, line, credit, events, ledger, aborts>>

\* Statuses of a reversal for which a request is answered at once.
ReversalAnswered == {"POSTED"}

\* The same reversal again: its record is found, and the call goes on with it.
ReplayReversal(c, r) ==
    /\ At(c, "idle") /\ reversal[r] \notin ReversalAnswered \cup {"NONE"}
    /\ Begin(c, "unpost", r)
    /\ UNCHANGED <<loan, rows, ledger, aborts>>

\* The ledger reverses once per idempotency key.
PostReversal(c) ==
    /\ At(c, "unpost")
    /\ unposted' = unposted \cup {call[c].repayment}
    /\ GoTo(c, "unapply")
    /\ UNCHANGED <<loan, rows, posted, aborts>>

\* The guard of the installment updates.
CanUnapply(r) == \A s \in Slot : paid[s] >= line[r][s]

\* Mutant: a reversal seen PENDING before the ledger call is not looked at again.
StillPendingUnchecked(r) == TRUE

\* The reversal row, locked and read again in the second transaction.
StillPending(r) == reversal[r] # "POSTED"

\* Second transaction: what the repayment paid is taken back from installments and
\* loan, which is open again.
ApplyReversal(c) ==
    LET r == call[c].repayment IN
    /\ At(c, "unapply")
    /\ \/ /\ StillPending(r) /\ CanUnapply(r)
          /\ paid' = [s \in Slot |-> paid[s] - line[r][s]]
          /\ outstanding' = [x \in Components |-> outstanding[x] + ComponentTotals(r)[x]]
          /\ totalRepaid' = totalRepaid - Allocated(r)
          /\ loanStatus' = IF pastDue THEN "OVERDUE" ELSE "ACTIVE"
          /\ credit' = IF credit[r] = "AVAILABLE"
                       THEN [credit EXCEPT ![r] = "REFUNDED"] ELSE credit
          /\ status' = [status EXCEPT ![r] = "REVERSED"]
          /\ reversal' = [reversal EXCEPT ![r] = "POSTED"]
          /\ events' = events \cup {<<r, "reversed">>}
       \/ /\ ~StillPending(r) \/ ~CanUnapply(r)
          /\ UNCHANGED <<paid, outstanding, totalRepaid, loanStatus, credit, status, reversal, events>>
    /\ End(c)
    /\ UNCHANGED <<pastDue, line, ledger, aborts>>

\* A call dies between two of its steps.
Abort(c) ==
    /\ ~At(c, "idle")
    /\ aborts < MaxAborts
    /\ aborts' = aborts + 1
    /\ End(c)
    /\ UNCHANGED <<loan, rows, ledger>>

-----------------------------------------------------------------------------
Step(c) == PostLedger(c) \/ Apply(c) \/ PostReversal(c) \/ ApplyReversal(c)

Request(c, r) == Prepare(c, r) \/ Replay(c, r) \/ StartReversal(c, r) \/ ReplayReversal(c, r)

Next == \E c \in Calls : Step(c) \/ Abort(c) \/ \E r \in Repayments : Request(c, r)

Spec == Init /\ [][Next]_vars

\* What is ready runs, service calls time out, and clients resend what was begun.
FairSpec ==
    /\ Spec
    /\ \A c \in Calls : WF_vars(Step(c))
    /\ \A r \in Repayments : SF_vars(\E c \in Calls : Replay(c, r) \/ ReplayReversal(c, r))

-----------------------------------------------------------------------------
(* Properties. *)

Applied == {r \in Repayments : status[r] = "SUCCESSFUL"}

\* The loan's balances and its installments, which are written by different
\* statements, tell the same: each balance is what its slots still owe.
BooksAgree == \A c \in Components : outstanding[c] = Total([s \in Slot |-> Open(s)], SlotsOf(c))

\* What a slot shows as paid, and the loan as repaid, is exactly what the lines of
\* SUCCESSFUL repayments say, however their applications and reversals overlapped.
PaidByEvidence ==
    /\ \A s \in Slot : paid[s] = Total([r \in Repayments |-> line[r][s]], Applied)
    /\ totalRepaid = Total([r \in Repayments |-> Allocated(r)], Applied)

\* The loan is SETTLED exactly while nothing is outstanding on it.
SettledIffClear == loanStatus = "SETTLED" <=> \A c \in Components : outstanding[c] = 0

\* The service's records claim of the ledger only what is there: a SUCCESSFUL
\* repayment is posted, a REVERSED one is unposted too; and the ledger never
\* unposts a repayment that is neither REVERSED nor on its way to be.
EvidenceMatchesLedger ==
    /\ \A r \in Repayments : status[r] \in {"SUCCESSFUL", "REVERSED"} => r \in posted
    /\ \A r \in Repayments : status[r] = "REVERSED" <=> reversal[r] = "POSTED"
    /\ \A r \in Repayments : status[r] = "REVERSED" => r \in unposted
    /\ \A r \in unposted : r \in posted /\ reversal[r] # "NONE" /\ status[r] \in {"SUCCESSFUL", "REVERSED"}

\* A reversal whose ledger entry exists can always be written to the books: the
\* error "Installment balance cannot be reversed safely" never strands one.
ReversalNeverBlocked == \A r \in Applied : CanUnapply(r)

\* A payment is recorded with an allocation that fits the books, and stops fitting
\* only when another one is applied to a slot it had been allocated to.
BlockedOnlyByOvertaking ==
    [][\A r \in Repayments :
        /\ status'[r] = "LEDGER_POSTING" /\ ~Fits(r)'
        /\ status[r] = "NONE" \/ Fits(r)
        => \E q \in Applied' \ Applied, s \in Slot : line[q][s] > 0 /\ line[r][s] > 0]_vars

\* The loan's books, at every moment: balances, installments, lines and status, which
\* are separate tables written by separate statements, tell one story, and every
\* repayment in it can still be taken back.
BooksInOrder == TypeOK /\ BooksAgree /\ PaidByEvidence /\ SettledIffClear /\ ReversalNeverBlocked

Account == INSTANCE RepaymentAccount WITH
    Payments <- Repayments,
    Debt     <- Total(Due, Slot),
    owed     <- Total(outstanding, Components),
    taken    <- [r \in Repayments |-> IF r \in Applied THEN Allocated(r) ELSE 0],
    returned <- {r \in Repayments : status[r] = "REVERSED"},
    closed   <- loanStatus = "SETTLED"

\* The loan's account takes each payment at most once and within what is owed, and
\* gets back what a reversed one had settled.
AccountKept == Account!Spec

\* A payment the service has recorded is applied, unless other repayments leave no
\* room for it: crashes and repeated requests never lose one.
RecordedIsApplied ==
    \A r \in Repayments : status[r] = "LEDGER_POSTING" ~> status[r] = "SUCCESSFUL" \/ ~Fits(r)

\* A reversal that was begun ends with the books and the ledger both undone.
ReversalCompletes ==
    \A r \in Repayments : reversal[r] = "PENDING" ~> status[r] = "REVERSED"

\* Whatever was begun comes to its end, however often calls die on the way.
BegunEnds == RecordedIsApplied /\ ReversalCompletes
================================================================================
