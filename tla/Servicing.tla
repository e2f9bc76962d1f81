------------------------------- MODULE Servicing -------------------------------
(***************************************************************************)
(* LoanServicingService on one loan: interest accruals, penalties and      *)
(* delinquency assessments.  Each reads the loan and what else it needs in *)
(* transactions of their own and writes its result in a later one; an      *)
(* accrual or a penalty is recorded, posted to the ledger and completed,   *)
(* and may be sent again in between.  Repayments and reversals (module     *)
(* Repayment) run at the same time and appear by their effect.             *)
(*                                                                         *)
(* A posting is an accrual or a penalty, named by its idempotency key;     *)
(* hashes, events of postings and the amounts of accruals are left out.    *)
(* Dates are numbered days.  Penalties are of the FIXED kind.              *)
(***************************************************************************)
EXTENDS AllocationRule, FiniteSets

CONSTANTS
    Installments, \* how many the schedule has, which is split into one at least
    DueDate,      \* loan_installments.due_date of each
    Scheduled,    \* what each owes without penalties
    Dates,        \* days on which delinquency is assessed
    Periods,      \* days that end an accrual or penalty period
    Grace,        \* late_payment_grace_period_days
    Buckets,      \* minimum_dpd of the delinquency buckets
    Fixed, Cap,   \* penalty_fixed_amount and penalty_cap_amount
    Postings,     \* accruals and penalties
    NoPosting,    \* posting of a call that has none
    Calls,        \* requests the service handles at the same time
    MaxAborts     \* bound: how many calls die before they end

Installment == 1..Installments

ASSUME ScheduleAssumption ==
    /\ Installments \in Nat \ {0}
    /\ DueDate \in [Installment -> Nat] /\ Scheduled \in [Installment -> Nat \ {0}]
    /\ Dates \subseteq Nat /\ Periods \subseteq Nat
ASSUME PolicyAssumption ==
    /\ Grace \in Nat /\ Fixed \in Nat /\ Cap \in Nat
    /\ Buckets \subseteq Nat /\ IsFiniteSet(Buckets) /\ 0 \in Buckets
ASSUME PostingsAssumption == IsFiniteSet(Postings) /\ NoPosting \notin Postings
ASSUME MaxAbortsAssumption == MaxAborts \in Nat

VARIABLES
    loanStatus,     \* loans.status
    daysPastDue,    \* loans.days_past_due
    bucket,         \* loans.delinquency_bucket, counted from the first; 0 before there is one
    accruedThrough, \* loans.accrued_through_date, 0 before there is one
    scheduled,      \* loans.outstanding_principal, _interest and _fees
    penalties,      \* loans.outstanding_penalties
    paid,           \* installments whose scheduled dues are paid
    penaltyDue,     \* loan_installments.penalty_due
    penaltyPaid,    \* loan_installments.penalty_paid
    row,            \* loan_interest_accruals and loan_penalty_assessments
    assessed,       \* dates of loan_delinquency_assessments
    announced,      \* bucket of the latest loan.delinquency-changed event
    posted,         \* ledger: the postings it has made
    call,           \* the calls in progress
    aborts          \* calls that died so far

loan     == <<loanStatus, daysPastDue, bucket, accruedThrough, scheduled, penalties>>
schedule == <<paid, penaltyDue, penaltyPaid>>
vars     == <<loan, schedule, row, assessed, announced, posted, call, aborts>>

Serviceable == {"DISBURSED", "ACTIVE", "OVERDUE"}
Points      == {"idle", "installment", "sum", "insert", "post", "complete", "oldest", "assess"}
Targets     == [kind : {"accrual", "penalty", "delinquency"}, installment : 0..Installments,
                date : Nat, amount : Nat]
NoTarget    == [kind |-> "delinquency", installment |-> 0, date |-> 0, amount |-> 0]
NoRow       == [status |-> "NONE", target |-> NoTarget]
Idle        == [at |-> "idle", posting |-> NoPosting, target |-> NoTarget, bucket |-> 0]

TypeOK ==
    /\ loanStatus \in Serviceable \cup {"SETTLED"}
    /\ daysPastDue \in Nat /\ bucket \in Nat /\ accruedThrough \in Nat
    /\ scheduled \in Nat /\ penalties \in Nat
    /\ paid \subseteq Installment
    /\ penaltyDue \in [Installment -> Nat] /\ penaltyPaid \in [Installment -> Nat]
    /\ row \in [Postings -> [status : {"NONE", "POSTING", "POSTED"}, target : Targets]]
    /\ assessed \subseteq Dates /\ announced \in Nat
    /\ posted \subseteq Postings
    /\ call \in [Calls -> [at : Points, posting : Postings \cup {NoPosting},
                           target : Targets, bucket : Nat]]
    /\ aborts \in 0..MaxAborts

\* A loan just disbursed.
Init ==
    /\ loanStatus = "DISBURSED"
    /\ daysPastDue = 0 /\ bucket = 0 /\ accruedThrough = 0
    /\ scheduled = Total(Scheduled, Installment) /\ penalties = 0
    /\ paid = {}
    /\ penaltyDue = [i \in Installment |-> 0] /\ penaltyPaid = [i \in Installment |-> 0]
    /\ row = [k \in Postings |-> NoRow]
    /\ assessed = {} /\ announced = 0 /\ posted = {}
    /\ call = [c \in Calls |-> Idle]
    /\ aborts = 0

-----------------------------------------------------------------------------
At(c, point)   == call[c].at = point
GoTo(c, point) == call' = [call EXCEPT ![c].at = point]
End(c)         == call' = [call EXCEPT ![c] = Idle]
Begin(c, point, k, target, b) ==
    call' = [call EXCEPT ![c] = [at |-> point, posting |-> k, target |-> target, bucket |-> b]]
Found(c, point, amount) ==
    Begin(c, point, call[c].posting, [call[c].target EXCEPT !.amount = amount], call[c].bucket)

\* calculateDaysPastDue of something unpaid.
DaysPastDue(date, due) == IF date > due + Grace THEN date - due - Grace ELSE 0

(* Accruals and penalties. *)

Target(kind, i, date) == [kind |-> kind, installment |-> i, date |-> date, amount |-> 0]

\* How a new one goes on: an accrual's amount is known from the loan that was read.
FirstPoint(kind) == IF kind = "accrual" THEN "insert" ELSE "installment"

\* A new accrual or penalty: the key is looked up, and the loan must be serviceable.
Start(c, k, kind, i, date) ==
    /\ At(c, "idle") /\ row[k].status = "NONE" /\ loanStatus \in Serviceable
    /\ Begin(c, FirstPoint(kind), k, Target(kind, i, date), 0)
    /\ UNCHANGED <<loan, schedule, row, assessed, announced, posted, aborts>>

\* Mutant: a posting found recorded is taken for done.
RetryableNone == {}

\* RETRYABLE, the statuses from which a posting is made again.
Retryable == {"POSTING"}

\* The same command again: its row is found, and the call goes on from the ledger.
Resend(c, k) ==
    /\ At(c, "idle") /\ row[k].status \in Retryable
    /\ Begin(c, "post", k, row[k].target, 0)
    /\ UNCHANGED <<loan, schedule, row, assessed, announced, posted, aborts>>

\* Scheduled dues that are unpaid and past due make an installment eligible.
ReadInstallment(c) ==
    LET i == call[c].target.installment IN
    /\ At(c, "installment")
    /\ \/ i \notin paid /\ DaysPastDue(call[c].target.date, DueDate[i]) > 0 /\ GoTo(c, "sum")
       \/ (i \in paid \/ DaysPastDue(call[c].target.date, DueDate[i]) = 0) /\ End(c)
    /\ UNCHANGED <<loan, schedule, row, assessed, announced, posted, aborts>>

PenaltiesOf(i, statuses) == {k \in Postings :
    row[k].status \in statuses /\ row[k].target.kind = "penalty" /\ row[k].target.installment = i}
Amounts == [k \in Postings |-> row[k].target.amount]

\* Penalties of the installment up to now: those POSTED.
CumulativeBefore(i) == Total(Amounts, PenaltiesOf(i, {"POSTED"}))

\* Mutant: the cap bounds each penalty, not their sum.
CalculatePenaltyEach(cumulative) == IF Fixed < Cap THEN Fixed ELSE Cap

\* calculatePenalty: what the cap leaves of the amount.
CalculatePenalty(cumulative) ==
    LET left == IF Cap > cumulative THEN Cap - cumulative ELSE 0
    IN  IF Fixed < left THEN Fixed ELSE left

ReadCumulative(c) ==
    LET amount == CalculatePenalty(CumulativeBefore(call[c].target.installment)) IN
    /\ At(c, "sum")
    /\ \/ amount > 0 /\ Found(c, "insert", amount)
       \/ amount = 0 /\ End(c)
    /\ UNCHANGED <<loan, schedule, row, assessed, announced, posted, aborts>>

\* The unique keys: one accrual of a period, one penalty of an installment and period.
Recorded(t) == \E k \in Postings :
    /\ row[k].status # "NONE" /\ row[k].target.kind = t.kind /\ row[k].target.date = t.date
    /\ t.kind = "penalty" => row[k].target.installment = t.installment

Insert(c) ==
    LET k == call[c].posting  t == call[c].target IN
    /\ At(c, "insert")
    /\ \/ /\ row[k].status = "NONE" /\ ~Recorded(t)
          /\ row' = [row EXCEPT ![k] = [status |-> "POSTING", target |-> t]]
          /\ GoTo(c, "post")
       \/ (row[k].status # "NONE" \/ Recorded(t)) /\ End(c) /\ UNCHANGED row
    /\ UNCHANGED <<loan, schedule, assessed, announced, posted, aborts>>

\* The ledger posts once per key.
PostLedger(c) ==
    /\ At(c, "post")
    /\ posted' = posted \cup {call[c].posting}
    /\ GoTo(c, "complete")
    /\ UNCHANGED <<loan, schedule, row, assessed, announced, aborts>>

\* Mutant: a posting that has been completed meanwhile is completed again.
CompletesAnyway(k) == TRUE

\* The guarded update of the row's status.
Completes(k) == row[k].status \in {"POSTING"}

\* completeAccrual and completePenalty: an accrual is income only, a penalty is added
\* to the loan and the installment; neither looks at the loan's status.
Complete(c) ==
    LET k == call[c].posting  t == row[k].target IN
    /\ At(c, "complete")
    /\ \/ /\ Completes(k)
          /\ row' = [row EXCEPT ![k].status = "POSTED"]
          /\ \/ /\ t.kind = "accrual" /\ accruedThrough' = t.date
                /\ UNCHANGED <<penalties, penaltyDue>>
             \/ /\ t.kind = "penalty" /\ penalties' = penalties + t.amount
                /\ penaltyDue' = [penaltyDue EXCEPT ![t.installment] = @ + t.amount]
                /\ UNCHANGED accruedThrough
       \/ ~Completes(k) /\ UNCHANGED <<row, accruedThrough, penalties, penaltyDue>>
    /\ End(c)
    /\ UNCHANGED <<loanStatus, daysPastDue, bucket, scheduled, paid, penaltyPaid,
                   assessed, announced, posted, aborts>>

-----------------------------------------------------------------------------
(* Delinquency. *)

\* An assessment reads the loan and its bucket,
Assess(c, date) ==
    /\ At(c, "idle") /\ loanStatus \in Serviceable
    /\ Begin(c, "oldest", NoPosting, Target("delinquency", 0, date), bucket)
    /\ UNCHANGED <<loan, schedule, row, assessed, announced, posted, aborts>>

Unpaid == {i \in Installment : i \notin paid \/ penaltyPaid[i] < penaltyDue[i]}

\* then the oldest unpaid installment,
Oldest(date) ==
    IF Unpaid = {} THEN 0
    ELSE DaysPastDue(date, DueDate[CHOOSE i \in Unpaid : \A j \in Unpaid : DueDate[i] <= DueDate[j]])

ReadOldest(c) ==
    /\ At(c, "oldest")
    /\ Found(c, "assess", Oldest(call[c].target.date))
    /\ UNCHANGED <<loan, schedule, row, assessed, announced, posted, aborts>>

\* selectDelinquencyBucket.
Bucket(days) == Cardinality({m \in Buckets : m <= days})

\* Mutant: a loan that has caught up stays OVERDUE.
StatusNeverCured(days) == IF days > 0 THEN "OVERDUE" ELSE loanStatus

\* Past due is OVERDUE, cured is ACTIVE.
StatusOf(days) ==
    CASE days > 0                             -> "OVERDUE"
      [] days = 0 /\ loanStatus = "OVERDUE"   -> "ACTIVE"
      [] days = 0 /\ loanStatus # "OVERDUE"   -> loanStatus

\* Mutant: the first bucket of a loan is not announced.
AnnouncesLater(old, new) == old # 0 /\ old # new

\* A delinquency-changed event is due: the bucket differs from the one read.
Announces(old, new) == old # new

\* and records what it found, once per date, whatever has become of the loan.
WriteAssessment(c) ==
    LET date == call[c].target.date  days == call[c].target.amount IN
    /\ At(c, "assess")
    /\ \/ /\ date \notin assessed
          /\ assessed' = assessed \cup {date}
          /\ daysPastDue' = days /\ bucket' = Bucket(days)
          /\ loanStatus' = StatusOf(days)
          /\ announced' = IF Announces(call[c].bucket, Bucket(days)) THEN Bucket(days) ELSE announced
       \/ date \in assessed /\ UNCHANGED <<assessed, daysPastDue, bucket, loanStatus, announced>>
    /\ End(c)
    /\ UNCHANGED <<accruedThrough, scheduled, penalties, schedule, row, posted, aborts>>

\* A call dies at one of its awaits.
Abort(c) ==
    /\ ~At(c, "idle") /\ aborts < MaxAborts
    /\ aborts' = aborts + 1
    /\ End(c)
    /\ UNCHANGED <<loan, schedule, row, assessed, announced, posted>>

-----------------------------------------------------------------------------
(* Repayments and reversals, by their effect. *)

\* Nothing is outstanding.
Cleared(left, charges) == left + charges = 0

\* A repayment of all that is due on an installment.
Repay(i) ==
    /\ i \in Unpaid /\ loanStatus \in Serviceable
    /\ paid' = paid \cup {i}
    /\ penaltyPaid' = [penaltyPaid EXCEPT ![i] = penaltyDue[i]]
    /\ scheduled' = IF i \in paid THEN scheduled ELSE scheduled - Scheduled[i]
    /\ penalties' = penalties - (penaltyDue[i] - penaltyPaid[i])
    /\ loanStatus' = CASE Cleared(scheduled', penalties') -> "SETTLED"
                       [] ~Cleared(scheduled', penalties') /\ loanStatus = "DISBURSED" -> "ACTIVE"
                       [] OTHER -> loanStatus
    /\ UNCHANGED <<daysPastDue, bucket, accruedThrough, penaltyDue, row, assessed, announced,
                   posted, call, aborts>>

\* All that was paid on an installment is given back.
Reverse(i) ==
    /\ i \in paid
    /\ paid' = paid \ {i}
    /\ penaltyPaid' = [penaltyPaid EXCEPT ![i] = 0]
    /\ scheduled' = scheduled + Scheduled[i]
    /\ penalties' = penalties + penaltyPaid[i]
    /\ loanStatus' = IF daysPastDue > 0 THEN "OVERDUE" ELSE "ACTIVE"
    /\ UNCHANGED <<daysPastDue, bucket, accruedThrough, penaltyDue, row, assessed, announced,
                   posted, call, aborts>>

-----------------------------------------------------------------------------
Step(c) ==
    \/ ReadInstallment(c) \/ ReadCumulative(c) \/ Insert(c) \/ PostLedger(c) \/ Complete(c)
    \/ ReadOldest(c) \/ WriteAssessment(c)

Request(c) ==
    \/ \E k \in Postings : Resend(c, k)
    \/ \E k \in Postings, kind \in {"accrual", "penalty"}, i \in Installment, date \in Periods :
           Start(c, k, kind, i, date)
    \/ \E date \in Dates : Assess(c, date)

Next ==
    \/ \E c \in Calls : Step(c) \/ Request(c) \/ Abort(c)
    \/ \E i \in Installment : Repay(i) \/ Reverse(i)

Spec == Init /\ [][Next]_vars

\* What is ready runs, calls of the ledger time out, and clients resend a command.
Fairness ==
    /\ \A c \in Calls : WF_vars(Step(c))
    /\ \A k \in Postings : SF_vars(\E c \in Calls : Resend(c, k))

-----------------------------------------------------------------------------
(* Properties. *)

\* A loan that is not SETTLED is OVERDUE exactly while it shows days past due, in
\* whatever order assessments, repayments and reversals come, which all set its status.
OverdueIffPastDue == loanStatus # "SETTLED" => (loanStatus = "OVERDUE" <=> daysPastDue > 0)

\* A posting is completed only after the ledger has it, the ledger has none without a
\* record, and the loan has accrued through the end of an accrual that is POSTED.
PostedByTheBook ==
    /\ \A k \in Postings : row[k].status = "POSTED" => k \in posted
    /\ \A k \in posted : row[k].status # "NONE"
    /\ accruedThrough # 0 => \E k \in Postings :
           row[k].status = "POSTED" /\ row[k].target.kind = "accrual" /\ row[k].target.date = accruedThrough

\* The borrower owes the schedule and every POSTED penalty once, less what was paid:
\* accruals add nothing, and loan and installments tell the same.
OwedIsScheduleAndPenalties ==
    /\ scheduled = Total(Scheduled, Installment \ paid)
    /\ \A i \in Installment : penaltyDue[i] = CumulativeBefore(i) /\ penaltyPaid[i] <= penaltyDue[i]
    /\ penalties = Total([i \in Installment |-> penaltyDue[i] - penaltyPaid[i]], Installment)

\* Ledger, records, loan and installments tell one story of what is owed, however often
\* postings are sent again and in whatever order they are completed.
OwedByTheBook == TypeOK /\ PostedByTheBook /\ OwedIsScheduleAndPenalties

\* An accrual or penalty that was begun is posted when its client resends it,
\* whatever has become of the loan.
BegunIsPosted == \A k \in Postings : row[k].status = "POSTING" ~> row[k].status = "POSTED"
================================================================================
