------------------------------- MODULE WriteOff -------------------------------
(***************************************************************************)
(* LoanResolutionService: writeOff and postWriteOffRecovery on one loan    *)
(* that is late enough for its product's policy.  Both record what they    *)
(* will do, call the ledger and complete their record in a transaction of  *)
(* its own; calls overlap, die and are sent again.  Repayments and their   *)
(* reversals move the loan's balances meanwhile.                           *)
(*                                                                         *)
(* Components are numbered in the order in which a recovery pays them.     *)
(* Write-offs and recoveries are named by their idempotency keys.          *)
(***************************************************************************)
EXTENDS AllocationRule, FiniteSets

CONSTANTS
    Components, \* how many components a debt has
    Debt,       \* what the loan owes of each before any repayment
    WriteOffs,  \* write-off commands
    Recoveries, \* confirmed payments on a written-off loan
    Target,     \* the write-off each of them names
    Amount,     \* what each of them brings
    Calls,      \* requests the service handles at the same time
    NoRequest,  \* request of an idle call
    MaxAborts   \* bound: how many calls die before they end

Component == 1..Components

ASSUME DebtAssumption == Components \in Nat /\ Debt \in [Component -> Nat]
ASSUME RecoveriesAssumption ==
    /\ IsFiniteSet(Recoveries)
    /\ Target \in [Recoveries -> WriteOffs] /\ Amount \in [Recoveries -> Nat \ {0}]
ASSUME NamesAssumption == WriteOffs \cap Recoveries = {} /\ NoRequest \notin WriteOffs \cup Recoveries
ASSUME MaxAbortsAssumption == MaxAborts \in Nat

VARIABLES
    loanStatus,  \* loans.status
    outstanding, \* loans.outstanding_*
    status,      \* loan_write_offs.status
    amount,      \* loan_write_offs.<component>_amount
    recovered,   \* loan_write_offs.recovered_amount
    recovery,    \* loan_write_off_recoveries.status
    lines,       \* loan_write_off_recoveries.allocation_snapshot
    approved,    \* approval service: consumed approvals
    posted,      \* ledger: write-offs and recoveries posted
    call,        \* the calls in progress
    aborts       \* calls that died so far

loan     == <<loanStatus, outstanding>>
rows     == <<status, amount, recovered, recovery, lines>>
services == <<approved, posted>>
vars     == <<loan, rows, services, call, aborts>>

Points == {"idle", "approve", "recordApproval", "post", "complete", "postRecovery", "recordRecovery"}
Idle   == [at |-> "idle", request |-> NoRequest]
None   == [c \in Component |-> 0]

TypeOK ==
    /\ loanStatus \in {"ACTIVE", "OVERDUE", "SETTLED", "WRITTEN_OFF"}
    /\ outstanding \in [Component -> Nat]
    /\ status \in [WriteOffs -> {"NONE", "APPROVAL_PENDING", "LEDGER_POSTING", "COMPLETED"}]
    /\ amount \in [WriteOffs -> [Component -> Nat]]
    /\ recovered \in [WriteOffs -> Nat]
    /\ recovery \in [Recoveries -> {"NONE", "LEDGER_POSTING", "POSTED"}]
    /\ lines \in [Recoveries -> [Component -> Nat]]
    /\ approved \subseteq WriteOffs
    /\ posted \subseteq WriteOffs \cup Recoveries
    /\ call \in [Calls -> [at : Points, request : WriteOffs \cup Recoveries \cup {NoRequest}]]
    /\ aborts \in 0..MaxAborts

Init ==
    /\ loanStatus \in {"ACTIVE", "OVERDUE"}
    /\ outstanding = Debt
    /\ status = [w \in WriteOffs |-> "NONE"]
    /\ amount = [w \in WriteOffs |-> None]
    /\ recovered = [w \in WriteOffs |-> 0]
    /\ recovery = [r \in Recoveries |-> "NONE"]
    /\ lines = [r \in Recoveries |-> None]
    /\ approved = {} /\ posted = {}
    /\ call = [c \in Calls |-> Idle]
    /\ aborts = 0

-----------------------------------------------------------------------------
At(c, point)       == call[c].at = point
Request(c)         == call[c].request
Begin(c, point, q) == call' = [call EXCEPT ![c] = [at |-> point, request |-> q]]
GoTo(c, point)     == call' = [call EXCEPT ![c].at = point]
End(c)             == call' = [call EXCEPT ![c] = Idle]

(* Write-off. *)

\* First transaction: under the lock of the loan its balances are recorded.
Prepare(c, w) ==
    /\ At(c, "idle") /\ status[w] = "NONE"
    /\ loanStatus \in {"ACTIVE", "OVERDUE"} /\ Total(outstanding, Component) > 0
    /\ status' = [status EXCEPT ![w] = "APPROVAL_PENDING"]
    /\ amount' = [amount EXCEPT ![w] = outstanding]
    /\ Begin(c, "approve", w)
    /\ UNCHANGED <<loan, recovered, recovery, lines, services, aborts>>

\* Where a repeated command goes on: every step is taken again.
ResumePoint(w) == IF status[w] = "COMPLETED" THEN "idle" ELSE "approve"

\* The same command again.
Replay(c, w) ==
    /\ At(c, "idle") /\ status[w] # "NONE" /\ ResumePoint(w) # "idle"
    /\ Begin(c, ResumePoint(w), w)
    /\ UNCHANGED <<loan, rows, services, aborts>>

\* The approval service consumes the approval bound to the write-off.
ConsumeApproval(c) ==
    /\ At(c, "approve")
    /\ approved' = approved \cup {Request(c)}
    /\ GoTo(c, "recordApproval")
    /\ UNCHANGED <<loan, rows, posted, aborts>>

\* Mutant: a completed write-off is taken back to its ledger step.
OpenAlways(w) == TRUE

\* The row, locked and read again, is not COMPLETED yet.
Open(w) == status[w] # "COMPLETED"

\* The call goes on to the ledger either way.
RecordApproval(c) ==
    /\ At(c, "recordApproval")
    /\ status' = IF Open(Request(c)) THEN [status EXCEPT ![Request(c)] = "LEDGER_POSTING"] ELSE status
    /\ GoTo(c, "post")
    /\ UNCHANGED <<loan, amount, recovered, recovery, lines, services, aborts>>

\* The ledger posts once per idempotency key.
PostLedger(c) ==
    /\ At(c, "post")
    /\ posted' = posted \cup {Request(c)}
    /\ GoTo(c, "complete")
    /\ UNCHANGED <<loan, rows, approved, aborts>>

\* Mutant: the index does not exist.
NoOtherCompletedUnchecked(w) == TRUE

\* uq_completed_writeoff_loan: no other write-off of the loan is COMPLETED.
NoOtherCompleted(w) == \A v \in WriteOffs \ {w} : status[v] # "COMPLETED"

\* Last transaction: the row is COMPLETED and the loan WRITTEN_OFF, whatever it was.
Complete(c) ==
    LET w == Request(c) IN
    /\ At(c, "complete")
    /\ IF Open(w) /\ NoOtherCompleted(w)
       THEN /\ status' = [status EXCEPT ![w] = "COMPLETED"]
            /\ loanStatus' = "WRITTEN_OFF"
       ELSE UNCHANGED <<status, loanStatus>>
    /\ End(c)
    /\ UNCHANGED <<outstanding, amount, recovered, recovery, lines, services, aborts>>

(* Recovery. *)

\* Mutant: recoveries that have not reached the books yet are left out.
ReservedWhenPosted == {"POSTED"}

\* Recoveries that count against what was written off.
Reserved == {"LEDGER_POSTING", "POSTED"}

Collected(w, states, c) ==
    Total([r \in Recoveries |-> lines[r][c]], {r \in Recoveries : Target[r] = w /\ recovery[r] \in states})

\* What is left of each component of write-off w.
Remaining(w) == [c \in Component |-> amount[w][c] - Collected(w, Reserved, c)]

\* The lines of an amount paid on w.
LinesOf(w, paid) == Greedy(Remaining(w), paid)

\* First transaction: under the lock of the completed write-off the payment is
\* allocated to what is left, and refused when there is less.
PrepareRecovery(c, r) ==
    LET w == Target[r]  new == LinesOf(w, Amount[r]) IN
    /\ At(c, "idle") /\ recovery[r] = "NONE" /\ status[w] = "COMPLETED"
    /\ \A x \in Component : Remaining(w)[x] >= 0
    /\ Total(new, Component) = Amount[r]
    /\ recovery' = [recovery EXCEPT ![r] = "LEDGER_POSTING"]
    /\ lines' = [lines EXCEPT ![r] = new]
    /\ Begin(c, "postRecovery", r)
    /\ UNCHANGED <<loan, status, amount, recovered, services, aborts>>

\* Mutant: a repeated recovery is answered with its record.
ResumeRecoveryGivesUp(r) == "idle"

\* Where a repeated recovery goes on.
ResumeRecovery(r) == IF recovery[r] = "POSTED" THEN "idle" ELSE "postRecovery"

ReplayRecovery(c, r) ==
    /\ At(c, "idle") /\ recovery[r] # "NONE" /\ ResumeRecovery(r) # "idle"
    /\ Begin(c, ResumeRecovery(r), r)
    /\ UNCHANGED <<loan, rows, services, aborts>>

PostRecovery(c) ==
    /\ At(c, "postRecovery")
    /\ posted' = posted \cup {Request(c)}
    /\ GoTo(c, "recordRecovery")
    /\ UNCHANGED <<loan, rows, approved, aborts>>

PostedOn(w) == {r \in Recoveries : Target[r] = w /\ recovery[r] = "POSTED"}

\* The update of the write-off goes through: its own guard, and the trigger that
\* permits exactly the sum of the posted recoveries.
CanRecord(r) ==
    LET w == Target[r] IN
    /\ recovered[w] + Amount[r] <= Total(amount[w], Component)
    /\ recovered[w] + Amount[r] = Total(Amount, PostedOn(w) \cup {r})

\* Last transaction: the recovery is POSTED and counted on its write-off.
RecordRecovery(c) ==
    LET r == Request(c) IN
    /\ At(c, "recordRecovery")
    /\ IF recovery[r] # "POSTED" /\ CanRecord(r)
       THEN /\ recovery' = [recovery EXCEPT ![r] = "POSTED"]
            /\ recovered' = [recovered EXCEPT ![Target[r]] = @ + Amount[r]]
       ELSE UNCHANGED <<recovery, recovered>>
    /\ End(c)
    /\ UNCHANGED <<loan, status, amount, lines, services, aborts>>

\* A call dies between two of its steps.
Abort(c) ==
    /\ ~At(c, "idle")
    /\ aborts < MaxAborts
    /\ aborts' = aborts + 1
    /\ End(c)
    /\ UNCHANGED <<loan, rows, services>>

-----------------------------------------------------------------------------
(* The other services that work on the loan. *)

\* A repayment prepared earlier is applied; the loan's status is not looked at.
RepaymentApplied ==
    /\ \E c \in Component : outstanding[c] > 0 /\ outstanding' = [outstanding EXCEPT ![c] = 0]
    /\ loanStatus' = IF Total(outstanding', Component) = 0 THEN "SETTLED" ELSE loanStatus
    /\ UNCHANGED <<rows, services, call, aborts>>

\* A repayment is reversed and the loan opened again, whatever it was.
RepaymentReversed ==
    /\ \E c \in Component : outstanding[c] # Debt[c] /\ outstanding' = [outstanding EXCEPT ![c] = Debt[c]]
    /\ loanStatus' \in {"ACTIVE", "OVERDUE"}
    /\ UNCHANGED <<rows, services, call, aborts>>

-----------------------------------------------------------------------------
Step(c) ==
    \/ ConsumeApproval(c) \/ RecordApproval(c) \/ PostLedger(c) \/ Complete(c)
    \/ PostRecovery(c) \/ RecordRecovery(c)

Next ==
    \/ \E c \in Calls : Step(c) \/ Abort(c)
    \/ \E c \in Calls, w \in WriteOffs : Prepare(c, w) \/ Replay(c, w)
    \/ \E c \in Calls, r \in Recoveries : PrepareRecovery(c, r) \/ ReplayRecovery(c, r)
    \/ RepaymentApplied \/ RepaymentReversed

Spec == Init /\ [][Next]_vars

\* What is ready runs, service calls time out, and clients resend what was begun.
FairSpec ==
    /\ Spec
    /\ \A c \in Calls : WF_vars(Step(c))
    /\ \A w \in WriteOffs : SF_vars(\E c \in Calls : Replay(c, w))
    /\ \A r \in Recoveries : SF_vars(\E c \in Calls : ReplayRecovery(c, r))

-----------------------------------------------------------------------------
(* Properties. *)

\* No write-off reaches the ledger unapproved, and a COMPLETED one is in the ledger.
WrittenByTheBook ==
    /\ posted \cap WriteOffs \subseteq approved
    /\ \A w \in WriteOffs : status[w] = "COMPLETED" => w \in posted

\* Recoveries under way and posted together never take more of a component than was
\* written off of it, though each is allocated long before the books count it.
RecoveriesFit ==
    \A w \in WriteOffs, c \in Component : Collected(w, {"LEDGER_POSTING", "POSTED"}, c) <= amount[w][c]

\* What a write-off shows as recovered is the sum of its POSTED recoveries, each of
\* which is in the ledger.
RecoveredIsPosted ==
    \A w \in WriteOffs : recovered[w] = Total(Amount, PostedOn(w)) /\ PostedOn(w) \subseteq posted

\* A recovery the ledger has been asked to post can be counted: the error "Recovery
\* exceeds the written-off obligation" never comes after the posting.
RecoveryNeverBlocked == \A r \in Recoveries : recovery[r] = "LEDGER_POSTING" => CanRecord(r)

\* The books of a write-off: approved, in the ledger, and recovered within what was
\* written off, in step with the ledger and without a posting that cannot be counted.
BooksInOrder ==
    TypeOK /\ WrittenByTheBook /\ RecoveriesFit /\ RecoveredIsPosted /\ RecoveryNeverBlocked

\* The evidence of a write-off is fixed: its amounts from its preparation on, its
\* status once COMPLETED, however late a repeated command comes.
EvidenceIsFixed ==
    [][\A w \in WriteOffs :
        /\ status[w] # "NONE" => amount'[w] = amount[w]
        /\ status[w] = "COMPLETED" => status'[w] = "COMPLETED"]_<<status, amount>>

Written == {w \in WriteOffs : status[w] = "COMPLETED"}

WrittenDebt == INSTANCE WrittenOffDebt WITH
    Components <- Component,
    Limit      <- Total(Debt, Component),
    isWritten  <- Written # {},
    written    <- [c \in Component |-> Total([w \in WriteOffs |-> amount[w][c]], Written)],
    recovered  <- [c \in Component |-> Total([r \in Recoveries |-> lines[r][c]],
                                             {r \in Recoveries : recovery[r] = "POSTED"})]

\* The loan's debt is written off once and recovered within what was written off.
DebtWrittenOnce == WrittenDebt!Spec

\* A write-off that was begun ends COMPLETED, or another one of the loan does.
WriteOffConverges == \A w \in WriteOffs : status[w] # "NONE" ~> Written # {}

\* A recovery that was recorded is posted and counted.
RecoveryConverges == \A r \in Recoveries : recovery[r] = "LEDGER_POSTING" ~> recovery[r] = "POSTED"

\* What was begun ends, although its calls die and other ones run beside them.
BegunEnds == WriteOffConverges /\ RecoveryConverges
===============================================================================
