------------------------------ MODULE Restructure ------------------------------
(***************************************************************************)
(* LoanRestructureService.restructure on one loan whose repayments, and    *)
(* reversals of them, are prepared and applied meanwhile.  A restructure   *)
(* reads the loan, records its command, has it approved, posts the         *)
(* difference of the debts and then replaces schedule and balances: each   *)
(* of these is a step of its own, and all are taken again when the command *)
(* is sent again.                                                          *)
(*                                                                         *)
(* A schedule is named by its version and has one installment, of two      *)
(* slots: its interest, fees and penalties (odd), then its principal       *)
(* (even).  Slots are numbered in the order in which repayments pay them.  *)
(***************************************************************************)
EXTENDS AllocationRule, Integers, FiniteSets

CONSTANTS
    Restructures, \* restructure commands, by idempotency key
    Terms,        \* what each proposes
    FirstDue,     \* what the two slots of the first schedule owe
    Repayments,   \* confirmed payments
    Amount,       \* what each of them brings
    Calls,        \* requests the service handles at the same time
    NoRestructure, \* command of an idle call
    MaxAborts     \* bound: how many calls die before they end

Version   == 1..(1 + Cardinality(Restructures))
Slot      == 1..(2 * Cardinality(Version))
Component == {"CHARGES", "PRINCIPAL"}
Balances  == [Component -> Nat]
NoBalances == [c \in Component |-> 0]

\* interest is what the new schedule charges in total; reduction, that the command
\* names the approval of a lower principal.
ASSUME TermsAssumption == Terms \in
    [Restructures -> [principal : Nat, interest : Nat, capitalized : Nat,
                      authorized : BOOLEAN, reduction : BOOLEAN]]
\* A schedule has principal to repay (the CHECK on loan_offer_schedules).
ASSUME FirstDueAssumption == FirstDue \in [1..2 -> Nat] /\ FirstDue[2] > 0
ASSUME RepaymentsAssumption == Amount \in [Repayments -> Nat \ {0}]
ASSUME NamesAssumption == NoRestructure \notin Restructures
ASSUME FiniteAssumption == IsFiniteSet(Restructures) /\ IsFiniteSet(Repayments)
ASSUME MaxAbortsAssumption == MaxAborts \in Nat

VARIABLES
    loanStatus,  \* loans.status; ACTIVE stands for OVERDUE as well
    outstanding, \* loans.outstanding_*
    schedules,   \* versions of loan_schedules
    active,      \* those with is_active
    due, paid,   \* loan_installments: what each slot owes, and has been paid
    shown,       \* versions whose installment is not CANCELLED
    status,      \* loan_restructures.status
    repayment,   \* progress of each repayment and its reversal
    line,        \* loan_repayment_allocation_lines
    approved,    \* approval service: what was consumed, and for which balances
    posted,      \* ledger: restructures posted
    receivable,  \* ledger: what the borrower owes
    call,        \* the calls in progress
    aborts       \* calls that died so far

book == <<outstanding, due, paid, shown>>
plan == <<schedules, active>>
pays == <<repayment, line>>
vars == <<loanStatus, book, plan, status, pays, approved, posted, receivable, call, aborts>>

Points == {"idle", "insert", "approve", "recordApproval", "post", "implement"}
Idle   == [at |-> "idle", restructure |-> NoRestructure, version |-> 1, balances |-> NoBalances]

VersionOf(s)   == (s + 1) \div 2
SlotsOf(c)     == {s \in Slot : (s % 2 = 0) = (c = "PRINCIPAL")}
Allocated(r)   == Total(line[r], Slot)
Debt(balances) == Total(balances, Component)

TypeOK ==
    /\ loanStatus \in {"ACTIVE", "SETTLED"}
    /\ outstanding \in Balances
    /\ schedules \subseteq Version /\ active \subseteq schedules /\ shown \subseteq schedules
    /\ due \in [Slot -> Nat] /\ paid \in [Slot -> Nat]
    /\ status \in [Restructures -> {"NONE", "APPROVAL_PENDING", "LEDGER_POSTING", "IMPLEMENTED"}]
    /\ repayment \in [Repayments ->
           {"NONE", "PREPARED", "POSTED", "SUCCESSFUL", "REVERSED"}]
    /\ line \in [Repayments -> [Slot -> Nat]]
    /\ approved \subseteq Restructures \X Balances
    /\ posted \subseteq Restructures
    /\ receivable \in Int
    /\ call \in [Calls -> [at : Points, restructure : Restructures \cup {NoRestructure},
                           version : Version, balances : Balances]]
    /\ aborts \in 0..MaxAborts

Init ==
    /\ loanStatus = "ACTIVE"
    /\ outstanding = [c \in Component |-> IF c = "CHARGES" THEN FirstDue[1] ELSE FirstDue[2]]
    /\ schedules = {1} /\ active = {1} /\ shown = {1}
    /\ due = [s \in Slot |-> IF s <= 2 THEN FirstDue[s] ELSE 0]
    /\ paid = [s \in Slot |-> 0]
    /\ status = [x \in Restructures |-> "NONE"]
    /\ repayment = [r \in Repayments |-> "NONE"]
    /\ line = [r \in Repayments |-> [s \in Slot |-> 0]]
    /\ approved = {} /\ posted = {}
    /\ receivable = Debt(outstanding)
    /\ call = [c \in Calls |-> Idle]
    /\ aborts = 0

-----------------------------------------------------------------------------
At(c, point)   == call[c].at = point
GoTo(c, point) == call' = [call EXCEPT ![c].at = point]
End(c)         == call' = [call EXCEPT ![c] = Idle]

(* Restructure. *)

\* validateRestructure: the proposed principal is the present one and what is
\* capitalized, or an approved reduction.
Valid(x, principal) ==
    LET t == Terms[x] IN
    /\ t.principal < principal => t.reduction
    /\ t.capitalized > 0 => t.authorized
    /\ t.principal >= principal => t.principal = principal + t.capitalized

NewDebt(x) == Terms[x].principal + Terms[x].interest

\* A call reads the loan and its active schedule, in a transaction of its own, and
\* checks the terms against it: also when the command has been carried out before.
Start(c, x) ==
    /\ At(c, "idle")
    /\ loanStatus = "ACTIVE" /\ active # {}
    /\ Valid(x, outstanding["PRINCIPAL"])
    /\ \E v \in active : call' = [call EXCEPT ![c] =
           [at |-> "insert", restructure |-> x, version |-> v, balances |-> outstanding]]
    /\ UNCHANGED <<loanStatus, book, plan, status, pays, approved, posted, receivable, aborts>>

InFlight == {"APPROVAL_PENDING", "LEDGER_POSTING"}

\* Mutant: a command found recorded is taken for carried out.
AnsweredWhenBegun == {"APPROVAL_PENDING", "LEDGER_POSTING", "IMPLEMENTED"}

\* Statuses for which a command is answered at once.
Answered == {"IMPLEMENTED"}

\* First transaction: the command is found or recorded, unless another one of the
\* loan is in flight (uq_active_restructure).
Insert(c) ==
    LET x == call[c].restructure IN
    /\ At(c, "insert")
    /\ \/ /\ status[x] = "NONE" /\ \A y \in Restructures : status[y] \notin InFlight
          /\ status' = [status EXCEPT ![x] = "APPROVAL_PENDING"] /\ GoTo(c, "approve")
       \/ status[x] \in InFlight \ Answered /\ GoTo(c, "approve") /\ UNCHANGED status
       \/ /\ \/ status[x] \in Answered
             \/ status[x] = "NONE" /\ \E y \in Restructures : status[y] \in InFlight
          /\ End(c) /\ UNCHANGED status
    /\ UNCHANGED <<loanStatus, book, plan, pays, approved, posted, receivable, aborts>>

\* Mutant: the approval is consumed for the command alone, not for its balances.
ConsumesForAnything(c) == TRUE

\* An approval consumed before is answered again for the same payload, which holds
\* the balances this call has read, and for no other.
Consumes(c) == \A a \in approved : a[1] = call[c].restructure => a[2] = call[c].balances

\* The approval service consumes the approval, or refuses.
ConsumeApproval(c) ==
    /\ At(c, "approve")
    /\ \/ /\ Consumes(c)
          /\ approved' = approved \cup {<<call[c].restructure, call[c].balances>>}
          /\ GoTo(c, "recordApproval")
       \/ ~Consumes(c) /\ End(c) /\ UNCHANGED approved
    /\ UNCHANGED <<loanStatus, book, plan, status, pays, posted, receivable, aborts>>

\* Second transaction; an IMPLEMENTED command stays so, the call goes on either way.
RecordApproval(c) ==
    LET x == call[c].restructure IN
    /\ At(c, "recordApproval")
    /\ status' = IF status[x] = "IMPLEMENTED" THEN status
                 ELSE [status EXCEPT ![x] = "LEDGER_POSTING"]
    /\ GoTo(c, "post")
    /\ UNCHANGED <<loanStatus, book, plan, pays, approved, posted, receivable, aborts>>

\* What the receivable changes by, from the balances the call has read.
Difference(c) == NewDebt(call[c].restructure) - Debt(call[c].balances)

\* The ledger posts the difference once per command; without one it is not called.
PostLedger(c) ==
    LET x == call[c].restructure IN
    /\ At(c, "post")
    /\ IF Difference(c) = 0 \/ x \in posted
       THEN UNCHANGED <<posted, receivable>>
       ELSE posted' = posted \cup {x} /\ receivable' = receivable + Difference(c)
    /\ GoTo(c, "implement")
    /\ UNCHANGED <<loanStatus, book, plan, status, pays, approved, aborts>>

SlotTotal(f, v) == f[2 * v - 1] + f[2 * v]

\* Mutant: only the installments nothing was paid on are superseded.
SupersededUntouched(v) == {w \in {v} : SlotTotal(paid, w) = 0}

\* The installments of the replaced schedule that are superseded: those not fully paid.
Superseded(v) == {w \in {v} : SlotTotal(paid, w) < SlotTotal(due, w)}

\* Mutant: fees, penalties and the old interest stay on the loan.
NewBalancesKeepingCharges(x) ==
    [outstanding EXCEPT !["PRINCIPAL"] = Terms[x].principal, !["CHARGES"] = @ + Terms[x].interest]

\* What the loan owes under the new schedule, whatever it owes by now.
NewBalances(x) ==
    [c \in Component |-> IF c = "PRINCIPAL" THEN Terms[x].principal ELSE Terms[x].interest]

\* The third transaction commits: there is no schedule of the new version, and the
\* posting has a transaction id (without a difference there is only a reference).
CanImplement(c) == call[c].version + 1 \notin schedules /\ Difference(c) # 0

\* Third transaction: schedule, installments and balances are replaced.  One that
\* finds the command IMPLEMENTED changes nothing; one that fails, neither.
Implement(c) ==
    LET x == call[c].restructure  v == call[c].version  n == v + 1 IN
    /\ At(c, "implement")
    /\ \/ /\ status[x] # "IMPLEMENTED" /\ CanImplement(c)
          /\ schedules' = schedules \cup {n} /\ active' = {n}
          /\ shown' = (shown \ Superseded(v)) \cup {n}
          /\ due' = [due EXCEPT ![2 * n - 1] = Terms[x].interest, ![2 * n] = Terms[x].principal]
          /\ outstanding' = NewBalances(x)
          /\ status' = [status EXCEPT ![x] = "IMPLEMENTED"]
       \/ /\ status[x] = "IMPLEMENTED" \/ ~CanImplement(c)
          /\ UNCHANGED <<plan, shown, due, outstanding, status>>
    /\ End(c)
    /\ UNCHANGED <<loanStatus, paid, pays, approved, posted, receivable, aborts>>

\* A call dies at one of its awaits.
Abort(c) ==
    /\ ~At(c, "idle")
    /\ aborts < MaxAborts
    /\ aborts' = aborts + 1
    /\ End(c)
    /\ UNCHANGED <<loanStatus, book, plan, status, pays, approved, posted, receivable>>

-----------------------------------------------------------------------------
(* Repayments and reversals (module Repayment), by their effect on the loan. *)

Moves(r, progress) == repayment' = [repayment EXCEPT ![r] = progress]
Totals(r)  == [c \in Component |-> Total(line[r], SlotsOf(c))]
Touched(r) == {VersionOf(s) : s \in {s \in Slot : line[r][s] > 0}}

\* What the slots still owe that a repayment is allocated to: those of every
\* installment of the loan that is not CANCELLED, of whatever schedule.
Owing == [s \in Slot |-> IF VersionOf(s) \in shown THEN due[s] - paid[s] ELSE 0]

PrepareRepayment(r) ==
    /\ repayment[r] = "NONE" /\ loanStatus = "ACTIVE"
    /\ line' = [line EXCEPT ![r] = Greedy(Owing, Amount[r])]
    /\ Moves(r, "PREPARED")
    /\ UNCHANGED <<loanStatus, book, plan, status, approved, posted, receivable, call, aborts>>

\* The installments and the loan have room for the lines of r.
Fits(r) ==
    /\ \A s \in Slot : paid[s] + line[r][s] <= due[s]
    /\ \A c \in Component : outstanding[c] >= Totals(r)[c]

\* The loan's status once its balances are down to left.
StatusOf(left) == IF Debt(left) = 0 THEN "SETTLED" ELSE loanStatus

\* The ledger posts the repayment, and the books take it if it still fits.  The
\* trigger on installments makes one that was paid PAID or PARTIALLY_PAID, a
\* CANCELLED one too.
ApplyRepayment(r) ==
    /\ repayment[r] = "PREPARED"
    /\ receivable' = receivable - Allocated(r)
    /\ \/ /\ Fits(r)
          /\ paid' = [s \in Slot |-> paid[s] + line[r][s]]
          /\ shown' = shown \cup Touched(r)
          /\ outstanding' = [c \in Component |-> outstanding[c] - Totals(r)[c]]
          /\ loanStatus' = StatusOf(outstanding')
          /\ Moves(r, "SUCCESSFUL")
       \/ /\ ~Fits(r)
          /\ Moves(r, "POSTED")
          /\ UNCHANGED <<loanStatus, outstanding, paid, shown>>
    /\ UNCHANGED <<plan, due, status, line, approved, posted, call, aborts>>

\* What is left on an installment between two of the updates that undo r: there is one
\* for each line, and charges above one unit may be a line each of interest, fees and
\* penalties (which of them are is several).
LeftBetween(r, several) ==
    {v \in Touched(r) : v \in several \/ (line[r][2 * v - 1] > 0 /\ line[r][2 * v] > 0)}

\* The ledger and the books give a repayment back, which its slots always have (see
\* ReversalNeverBlocked of Repayment).  The same trigger fires on the update of each
\* line: an installment that keeps part of what was paid is shown again, and so is one
\* that loses all of it in more than one update.  The loan is open again.
ReverseRepayment(r) ==
    /\ repayment[r] = "SUCCESSFUL" /\ \A s \in Slot : paid[s] >= line[r][s]
    /\ receivable' = receivable + Allocated(r)
    /\ paid' = [s \in Slot |-> paid[s] - line[r][s]]
    /\ \E several \in SUBSET {v \in Touched(r) : line[r][2 * v - 1] > 1} :
          shown' = shown \cup LeftBetween(r, several)
                         \cup {v \in Touched(r) : SlotTotal(paid', v) > 0}
    /\ outstanding' = [c \in Component |-> outstanding[c] + Totals(r)[c]]
    /\ loanStatus' = "ACTIVE"
    /\ Moves(r, "REVERSED")
    /\ UNCHANGED <<plan, due, status, line, approved, posted, call, aborts>>

-----------------------------------------------------------------------------
Step(c) ==
    Insert(c) \/ ConsumeApproval(c) \/ RecordApproval(c) \/ PostLedger(c) \/ Implement(c)

Repay(r) == PrepareRepayment(r) \/ ApplyRepayment(r) \/ ReverseRepayment(r)

Next ==
    \/ \E c \in Calls : Step(c) \/ Abort(c) \/ \E x \in Restructures : Start(c, x)
    \/ \E r \in Repayments : Repay(r)

Spec == Init /\ [][Next]_vars

\* What is ready runs, service calls time out, and clients resend a command.
Fairness ==
    /\ \A c \in Calls : WF_vars(Step(c))
    /\ \A x \in Restructures : SF_vars(\E c \in Calls : Start(c, x))

-----------------------------------------------------------------------------
(* Properties. *)

\* A restructure the ledger knows was approved for one set of balances, which the
\* ledger's difference and every later attempt have used; and none is IMPLEMENTED
\* without its posting.
ImplementedByTheBook ==
    /\ \A x \in posted : Cardinality({a \in approved : a[1] = x}) = 1
    /\ \A x \in Restructures : status[x] = "IMPLEMENTED" => x \in posted

\* Why a command that was begun may never be carried out: the loan it names or the
\* terms it proposes are no longer accepted, there is no difference to post, or the
\* approval was consumed for balances the loan does not have (any more).
Stuck(x) ==
    \/ loanStatus # "ACTIVE" \/ ~Valid(x, outstanding["PRINCIPAL"])
    \/ NewDebt(x) = Debt(outstanding)
    \/ \E a \in approved : a[1] = x /\ a[2] # outstanding

\* A restructure that was begun, and holds the loan's only slot for one, is carried
\* out when its client resends it, unless it is stuck for one of these reasons.
BegunIsImplemented ==
    \A x \in Restructures : status[x] \in InFlight ~> status[x] = "IMPLEMENTED" \/ Stuck(x)

\* Repayment and servicing, which go through all installments of the loan that are
\* not CANCELLED, only see the new schedule's obligations: what the comment on the
\* superseded installments promises.
OnlyNewObligations == \A s \in Slot : Owing[s] > 0 => VersionOf(s) \in active
================================================================================
