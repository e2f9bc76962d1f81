-------------------------- MODULE RestructureHistory --------------------------
(***************************************************************************)
(* Restructure with history variables for the ways in which repayments    *)
(* and restructures can cross; what holds until they do, or up to what has *)
(* crossed, is stated here.                                                *)
(***************************************************************************)
EXTENDS Restructure

VARIABLES
    stale, \* a restructure was carried out on balances it had not read
    late,  \* replaced schedules whose installment was paid, or a payment of it undone, since
    astray \* what the balances have lost to these payments since the last restructure

history == <<stale, late, astray>>

\* A payment or a reversal reaches these slots of replaced schedules.
Reached == {s \in Slot : paid'[s] # paid[s] /\ VersionOf(s) \notin active}

HistoryInit == Init /\ stale = FALSE /\ late = {} /\ astray = 0
HistoryNext ==
    /\ Next
    /\ stale' = (stale \/ \E x \in Restructures : status[x] # "IMPLEMENTED"
                  /\ status'[x] = "IMPLEMENTED" /\ <<x, outstanding>> \notin approved)
    /\ late' = late \cup {VersionOf(s) : s \in Reached}
    /\ astray' = IF active' # active THEN 0
                 ELSE astray + Total([s \in Slot |-> paid'[s] - paid[s]], Reached)
HistorySpec == HistoryInit /\ [][HistoryNext]_<<vars, history>>

Unapplied         == {r \in Repayments : repayment[r] = "POSTED"}
ApprovedDebt(x)   == Debt((CHOOSE a \in approved : a[1] = x)[2])

\* Unless a restructure has overwritten balances it had not read, the books and the
\* ledger's receivable differ at any time by what is under way and nothing else:
\* repayments posted that no longer fit, restructures posted and not implemented.
LedgerAgreesUnlessStale ==
    stale \/ receivable + Total([r \in Repayments |-> Allocated(r)], Unapplied) =
                 Debt(outstanding)
                 + Total([x \in Restructures |-> NewDebt(x) - ApprovedDebt(x)],
                         {x \in posted : status[x] # "IMPLEMENTED"})

\* What else takes status and balances apart: a restructure whose terms leave no debt,
\* and a repayment that found nothing to pay and is reversed all the same.
Forgiven == \E x \in Restructures : status[x] = "IMPLEMENTED" /\ NewDebt(x) = 0
Hollow   == \E r \in Repayments : repayment[r] = "REVERSED" /\ Allocated(r) = 0

\* Unless one of these has happened, the loan is SETTLED exactly while nothing is
\* outstanding.
SettledUnlessStale ==
    stale \/ Forgiven \/ Hollow \/ (loanStatus = "SETTLED" <=> Debt(outstanding) = 0)

\* Until a restructure has overwritten balances it had not read: the books and the
\* ledger agree, and the status with both.
BooksAgreeUnlessStale == TypeOK /\ LedgerAgreesUnlessStale /\ SettledUnlessStale

\* What repayments can still be allocated to belongs to the schedule in force or to an
\* installment that was reached after its schedule had been replaced; and what the
\* schedule in force owes is all that is outstanding, but for what has gone astray.
ObligationsUpToLate ==
    /\ \A s \in Slot : Owing[s] > 0 => VersionOf(s) \in active \cup late
    /\ Total(Owing, {s \in Slot : VersionOf(s) \in active}) = Debt(outstanding) + astray
===============================================================================
