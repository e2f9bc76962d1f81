---------------------------- MODULE ServicingHistory ----------------------------
(***************************************************************************)
(* Servicing with history variables for the calls that cross each other or *)
(* a repayment.  What holds until then is stated here.                     *)
(***************************************************************************)
EXTENDS Servicing

VARIABLES
    late,    \* an assessment or a penalty was written on a SETTLED loan
    crossed, \* two assessments of delinquency were in progress at the same time
    pending  \* two penalties of an installment were computed and not POSTED at the same time

history == <<late, crossed, pending>>

Several(S) == \E x, y \in S : x # y

Assessing == {c \in Calls : At(c, "oldest") \/ At(c, "assess")}
OnItsWay(i) ==
    PenaltiesOf(i, {"POSTING"}) \cup
    {call[c].posting : c \in {c \in Calls : At(c, "insert") /\ call[c].target.kind = "penalty"
                                                            /\ call[c].target.installment = i}}

HistoryInit == Init /\ late = FALSE /\ crossed = FALSE /\ pending = FALSE
HistoryNext ==
    /\ Next
    /\ late' = (late \/ (loanStatus = "SETTLED" /\ (assessed' # assessed \/ penaltyDue' # penaltyDue)))
    /\ crossed' = (crossed \/ Several(Assessing)')
    /\ pending' = (pending \/ \E i \in Installment : Several(OnItsWay(i))')
HistorySpec == HistoryInit /\ [][HistoryNext]_<<vars, history>>

-----------------------------------------------------------------------------
(* Properties. *)

\* Unless an assessment or a penalty that began before has been written on it
\* afterwards, the loan is SETTLED exactly while nothing is outstanding.
SettledUnlessLate == late \/ (loanStatus = "SETTLED" <=> scheduled + penalties = 0)

\* What the loan's status says of days past due and, until then, of its balances.
StatusUnlessLate == OverdueIffPastDue /\ SettledUnlessLate

\* Unless one was computed while another was on its way, the penalties of an
\* installment stay within the cap, those yet to be POSTED included.
CapUnlessPending ==
    pending \/ \A i \in Installment : Total(Amounts, PenaltiesOf(i, {"POSTING", "POSTED"})) <= Cap

\* Unless assessments have crossed, who follows the delinquency-changed events knows
\* the loan's bucket.
AnnouncedUnlessCrossed == crossed \/ announced = bucket
================================================================================
