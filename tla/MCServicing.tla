------------------------------ MODULE MCServicing ------------------------------
(* An instance of ServicingHistory for TLC. *)
EXTENDS ServicingHistory

MCDueDate   == [i \in Installment |-> 2 * i - 1]
MCScheduled == [i \in Installment |-> 1]

CONSTANTS
    k1, k2, c1, c2, \* the postings and the calls
    MaxCommands     \* bound: how many postings and assessments there are

\* Bound: the commands of a behaviour, one more if all are assessments, with postings no
\* assessment on other days than those of accruals; all postings are about the first
\* installment, and accruals about the first period.  Calls, and postings, are alike: c2 only begins when
\* c1 is busy, k2 after k1.
Commands ==
    {k \in Postings : row[k].status # "NONE" \/ \E c \in Calls : call[c].posting = k}
    \cup {<<call[c].target.date>> : c \in Assessing} \cup {<<date>> : date \in assessed}
Bound ==
    /\ IF Commands \cap Postings = {}
           THEN Cardinality(Commands) <= MaxCommands + 1
           ELSE /\ Cardinality(Commands) <= MaxCommands
                /\ Commands \subseteq Postings \cup {<<date>> : date \in Periods}
    /\ \A c \in Calls : call[c].target.installment \in {0, 1}
    /\ \A c \in Calls : call[c].target.kind = "accrual" => \A date \in Periods : call[c].target.date <= date

MCNext ==
    /\ HistoryNext /\ Bound'
    /\ k2 \in Commands' \ Commands => k1 \in Commands
    /\ At(c1, "idle") /\ At(c2, "idle") => At(c2, "idle")'
MCSpec == HistoryInit /\ [][MCNext]_<<vars, history>> /\ Fairness
================================================================================
