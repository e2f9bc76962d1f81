-------------------------- MODULE OriginationHistory --------------------------
(***************************************************************************)
(* Origination with history variables for the collections of evidence that *)
(* overlap, and for the loans that evidence does not show.  What holds in  *)
(* their terms is stated here.                                             *)
(***************************************************************************)
EXTENDS Origination

VARIABLES
    overlapped, \* applications two calls have collected evidence for at the same time
    missed      \* loans the evidence of an application without one does not show

history == <<overlapped, missed>>

Working(a)    == {c \in Calls : call[c].application = a}
Collecting(a) == {c \in Working(a) : App!At(c, "collect") \/ App!At(c, "store")}

Loans == {a \in Applications : loan[a] # "NONE"}

\* The loans have been counted for an application.
IsCounted(a) == App!HasEvidence(a) \/ \E c \in Working(a) : App!At(c, "store")

\* In a step that counts the loans for a, those not seen because they are DISBURSED; in
\* any other, after they have been counted, those made since.
MissedNow(a) ==
    {b \in Applications :
        \/ /\ loan[b] = "DISBURSED"
           /\ \E c \in Working(a) : App!At(c, "collect") /\ (App!At(c, "store"))'
        \/ loan[b] = "NONE" /\ loan'[b] # "NONE" /\ IsCounted(a)}

HistoryInit == Init /\ overlapped = {} /\ missed = [a \in Applications |-> {}]
HistoryNext ==
    /\ Next
    /\ overlapped' = overlapped \cup {a \in Applications : Cardinality((Collecting(a))') > 1}
    /\ missed' = [a \in Applications |->
           IF loan[a] = "NONE" THEN missed[a] \cup MissedNow(a) ELSE missed[a]]
HistorySpec == HistoryInit /\ [][HistoryNext]_<<vars, history>>

-----------------------------------------------------------------------------
(* Properties. *)

\* Unless two calls have collected its evidence at the same time, an application has been
\* evaluated on the evidence that still is its latest: submissions that fail and are sent
\* again, before, during and after the evaluation, do not replace it.
EvaluatedOnLatest ==
    \A a \in Applications \ overlapped :
        /\ evidence[a].version <= 1
        /\ App!IsEvaluated(a) => evaluated[a] = evidence[a]

\* An application gets its loan only if the customer's others are within its policy, up
\* to those its evidence could not show: DISBURSED when the loans were counted, or
\* made after that.  That holds through stale and repeated evidence, reviews and offers.
WithinPolicy ==
    [][\A a \in WithPolicy :
          loan[a] = "NONE" /\ loan'[a] # "NONE" =>
              Cardinality(Loans \ missed[a]) <= MaxActiveLoans]_<<vars, history>>
===============================================================================
