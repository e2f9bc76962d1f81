---------------------------- MODULE MCRestructure ----------------------------
(* An instance of Restructure and its history for TLC. *)
EXTENDS RestructureHistory

CONSTANTS x1, x2, r1, r2

MCTerms == [x \in Restructures |->
    IF x = x1
    THEN [principal |-> 3, interest |-> 2, capitalized |-> 1, authorized |-> TRUE, reduction |-> FALSE]
    ELSE [principal |-> 1, interest |-> 1, capitalized |-> 0, authorized |-> FALSE, reduction |-> TRUE]]
MCFirstDue == <<1, 2>>
MCAmount   == [r \in Repayments |-> IF r = r1 THEN 2 ELSE 1]

MCSpec == HistorySpec /\ Fairness
===============================================================================
