----------------------------- MODULE MCRepayment -----------------------------
(* Instances of Repayment for TLC: a schedule of two installments of which *)
(* three components are due, paid in the order interest, then principal.   *)
EXTENDS Repayment, TLC

CONSTANTS r1, r2, r3

MCComponent == <<"INTEREST", "PRINCIPAL", "PRINCIPAL">>
MCDue       == <<1, 2, 1>>
MCAmount    == [r \in Repayments |-> CASE r = r1 -> 2 [] r = r2 -> 4 [] r = r3 -> 1]
===============================================================================
