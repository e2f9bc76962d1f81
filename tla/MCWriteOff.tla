------------------------------ MODULE MCWriteOff ------------------------------
(* Instances of WriteOff for TLC: a debt of two components and recoveries that  *)
(* together are more than it; one of them spans both.                            *)
EXTENDS WriteOff, TLC

CONSTANTS w1, w2, r1, r2

MCDebt    == <<1, 1>>
MCTarget  == [r \in Recoveries |-> w1]
MCAmount  == [r \in Recoveries |-> CASE r = r1 -> 2 [] r = r2 -> 1]
===============================================================================
