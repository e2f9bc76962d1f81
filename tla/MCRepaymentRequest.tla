-------------------------- MODULE MCRepaymentRequest --------------------------
(***************************************************************************)
(* An instance of RepaymentRequest for TLC, in one of two settings: one    *)
(* quote asked for under every key and reference while no token expires,   *)
(* or the quotes of two customers, each asked for with one reference,      *)
(* while time passes.                                                      *)
(***************************************************************************)
EXTENDS RepaymentRequest

CONSTANTS u1, u2, q1, q2, c1, c2, k1, k2, f1

VARIABLE setting

MCCustomer == [q \in Quotes |-> IF q = q1 THEN u1 ELSE u2]

\* Calls and keys are alike, so the second is used once the first is.
Asked(c, k, q, f) ==
    /\ c = c2 => ~At(c1, "idle")
    /\ k = k2 => row[k1] # NoRow \/ \E d \in Calls : call[d].key = k1
    /\ setting = "race" => q = q1 /\ (c = c1 /\ row[k1] = NoRow => f = f1)
    /\ setting = "customers" => f = f1 /\ (q = q1 => k = k1)

MCInit == Init /\ setting \in {"race", "customers"}

MCNext ==
    /\ \/ \E c \in Calls : Step(c) \/ Abort(c)
       \/ \E c \in Calls, k \in Keys, q \in Quotes, f \in References :
             Asked(c, k, q, f) /\ Start(c, k, q, f)
       \/ Expire(q1)
       \/ setting = "customers" /\ Tick
    /\ UNCHANGED setting

MCSpec ==
    /\ MCInit /\ [][MCNext]_<<vars, setting>>
    /\ \A c \in Calls : WF_vars(Step(c))
===============================================================================
