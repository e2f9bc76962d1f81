--------------------------- MODULE RepaymentAccount ---------------------------
(***************************************************************************)
(* What the repayment services promise of a loan's account, whatever calls *)
(* overlap, die or are repeated: each payment is taken into account at     *)
(* most once, for no more than its amount and never for more than is owed; *)
(* a reversal gives back exactly what was taken, at most once; and the     *)
(* account is closed exactly while nothing is owed.  Module Repayment      *)
(* implements it.                                                          *)
(***************************************************************************)
EXTENDS Naturals

CONSTANTS
    Payments,   \* the payments that may reach the account
    Amount,     \* what each of them brings
    Debt        \* what is owed at the start

VARIABLES
    owed,      \* what is still owed
    taken,     \* what each payment settled, while it counts
    returned,  \* payments given back
    closed     \* the account is closed

vars == <<owed, taken, returned, closed>>

Init == owed = Debt /\ taken = [p \in Payments |-> 0] /\ returned = {} /\ closed = FALSE

Close == closed' = (owed' = 0)

Pay(p) ==
    /\ taken[p] = 0 /\ p \notin returned
    /\ \E a \in 1..Amount[p] : a <= owed /\ taken' = [taken EXCEPT ![p] = a] /\ owed' = owed - a
    /\ Close
    /\ UNCHANGED returned

GiveBack(p) ==
    /\ taken[p] > 0
    /\ owed' = owed + taken[p] /\ taken' = [taken EXCEPT ![p] = 0]
    /\ returned' = returned \cup {p}
    /\ Close

Next == \E p \in Payments : Pay(p) \/ GiveBack(p)

Spec == Init /\ [][Next]_vars
================================================================================
