---------------------------- MODULE AllocationRule ----------------------------
(* What a repayment gives each of the slots it may pay, numbered by priority. *)
EXTENDS Integers, Functions

\* The total of f over a set.
Total(f, S) == FoldFunctionOnSet(+, 0, f, S)

\* Each slot takes, of the amount the slots before it have left, what it owes.
Greedy(owing, amount) ==
    [s \in DOMAIN owing |->
        LET left == amount - Total(owing, 1..(s - 1)) IN
        CASE left <= 0 -> 0
          [] left > 0 /\ owing[s] > left -> left
          [] OTHER -> owing[s]]
================================================================================
