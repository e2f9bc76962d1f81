------------------------------ MODULE Allocation ------------------------------
(***************************************************************************)
(* allocateRepayment: the loop that spreads a repayment over the slots of  *)
(* a schedule, component by component in the order of the loan's policy,   *)
(* and within a component from the oldest installment to the newest.       *)
(* Installments are numbers, already sorted.                               *)
(***************************************************************************)
EXTENDS AllocationRule

CONSTANTS
    Installments, \* how many installments the schedule has
    Owings,       \* what a slot may owe: due less paid, never negative
    Amounts       \* amounts of a repayment

ASSUME InstallmentsAssumption == Installments \in Nat
ASSUME OwingsAssumption == Owings \subseteq Nat
ASSUME AmountsAssumption == Amounts \subseteq Nat \ {0}

AllocationComponents == {"PENALTY", "FEES", "INTEREST", "PRINCIPAL"}
Installment          == 1..Installments
ScheduleSlots        == AllocationComponents \X Installment

VARIABLES
    order,      \* the allocation order: every component exactly once
    owing,      \* what each slot owes
    amount,     \* the repayment
    remaining,  \* what is left of it
    taken,      \* the lines: what each slot has been given
    component, installment \* the loop's place: component of the order, installment

inputs   == <<order, owing, amount>>
loopVars == <<inputs, remaining, taken, component, installment>>

Orders == {o \in [1..4 -> AllocationComponents] :
               \A x \in AllocationComponents : \E n \in 1..4 : o[n] = x}

LoopTypeOK ==
    /\ order \in Orders
    /\ owing \in [ScheduleSlots -> Nat]
    /\ amount \in Nat \ {0}
    /\ remaining \in Nat
    /\ taken \in [ScheduleSlots -> Nat]
    /\ component \in 1..5 /\ installment \in 1..(Installments + 1)

LoopInit ==
    /\ order \in Orders
    /\ owing \in [ScheduleSlots -> Owings]
    /\ amount \in Amounts
    /\ remaining = amount
    /\ taken = [s \in ScheduleSlots |-> 0]
    /\ component = 1 /\ installment = 1

\* Mutant: a slot takes all it owes.
AppliedUncapped(outstanding) == outstanding

\* Mutant: the newest installment comes first.
VisitedNewestFirst(k, j) == <<order[k], Installments + 1 - j>>

AppliedTo(outstanding) == IF outstanding > remaining THEN remaining ELSE outstanding

\* The slot the loop works on at place (k, j).
Visited(k, j) == <<order[k], j>>

\* One round of the inner loop; both loops break when nothing remains.
Take ==
    LET s == Visited(component, installment) IN
    /\ remaining # 0 /\ component <= 4 /\ installment <= Installments
    /\ taken' = [taken EXCEPT ![s] = AppliedTo(owing[s])]
    /\ remaining' = remaining - AppliedTo(owing[s])
    /\ installment' = installment + 1
    /\ UNCHANGED <<inputs, component>>

\* The next component, after the last installment.
NextComponent ==
    /\ remaining # 0 /\ component <= 4 /\ installment > Installments
    /\ component' = component + 1 /\ installment' = 1
    /\ UNCHANGED <<inputs, remaining, taken>>

Done == remaining = 0 \/ component > 4

LoopNext == Take \/ NextComponent

LoopSpec == LoopInit /\ [][LoopNext]_loopVars

-----------------------------------------------------------------------------
(* Properties. *)

\* s is paid before t: an earlier component of the order, or the same component of
\* an older installment.
Before(s, t) ==
    \E m, n \in 1..4 :
        /\ order[m] = s[1] /\ order[n] = t[1]
        /\ m < n \/ (m = n /\ s[2] < t[2])

\* No slot is given anything before every slot of higher priority has all it owes.
PolicyPriority ==
    \A s, t \in ScheduleSlots : Before(s, t) /\ taken[t] > 0 => taken[s] = owing[s]

\* No slot gets more than it owes, and when an amount is left over at the end, as
\* unapplied credit, no slot owes anything any more.
NothingWithheld ==
    /\ \A s \in ScheduleSlots : taken[s] <= owing[s]
    /\ Done /\ remaining > 0 => \A s \in ScheduleSlots : taken[s] = owing[s]

\* The loop does what the policy promises the customer, at every moment and at its end.
AllocatedByPolicy == PolicyPriority /\ NothingWithheld

\* The lines and the unapplied rest are what the rule used by module Repayment
\* says, on the slots numbered by priority; together they make up the amount.
ByTheRule ==
    LET SlotAt(n) == Visited((n - 1) \div Installments + 1, ((n - 1) % Installments) + 1)
        numbered  == [n \in 1..(4 * Installments) |-> owing[SlotAt(n)]]
    IN Done =>
        /\ \A n \in DOMAIN numbered : taken[SlotAt(n)] = Greedy(numbered, amount)[n]
        /\ amount = remaining + Total(taken, ScheduleSlots)
================================================================================
