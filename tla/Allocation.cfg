\* Every order, two installments, every schedule of slots that owe 0 or 2, amounts from
\* less than one slot to more than all of them. The loop ends.
SPECIFICATION LoopSpec
CONSTANTS
    Installments = 2
    Owings = {0, 2}
    Amounts = {1, 2, 3, 7, 15, 17}
INVARIANTS AllocatedByPolicy ByTheRule
CHECK_DEADLOCK FALSE
