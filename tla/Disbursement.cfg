\* Two loans, two keys, two calls that may overlap, two of which may die, clients resending.
\* All rows final and no client calling is a legitimate end.
SPECIFICATION MCSpec
CONSTANTS
    Loans = {l1, l2}
    Keys = {k1, k2}
    Calls = {c1, c2}
    NoLoan = NoLoan
    NoKey = NoKey
    MaxAborts = 2
INVARIANTS StatusesAreTrue OnePayoutUnlessOverlapped
PROPERTIES MoneyInOrder FinalUnlessOverlapped RetryConverges
CHECK_DEADLOCK FALSE
