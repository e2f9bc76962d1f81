\* Two overlapping calls with different keys for one loan.
SPECIFICATION MCSpec
CONSTANTS
    Loans = {l1}
    Keys = {k1, k2}
    Calls = {c1, c2}
    NoLoan = NoLoan
    NoKey = NoKey
    MaxAborts = 0
INVARIANT OnePayoutPerLoan
CHECK_DEADLOCK FALSE
