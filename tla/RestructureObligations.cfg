\* One restructure, one payment of the schedule it replaces.
SPECIFICATION MCSpec
CONSTANTS
    x1 = x1
    x2 = x2
    r1 = r1
    r2 = r2
    Restructures = {x1}
    Terms <- MCTerms
    FirstDue <- MCFirstDue
    Repayments = {r1}
    Amount <- MCAmount
    Calls = {c1}
    NoRestructure = NoRestructure
    MaxAborts = 0
INVARIANT OnlyNewObligations
CHECK_DEADLOCK FALSE
