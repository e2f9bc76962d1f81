\* Two restructures, two payments and their reversals, two overlapping calls, one of which may die,
\* clients resending. All done and no client calling is a legitimate end.
SPECIFICATION MCSpec
CONSTANTS
    x1 = x1
    x2 = x2
    r1 = r1
    r2 = r2
    Restructures = {x1, x2}
    Terms <- MCTerms
    FirstDue <- MCFirstDue
    Repayments = {r1, r2}
    Amount <- MCAmount
    Calls = {c1, c2}
    NoRestructure = NoRestructure
    MaxAborts = 1
INVARIANTS ImplementedByTheBook BooksAgreeUnlessStale ObligationsUpToLate
PROPERTY BegunIsImplemented
CHECK_DEADLOCK FALSE
