\* Two installments, due on days 1 and 3, assessed on days 1, 2 and 4 and accrued until 2 and 4,
\* over two overlapping calls, one of which may die; a fixed penalty of 2 that is capped at 3; one payment and its reversal.
SPECIFICATION MCSpec
CONSTANTS
    k1 = k1
    k2 = k2
    c1 = c1
    c2 = c2
    Installments = 2
    DueDate <- MCDueDate
    Scheduled <- MCScheduled
    Dates = {1, 2, 4}
    Periods = {2, 4}
    Grace = 0
    Buckets = {0, 2}
    Fixed = 2
    Cap = 3
    Postings = {k1, k2}
    NoPosting = NoPosting
    Calls = {c1, c2}
    MaxAborts = 1
    MaxCommands = 2
INVARIANTS OwedByTheBook StatusUnlessLate CapUnlessPending AnnouncedUnlessCrossed
PROPERTY BegunIsPosted
