\* Three payments and their reversals over two overlapping calls, one of which may die,
\* clients resending. All reversed and no client calling is a legitimate end.
SPECIFICATION FairSpec
CONSTANTS
    r1 = r1
    r2 = r2
    r3 = r3
    Slots = 3
    Component <- MCComponent
    Due <- MCDue
    Amount <- MCAmount
    Repayments = {r1, r2, r3}
    Calls = {c1, c2}
    NoRepayment = NoRepayment
    MaxAborts = 1
INVARIANTS BooksInOrder EvidenceMatchesLedger
PROPERTIES BlockedOnlyByOvertaking AccountKept BegunEnds
CHECK_DEADLOCK FALSE
