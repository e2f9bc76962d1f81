\* Two write-offs and two recoveries over two overlapping calls, one of which may die, clients
\* resending, while repayments and reversals move the balances.
SPECIFICATION FairSpec
CONSTANTS
    w1 = w1
    w2 = w2
    r1 = r1
    r2 = r2
    Components = 2
    Debt <- MCDebt
    WriteOffs = {w1, w2}
    Recoveries = {r1, r2}
    Target <- MCTarget
    Amount <- MCAmount
    Calls = {c1, c2}
    NoRequest = NoRequest
    MaxAborts = 1
INVARIANTS BooksInOrder
PROPERTIES EvidenceIsFixed DebtWrittenOnce BegunEnds
