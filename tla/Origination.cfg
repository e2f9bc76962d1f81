\* Two applications that count each other or not, one approved automatically, and a third whose
\* product would be but has no policy; one reviewer, two conditions with a request each; two
\* offers; two overlapping calls, one fault.
SPECIFICATION MCSpec
CONSTANTS
    a1 = a1
    a2 = a2
    a3 = a3
    Applications = {a1, a2, a3}
    Portfolios = {{a1, a2}, {a1, a3}, {a2}}
    Automatic = {a1, a3}
    WithPolicy = {a1, a2}
    MaxActiveLoans = 0
    Calls = {c1, c2}
    NoApplication = NoApplication
    MaxFaults = 1
    Reviewers = {v1}
    NoReviewer = NoReviewer
    Conditions = {k1, k2}
    Resolvers = {s1, s2}
    MaxAssigns = 1
    Requests = {q1, q2}
    NoRow = NoRow
    MaxOffers = 2
INVARIANTS StatusIsGrounded OneOfferOneLoan EvaluatedOnLatest
PROPERTIES WithinPolicy EverythingEnds
\* Applications that are decided, and offers that have lapsed or been accepted, are an end.
CHECK_DEADLOCK FALSE
