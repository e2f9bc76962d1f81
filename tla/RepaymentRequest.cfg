\* Two customers with a quote each, two keys and references, two calls, one fault,
\* a token that is good for one tick of the clock and a cache that holds one.
SPECIFICATION MCSpec
CONSTANTS
    u1 = u1
    u2 = u2
    q1 = q1
    q2 = q2
    c1 = c1
    c2 = c2
    k1 = k1
    k2 = k2
    f1 = f1
    Users = {u1, u2}
    Service = Service
    Auth = Auth
    Audiences = {Auth}
    Lifetime = 2
    Margin = 1
    Capacity = 1
    Quotes = {q1, q2}
    Customer <- MCCustomer
    Debited = {q1}
    Keys = {k1, k2}
    References = {f1, f2}
    NoName = NoName
    Calls = {c1, c2}
    MaxFaults = 1
    MaxTime = 1
INVARIANTS OneRequestPerQuote OnTheirBehalf
PROPERTIES SubmittingEnds
\* Quotes expire, after which everything may stop.
CHECK_DEADLOCK FALSE
