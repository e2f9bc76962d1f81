\* Three versions, the second with two approvals, over two overlapping calls, one of which
\* may die.
SPECIFICATION MCSpec
CONSTANTS
    a1 = a1
    a2 = a2
    a3 = a3
    a4 = a4
    c1 = c1
    c2 = c2
    k1 = k1
    k2 = k2
    k3 = k3
    p1 = p1
    p2 = p2
    p3 = p3
    MaxVersions = 3
    Approvals = {a1, a2, a3, a4}
    VersionOf <- MCVersionOf
    Keys = {k1, k2, k3, p1, p2, p3}
    None = None
    Attempts = {c1, c2}
    MaxDeaths = 1
INVARIANTS InForceAsApproved
PROPERTIES NeverTakenBack ApprovedIsPublished
\* Once the last version is published nothing is left to do.
CHECK_DEADLOCK FALSE
