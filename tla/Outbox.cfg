\* Two events, two processes, polls that overlap after an error of a batch, batches of
\* two events; two faults.
SPECIFICATION MCSpec
CONSTANTS
    t1 = t1
    t2 = t2
    w1 = w1
    Events = 2
    Tenants = {t1, t2}
    TenantOf <- MCTenantOf
    Workers = {w1, w2}
    NoWorker = NoWorker
    Overlap = 2
    Limit = 2
    MaxFaults = 2
INVARIANTS TableIsTrue DuplicatesAreAccounted
PROPERTIES PublishedIsFinal EventuallyPublished
