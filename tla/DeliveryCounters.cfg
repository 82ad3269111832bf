\* One refusal by the store is enough to count what it never took.
SPECIFICATION Spec
CONSTANTS
    Batches = {b1}
    SiteWorkers = {s1}
    CentralWorkers = {c1}
    Nobody = Nobody
    MaxTries = 2
    MaxSends = 2
    MaxFaults = 1
INVARIANTS
    CountedWasIngested
CHECK_DEADLOCK FALSE
