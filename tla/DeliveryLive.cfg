\* Liveness with separate pools: two batches compete for one worker each.
SPECIFICATION FairSpec
CONSTANTS
    Batches = {b1, b2}
    SiteWorkers = {s1}
    CentralWorkers = {c1}
    Nobody = Nobody
    MaxTries = 2
    MaxSends = 3
    MaxFaults = 2
PROPERTIES
    EventuallySettled
CHECK_DEADLOCK FALSE
