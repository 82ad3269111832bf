\* Combined mode: as many requests as workers, all of them outbound at once.
SPECIFICATION FairSpec
CONSTANTS
    Batches = {b1, b2}
    SiteWorkers = {p1, p2}
    CentralWorkers = {p1, p2}
    Nobody = Nobody
    MaxTries = 2
    MaxSends = 1
    MaxFaults = 1
PROPERTIES
    NoRequestHangs
CHECK_DEADLOCK FALSE
