\* Separate pools of two workers, two batches, retries and abandoned calls.
SPECIFICATION Spec
CONSTANTS
    Batches = {b1, b2}
    SiteWorkers = {s1, s2}
    CentralWorkers = {c1, c2}
    Nobody = Nobody
    MaxTries = 2
    MaxSends = 4
    MaxFaults = 3
SYMMETRY Symmetry
INVARIANTS
    TypeOK
    AcceptedMeansStored
    TransientNeverDrops
    AnswersMatchCalls
    RetriesBounded
PROPERTIES
    KeepsLedger
CHECK_DEADLOCK FALSE
