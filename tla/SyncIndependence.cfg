\* The documentation's claim of independence, refuted without any failure.
SPECIFICATION Spec
CONSTANTS
    Workers = {w1}
    NoWorker = NoWorker
    Keys = {k1, k2}
    NumSubnets = 2
    TaskLimit = 1
    KillSlack = 0
    LockMargin = 1
    MaxPending = 1
    MaxFaults = 0
INVARIANTS
    SubnetsIndependent
