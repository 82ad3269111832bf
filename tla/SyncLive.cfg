\* Liveness and the lock's timing, with two failures anywhere in the runs.
SPECIFICATION FairSpec
CONSTANTS
    Workers = {w1, w2}
    NoWorker = NoWorker
    Keys = {k1}
    NumSubnets = 2
    TaskLimit = 1
    KillSlack = 0
    LockMargin = 1
    MaxPending = 1
    MaxFaults = 2
INVARIANTS
    OneSyncAtATime
PROPERTIES
    EventuallyAdmitted
    EventuallyExpelled
