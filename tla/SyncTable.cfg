\* Two subnets with two hotkeys each: what the runs do to the table.
SPECIFICATION Spec
CONSTANTS
    Workers = {w1, w2}
    NoWorker = NoWorker
    Keys = {k1, k2}
    NumSubnets = 2
    TaskLimit = 0
    KillSlack = 0
    LockMargin = 1
    MaxPending = 1
    MaxFaults = 1
SYMMETRY Symmetry
INVARIANTS
    TypeOK
    DebugRowsStayActive
    RunsKnowTheTable
    MarkedMeansSettled
PROPERTIES
    RefinesRegistry
