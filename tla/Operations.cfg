\* The five components around the proxy, one moving in each behaviour.
CONSTANTS
    Environments <- AllEnvironments
    EnvFiles <- SomeFiles
    w1 = w1
    w2 = w2
    k1 = k1
    k2 = k2
    Workers = {w1, w2}
    Keys = {k1, k2}
    NoKey = NoKey
    Prometheus = Prometheus
    MaxWrites = 3
    a = a
    b = b
    BITTENSOR_NETUIDS <- TwoSubnets
    Threshold = 2
    TTL = 4
    Never = Never
    MaxTime = 5
    r1 = r1
    r2 = r2
    r3 = r3
    Runs = {r1, r2, r3}
    BackupSettings <- SomeSettings
    MaxOverlap = 2
    app = app
    celery = celery
    p1 = p1
    p2 = p2
    Containers = {app, celery}
    App = app
    Pids = {p1, p2}
    Nobody = Nobody
    MaxCount = 3
    MaxBoots = 2
SYMMETRY Symmetry
SPECIFICATION Spec
INVARIANTS
    TypesOK
    StartedMeansEquipped
    CompleteStarts
    SteadyIsNeverForbidden
    AlarmMatchesOutage
    DoneAccountsForAll
    NewestBackupStays
    RemovesOnlyOnceDelivered
    NoIncrementLost
    ScrapeIsCurrent
PROPERTIES
    NeverFailsOnceRead
    LoudUntilSuccess
    SuccessMeansRotated
CHECK_DEADLOCK FALSE
