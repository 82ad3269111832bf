\* One operator, who empties dead_letter into queues that are worked off.
SPECIFICATION FairSpec
CONSTANTS
    t1 = t1
    t2 = t2
    w1 = w1
    w2 = w2
    o1 = o1
    NoMessage = NoMessage
    Tasks = {t1, t2}
    Annotated = {t1}
    Workers = {w1, w2}
    Operators = {o1}
    Moves <- Outward
    Flushes = {"dead_letter"}
    MaxMessages = 4
    MaxCommands = 2
    MaxFaults = 1
INVARIANT MovesCopyNothing
PROPERTY EventuallyRests
CHECK_DEADLOCK FALSE
