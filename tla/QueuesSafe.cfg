SPECIFICATION Spec
CONSTANTS
    t1 = t1
    t2 = t2
    w1 = w1
    o1 = o1
    o2 = o2
    NoMessage = NoMessage
    Tasks = {t1, t2}
    Annotated = {t1}
    Workers = {w1}
    Operators = {o1, o2}
    Moves <- AllMoves
    Flushes = {"dead_letter"}
    MaxMessages = 3
    MaxCommands = 2
    MaxFaults = 1
SYMMETRY Symmetry
INVARIANTS TypeOK MovesLoseNothing
PROPERTY RefinesLedger
CHECK_DEADLOCK FALSE
