SPECIFICATION FairSpec
CONSTANTS
    Workers = {w1, w2, w3}
    Tasks = {t1, t2, t3}
    None = None
    Endless = {t1, t2}
CHECK_DEADLOCK FALSE
INVARIANTS
    TakenInOrder
    NoTaskStranded
PROPERTY
    TasksStart
