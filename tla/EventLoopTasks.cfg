SPECIFICATION LoopFairSpec
CONSTANTS
    Tasks = {t1, t2, t3}
    Stoppers = {s1}
CHECK_DEADLOCK FALSE
INVARIANTS
    RunInOrder
    NoLostWakeup
PROPERTY
    TasksRun
