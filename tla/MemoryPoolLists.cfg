SPECIFICATION Spec
CONSTANTS
    Threads = {t1, t2}
    ALIGNMENT = 2
    MAXBYTE = 10
    PAGE_SIZE = 2
    SPAN_PAGES = 4
    BatchNum <- MCBatchNum
    ShouldReturn = 2
    SizeMod = 64
    Capacities = {1, 3, 7, 10, 11}
    Memory = 16
SYMMETRY MCSymmetry
CONSTRAINT MCFewAfterShort
CHECK_DEADLOCK FALSE
INVARIANTS
    TypeOK
    NoOverlap
    CountsAgree
    NothingLost
