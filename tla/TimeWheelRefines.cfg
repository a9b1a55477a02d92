SPECIFICATION Spec
CONSTANTS
    c1 = c1
    c2 = c2
    c3 = c3
    f1 = f1
    f2 = f2
    n1 = n1
    n2 = n2
    None = None
    Conns = {c1, c2, c3}
    Fds = {f1, f2}
    FdOf <- MCFdOf
    Nodes = {n1, n2}
    SlotInterval = 2
    Slots = 3
    Timeout = 9
    RenewTimeout = 14
INVARIANTS
    TypeOK
    SlotFieldAgrees
    NoDanglingIterator
PROPERTY
    ImplementsIdleTimer
