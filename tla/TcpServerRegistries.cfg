SPECIFICATION FairSpec
CONSTANTS
    c1 = c1
    c2 = c2
    f1 = f1
    l1 = l1
    None = None
    TickThread = TickThread
    Conns = {c1, c2}
    Fds = {f1}
    FdOf <- MCReuseFdOf
    Nodes = {n1, n2}
    SlotInterval = 1
    Slots = 2
    Timeout = 1
    RenewTimeout = 2
    Loops = {l1}
    LoopOf <- MCLoopOf
    MaxRequests <- MCRequests
    Hasty = {c1}
CHECK_DEADLOCK FALSE
INVARIANTS
    TypeOK
    RegistriesAgree
    OutputIsWatched
    EndsAreKnown
PROPERTIES
    WheelSpec
    ConnectionsEnd
