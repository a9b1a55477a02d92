SPECIFICATION FairSpec
CONSTANTS
    Threads = {t1, t2, t3}
    MaxConn = 2
    MayFail = TRUE
    MaxCalls = 1
    Users = {u1}
    Passwords = {p1, p2}
CHECK_DEADLOCK FALSE
INVARIANTS
    DaoTypeOK
    Exclusive
    PermitsCover
    RegistersOnce
PROPERTIES
    RegisteredCanLogin
    GetConnReturns
