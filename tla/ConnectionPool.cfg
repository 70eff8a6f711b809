\* Five threads compete for three connections, two rounds each.
CONSTANTS
    Threads = {t1, t2, t3, t4, t5}
    InitialSize = 1
    MaxSize = 3
    Rounds = 2
SPECIFICATION FairSpec
INVARIANTS
    TypeOK
    NoSharing
    NoLeak
    NoLostWakeup
    WaitersMeanFullPool
    IInv
PROPERTIES
    AllServed
\* Every thread may have finished.
CHECK_DEADLOCK FALSE
