\* Two methods, two instances, two changes, one overwrite, one fault.
CONSTANTS
    Methods = {m1, m2}
    Instances = {i1, i2}
    AtFirst = {{i1}}
    EmptyHost = EmptyHost
    Garbage = Garbage
    Own = Own
    MaxChanges = 2
    MaxWrites = 1
    MaxFaults = 1
SPECIFICATION FairSpec
INVARIANTS
    TypeOK
    WatchCovered
    WorkerCacheFresh
    IInv
PROPERTIES
    ChangesReachCache
\* The servers may be done changing and the cache up to date.
CHECK_DEADLOCK FALSE
