\* A method whose instances come and go.
CONSTANTS
    Methods = {m1}
    Instances = {i1}
    AtFirst = {{i1}}
    EmptyHost = EmptyHost
    Garbage = Garbage
    Own = Own
    MaxChanges = 1
    MaxWrites = 0
    MaxFaults = 0
SPECIFICATION Spec
INVARIANTS
    PickIsAnInstance
\* The servers may be done changing and the cache up to date.
CHECK_DEADLOCK FALSE
