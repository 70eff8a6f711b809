\* Two servers started at the same time for the same service, no fault.
CONSTANTS
    Servers = {s1, s2}
    NoServer = NoServer
    N = 2
    ServiceOf <- OneService
    MaxStarts = 1
    MaxConns = 0
    MaxFaults = 0
SPECIFICATION Spec
INVARIANTS
    NobodyExits
CHECK_DEADLOCK FALSE
