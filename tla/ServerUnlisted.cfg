\* One server that crashes and is restarted before its session expires.
CONSTANTS
    Servers = {s1}
    NoServer = NoServer
    N = 2
    ServiceOf <- OneService
    MaxStarts = 2
    MaxConns = 0
    MaxFaults = 1
SPECIFICATION Spec
INVARIANTS
    ServingIsListed
CHECK_DEADLOCK FALSE
