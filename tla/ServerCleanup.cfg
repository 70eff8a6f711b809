\* One server, stopped by SIGINT once it is registered, no fault.
CONSTANTS
    Servers = {s1}
    NoServer = NoServer
    N = 2
    ServiceOf <- OneService
    MaxStarts = 1
    MaxConns = 0
    MaxFaults = 0
SPECIFICATION Spec
PROPERTIES
    CleanupUnregisters
CHECK_DEADLOCK FALSE
