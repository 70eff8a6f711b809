\* Two servers of one service with one method, started twice, one fault.
CONSTANTS
    Servers = {s1, s2}
    NoServer = NoServer
    N = 2
    ServiceOf <- OneService
    MaxStarts = 2
    MaxConns = 1
    MaxFaults = 1
SPECIFICATION FairSpec
INVARIANTS
    TypeOK
    IInv
    RegistrationLasts
    RaceHasWinner
    EndedIsUnregistered
PROPERTIES
    SomeoneServes
    StopEnds
\* Every server may have ended for good.
CHECK_DEADLOCK FALSE
