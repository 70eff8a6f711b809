\* Two clients, two servers, two requests each, two starts or stops.
CONSTANTS
    Clients = {c1, c2}
    Hosts = {h1, h2}
    EmptyHost = EmptyHost
    Nowhere = Nowhere
    MaxRequests = 2
    MaxChanges = 2
SPECIFICATION FairSpec
INVARIANTS
    TypeOK
    EveryRequestOnce
    NeverIdle
PROPERTIES
    EndsUnlessStuck
\* The program ends.
CHECK_DEADLOCK FALSE
