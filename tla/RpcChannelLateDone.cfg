\* One pooled call, one connection: the closure outlives its channel.
CONSTANTS
    Calls = {c1}
    NoCall = NoCall
    MaxId = 1
    MaxConn = 1
SPECIFICATION Spec
INVARIANTS
    DoneOnLiveChannel
CHECK_DEADLOCK FALSE
