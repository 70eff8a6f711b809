\* Two concurrent calls, three connections one after the other.
CONSTANTS
    Calls = {c1, c2}
    NoCall = NoCall
    MaxId = 2
    MaxConn = 3
SPECIFICATION FairSpec
INVARIANTS
    TypeOK
    IInv
    AnswersMatch
    NoReplyOrphaned
    ResponseFreedOnce
    FailedNeverCompletes
    PendingCountsChannels
PROPERTIES
    ImplementsRpcCalls
    Answered
\* Every call may have ended and every connection be down.
CHECK_DEADLOCK FALSE
