CONSTANTS
    Pipes = {"up", "down"}
    Bodies <- AllBodies
    Parses <- HeaderParses
    BadLengths = {3, 99}
    MaxLen = 60
    Cuts = {2, 9}
    MaxCalls = 2
    MaxForeign = 1
SPECIFICATION WireFairSpec
INVARIANTS
    TypeOK
    Aligned
    NothingLingers
    ResponseIntact
    SuccessMeansAccepted
    CodecLaws
PROPERTIES
    ImplementsOrderedPipe
    Answered
CHECK_DEADLOCK FALSE
