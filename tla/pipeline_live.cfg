SPECIFICATION FairSpec
CONSTANTS
    SamplesSize = 4
    BlocksSize = 2
    QuadsPerPacket = 1
    CoalesceMax = 2
    SeqSpace = 8
    BatchMax = 1
    MaxStep = 3
    MaxDelay = 2
    FirstPacket = 6
    WritesFail = FALSE
    MaxPacket = 11
    MaxLate = 0
INVARIANTS
    SpanInRing
    TInv
PROPERTIES
    ShutdownCompletes
    EverythingDrains
