SPECIFICATION Spec
CONSTANTS
    FirstPacket = 6
    LastPacket = 9
    Malformed = {8}
    SeqSpace = 8
    DropSpace = 3
    RcvBuf = 1
    BatchMax = 2
    MaxArrivals = 5
    MaxDrops = 4
INVARIANTS
    TypeOK
    DropsCounted
    PacketsAccounted
PROPERTIES
    ImplementsTracker
