SPECIFICATION Spec
CONSTANTS
    SamplesSize = 5
    BlocksSize = 2
    QuadsPerPacket = 2
    CoalesceMax = 4
    SeqSpace = 8
    BatchMax = 1
    MaxStep = 3
    MaxDelay = 2
    FirstPacket = 6
    WritesFail = TRUE
    MaxPacket = 9
    MaxLate = 1
INVARIANTS
    SuccessHasSamples
