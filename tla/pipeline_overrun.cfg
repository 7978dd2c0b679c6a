SPECIFICATION Spec
CONSTANTS
    SamplesSize = 4
    BlocksSize = 2
    QuadsPerPacket = 1
    CoalesceMax = 2
    SeqSpace = 8
    BatchMax = 1
    MaxStep = 1
    MaxDelay = 1
    FirstPacket = 6
    WritesFail = FALSE
    MaxPacket = 10
    MaxLate = 0
INVARIANTS
    OverrunLeavesRecord
