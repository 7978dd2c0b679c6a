SPECIFICATION FairSpec
CONSTANTS
    Attempts = 1
    SeqSpace = 1
    SendsFail = FALSE
    CreateFails = FALSE
    MaxSamples = 1
    MaxReboots = 1
PROPERTIES
    StreamComesBack
    CloseEnds
