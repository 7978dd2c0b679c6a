SPECIFICATION Spec
CONSTANTS
    Attempts = 2
    SeqSpace = 2
    SendsFail = TRUE
    CreateFails = TRUE
    MaxSamples = 1
    MaxReboots = 0
INVARIANTS
    TypeOK
    SocketOutlivesUsers
    NumberedInTurn
    TunedAsConfigured
    IInv
