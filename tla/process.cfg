SPECIFICATION FairSpec
CONSTANTS
    ValueBytes = 2
    HeaderBytes = 1
    Chunk = 2
    RingValues = 2
    MaxValues = 4
    Attempts = 2
    Descriptors = 3
INVARIANTS
    LifeTypeOK
    BytesAccounted
    CacheBounded
    ThreadsHaveWhatTheyUse
    NothingLeft
PROPERTIES
    CacheReleased
    ClosedByItsOwner
    InterruptEnds
