CONSTANTS
    Arrivals <- Mixed
    Registered <- Protocols
    KeyArgs = {"none", "0", "1", "other"}
    QueueDepth = 1
    MaxFrames = 2
    MaxSets = 2
    MaxSends = 1
SPECIFICATION FairSpec
INVARIANTS
    TypeOK
    CalmSend
PROPERTIES
    PlainFifo
    CipherFifo
    SoundIsHandled
    NullNeedsSetKey
    PlainIsOld
    Drains
CHECK_DEADLOCK FALSE
