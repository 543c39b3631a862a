CONSTANTS
    Arrivals <- Mixed
    Registered <- Protocols
    KeyArgs = {"none", "0"}
    QueueDepth = 2
    MaxFrames = 2
    MaxSets = 2
    MaxSends = 1
SPECIFICATION Spec
INVARIANTS
    KeyIsThere
CHECK_DEADLOCK FALSE
