CONSTANTS
    Cranes = {1}
    Cmds = {2}
    TestPattern <- ShortPattern
    Incoming = {}
    SeqMax = 3
    WordMax = 3
    AckDepth = 1
    MaxAttempts = 2
    NetDepth = 1
    Lossy = TRUE
    TheCrane = 1
    Challenges = {1}
    MaxOpens = 1
    CraneQuits = TRUE
SPECIFICATION FairSpec
PROPERTIES
    CommandReturns
