CONSTANTS
    Cranes = {1}
    Cmds = {2, 6}
    TestPattern <- MixedPattern
    Incoming = {}
    SeqMax = 5
    WordMax = 6
    AckDepth = 2
    MaxAttempts = 3
    NetDepth = 2
    Lossy = FALSE
    TheCrane = 1
    Challenges = {1}
    MaxOpens = 1
    CraneQuits = FALSE
SPECIFICATION PromptSpec
PROPERTIES
    TestDelivers
