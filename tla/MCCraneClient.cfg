CONSTANTS
    Cranes = {0, 1}
    Cmds = {2}
    TestPattern <- ShortPattern
    Incoming <- AnyPacket
    SeqMax = 3
    WordMax = 7
    AckDepth = 1
    MaxAttempts = 2
    NetDepth = 1
    Lossy = FALSE
SPECIFICATION ClientSpec
INVARIANTS
    TypeOK
    NoJoinWhileActing
    AckIsOwn
    ForgottenIsClosed
    NoWrap
