CONSTANTS
    p1 = p1
    p2 = p2
    Peers = {p1, p2}
    Parts = 3
    Millis = 5
    Word = 24
    Times <- LastSecond
    NetDepth = 1
    MaxUp = 2
    MaxSets = 1
    MaxPings = 2
    MaxPeer = 1
SPECIFICATION Spec
INVARIANTS
    TypeOK
    Punctual
    NeverBack
    RttFollowsClock
PROPERTIES
    RepliesInOrder
SYMMETRY Others
CHECK_DEADLOCK FALSE
