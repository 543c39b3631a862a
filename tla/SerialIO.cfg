CONSTANTS
    BufLen = 3
    ReadDepth = 1
    WriteDepth = 2
    HelpLines = 3
    MaxLines = 3
    MaxLen = 3
    MaxNet = 1
SPECIFICATION FairSpec
INVARIANTS
    TypeOK
    LineIntegrity
PROPERTIES
    InputFifo
    OutputFifo
    Drains
CHECK_DEADLOCK FALSE
