CONSTANTS
    Commands <- SomeCommands
    Timeout = 2
    TimeMod = 64
    MaxUptime = 5
SPECIFICATION Spec
INVARIANTS
    TypeOK
    GenuineIsExecuted
    ExecutedIsGenuine
PROPERTIES
    SequenceGrows
    NotExecutedLate
CHECK_DEADLOCK FALSE
