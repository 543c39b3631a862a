CONSTANT
    Slow = TRUE
SPECIFICATION FairSpec
INVARIANTS
    TypeOK
    InitMeansServing
    RadioHasQueue
    StopsConfined
PROPERTIES
    ConsoleOpens
CHECK_DEADLOCK FALSE
