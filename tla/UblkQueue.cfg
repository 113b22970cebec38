SPECIFICATION FairSpec
CONSTANTS
    Depth = 2
INVARIANTS
    QInv
    SqNeverFull
PROPERTIES
    ImplementsService
    EveryRequestAnswered
    StopEndsThread
CHECK_DEADLOCK FALSE
