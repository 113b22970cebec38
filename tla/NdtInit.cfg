SPECIFICATION FairSpec
CONSTANTS
    Devs = {nodev, nvme0n1}
    MaxIter = 3
    MaxTries = 3
INVARIANTS
    HonestTally
    IInv
PROPERTIES
    ImplementsContract
    TestModeEnds
CHECK_DEADLOCK FALSE
