SPECIFICATION FairSpec
CONSTANTS
    MaxCmds = 3
    MaxNum = 1
    None = None
INVARIANTS
    NoOrphan
    LiveServed
    DelDone
    OwnOnly
    RecoverChecked
PROPERTIES
    DelEnds
CHECK_DEADLOCK FALSE
