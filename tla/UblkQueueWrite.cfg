SPECIFICATION Spec
CONSTANTS
    Depth = 2
INVARIANTS
    WriteIntact
CHECK_DEADLOCK FALSE
