SPECIFICATION Spec
CONSTANTS
    d1 = d1
    d2 = d2
    m1 = m1
    Fallback = Fallback
    Array = Array
    All = All
    Devs <- TwoDevs
    Mods <- OneMod
    MaxGroups = 2
    MaxTests = 2
    MaxConds = 2
SYMMETRY DevSymmetry
INVARIANTS
    CInv
    DeviceFailSeen
    NotRunEarned
    CleanStart
    ModulesRemoved
    NeedsMet
CHECK_DEADLOCK FALSE
