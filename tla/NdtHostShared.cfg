SPECIFICATION Spec
CONSTANTS
    r1 = r1
    r2 = r2
    None = None
    Noisy = FALSE
    Runs <- TwoRuns
    Iters <- OneIter
    Kunit <- NoRuns
SYMMETRY RunSymmetry
INVARIANTS
    OwnVerdict
CHECK_DEADLOCK FALSE
