SPECIFICATION Spec
CONSTANTS
    r1 = r1
    r2 = r2
    None = None
    Noisy = TRUE
    Runs <- OneRun
    Iters <- OneIterOne
    Kunit <- NoRuns
INVARIANTS
    NoLeakedQemu
CHECK_DEADLOCK FALSE
