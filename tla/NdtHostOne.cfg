SPECIFICATION FairSpec
CONSTANTS
    r1 = r1
    r2 = r2
    None = None
    Noisy = TRUE
    Runs <- OneRun
    Iters <- TenIters
    Kunit <- NoRuns
INVARIANTS
    HInv
    OwnVerdict
PROPERTIES
    ConsoleFinal
    EveryRunEnds
CHECK_DEADLOCK FALSE
