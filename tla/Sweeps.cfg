SPECIFICATION MCSpec
CONSTANTS
    None = None
    r1 = r1
    r2 = r2
    c1 = c1
    c2 = c2
    ROs = {r1, r2}
    ChunkLimit = 1
    MaxRestarts = 0
    MaxReadFailures = 1
    Callers = {c1, c2}
    NoCaller = NoCaller
    MaxSweeps = 2
    MaxCrashes = 1
    LostAnswers = TRUE
    StopsInLaunch = FALSE
    StatusInLaunch = FALSE
INVARIANTS SweepTruth CoverageTruth
PROPERTIES Final
SYMMETRY Symmetry
