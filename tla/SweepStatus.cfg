SPECIFICATION Spec
CONSTANTS
    ROs = {r1}
    ChunkLimit = 1
    MaxRestarts = 1
    MaxReadFailures = 2
    Callers = {c1}
    NoCaller = NoCaller
    MaxSweeps = 1
    MaxCrashes = 0
    LostAnswers = FALSE
    StopsInLaunch = FALSE
    StatusInLaunch = TRUE
INVARIANTS BatchesOneAfterAnother
