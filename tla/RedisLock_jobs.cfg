SPECIFICATION Spec
CONSTANTS
    i1 = i1
    i2 = i2
    r1 = r1
    r2 = r2
    r3 = r3
    r4 = r4
    Instance = {i1, i2}
    Run = {r1, r2, r3, r4}
    On <- TwoEach
    NoRun = NoRun
    MaxCrashes = 2
INVARIANT OneJob
PROPERTIES OthersKeepTheirs FreedByHolder
CHECK_DEADLOCK FALSE
