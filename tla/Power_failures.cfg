CONSTANTS
    c1 = c1
    c2 = c2
    i1 = i1
    i2 = i2
    Bkg = Bkg
    Threads = {c1}
    Ids = {i1}
    IdOf <- OneClient
    RunOptions <- MixedRuns
    InitModes = {"Burst", "Default", "ExtremePowerSaver"}
    Outcomes = {"applied", "rejected", "error"}
    ThreadMayFail = TRUE
    MaxInflight = 3
SPECIFICATION Spec
INVARIANT NothingCountedAtRest
