CONSTANTS
    c1 = c1
    c2 = c2
    i1 = i1
    i2 = i2
    Bkg = Bkg
    Threads = {c1, c2}
    Ids = {i1, i2}
    IdOf <- TwoSessions
    RunOptions <- SaverAfterRuns
    InitModes = {}
    Outcomes = {"applied"}
    ThreadMayFail = FALSE
    MaxInflight = 3
SPECIFICATION FairSpec
INVARIANTS CountMatchesRuns NeverDroppedMidRun BoostedIdsAreLive
PROPERTY CallsComplete
CHECK_DEADLOCK FALSE
