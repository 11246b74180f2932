CONSTANTS
    t1 = t1
    t2 = t2
    t3 = t3
    Bkg = Bkg
    Threads = {t1, t2, t3}
SPECIFICATION SystemSpec
INVARIANT NoLostWakeup
PROPERTIES CallsReturn CountdownEnds
CHECK_DEADLOCK FALSE
