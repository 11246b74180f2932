SPECIFICATION Spec
CONSTANTS
    t1 = t1
    t2 = t2
    c1 = c1
    c2 = c2
    Threads = {t1, t2}
    Contexts = {c1, c2}
    Addresses = {0, 1}
    Sizes = {1, 2}
SYMMETRY Symmetry
INVARIANTS
    NothingNamesFreedMemory
    LookUpFindsAllocation
    BoundTensorsRegistered
    UnregisterFindsHandle
    CleanUpOnLiveRecord
