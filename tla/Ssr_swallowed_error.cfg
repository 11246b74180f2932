\* One thread: graphExecute may fail in other ways than by a crash.
SPECIFICATION Spec
CONSTANTS
    Threads = {"t"}
    Models = {"a"}
    Binaries = {"x.bin"}
    BinOf <- OneBinary
    SharedMemory = {TRUE, FALSE}
    OtherErrors = TRUE
    ReloadMayFail = FALSE
    MaxCrashes = 1
INVARIANT OkMeansExecuted
