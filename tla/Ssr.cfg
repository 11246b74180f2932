\* Two threads, two models that share one context binary, one crash after the
\* other.
SPECIFICATION Spec
CONSTANTS
    Threads = {"t", "u"}
    Models = {"a", "b"}
    Binaries = {"x.bin"}
    BinOf <- OneBinary
    SharedMemory = {TRUE, FALSE}
    OtherErrors = FALSE
    ReloadMayFail = TRUE
    MaxCrashes = 2
INVARIANT OneContextPerBinary
PROPERTIES RecoveryIsTransparent FreesOnlyDeadContexts RunsReturn
