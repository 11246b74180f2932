SPECIFICATION Spec
CONSTANTS
    NumJobs = 5
    MaxThreads = 3
INVARIANTS
    JobsUseComposedModels
    BoostedWhileFinalizing
    PublishedAreFinalized
    NothingLeftBehind
PROPERTIES
    CompileReturns
