SPECIFICATION StorageSpec
CONSTANTS
    MaxTransforms = 2
    Size = 5
    Chunk = 3
    MaxSize = 3
    Versions = 1
    Depth = 3
    Steps = 10
INVARIANTS
    ClosedOnceFromTheTop
    OutcomeIsTrue
    ConnectionHasOwner
    DeliversEverything
    OneVersion
    RangesExact
    MkdirTellsTheTruth
    
    RemoteNeedsLeave
    InferenceUndoesWriting
    
    SameFailureSameError
    CallerErrorSurvives
    
    ResolvedPairConnects
CHECK_DEADLOCK FALSE
