SPECIFICATION FairSpec
CONSTANTS
    Up = 5
    Down = 5
    Chunk = 2
    Window = 2
INVARIANTS
    DownstreamHasNoGap
PROPERTY DownstreamAdvances
CHECK_DEADLOCK FALSE
