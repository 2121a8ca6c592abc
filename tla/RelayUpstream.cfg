SPECIFICATION Spec
CONSTANTS
    Up = 5
    Down = 0
    Chunk = 2
    Window = 2
INVARIANT UpstreamHasNoGap
CHECK_DEADLOCK FALSE
