SPECIFICATION Spec
CONSTANTS
    Up = 0
    Down = 3
    Chunk = 2
    Window = 2
INVARIANT AnswerIsForwarded
CHECK_DEADLOCK FALSE
