CONSTANTS
    IndentMax = 7
    PendingSlots = 4
    BreakMax = 64
    FramesMax = 8
    HandlerMax = 64
    Programs <- MCCrashing
    Unrun <- MCNone
SPECIFICATION Spec
INVARIANT ReachesItsHandler
