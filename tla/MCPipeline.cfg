CONSTANTS
    IndentMax = 7
    PendingSlots = 4
    BreakMax = 64
    FramesMax = 8
    HandlerMax = 64
    Programs <- MCPrograms
    Unrun <- MCUnrun
SPECIFICATION Spec
INVARIANTS
    LevelsBalance
    ParsesBack
    StackDiscipline
    UpvaluesLive
    HandlersLive
PROPERTIES
    RunsAsWritten
    Terminates
