CONSTANTS
    Worker = {w1, w2}
    Task = {t1, t2}
    NoTask = NoTask
    ShutdownModes = {TRUE, FALSE}
    OutOfMemory = FALSE
SPECIFICATION Spec
INVARIANT ClosedWithoutLoss
