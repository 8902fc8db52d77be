CONSTANTS
    Worker = {w1, w2, w3}
    Task = {t1, t2, t3}
    NoTask = NoTask
    ShutdownModes = {TRUE, FALSE}
    OutOfMemory = TRUE
SPECIFICATION Spec
SYMMETRY Symmetry
INVARIANTS
    TypeOK
    TaskAccounted
    WokenForEveryTask
    ResultIsAnnounced
PROPERTY TaskPromise
