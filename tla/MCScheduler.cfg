CONSTANTS
    Coro = {c1, c2, c3}
    Future = {f1, f2}
    Nobody = Nobody
    MaxGather = 2
    MaxYields = 1
    MaxScripts = 2
    SharedAwait = FALSE
    Faults = TRUE
SPECIFICATION Spec
SYMMETRY Symmetry
INVARIANTS
    TypeOK
    ReadyQueueSound
    ResumesWithItsAnswer
    PendingIoExact
    NoLostWaiter
    GatherInOrder
    GatherResolvesWhenDone
PROPERTIES
    QuietOnlyWhenStuck
    FutureOutlivesRequest
    PromiseKept
