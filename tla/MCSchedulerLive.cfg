CONSTANTS
    Coro = {c1, c2}
    Future = {f1, f2}
    Nobody = Nobody
    MaxGather = 1
    MaxYields = 1
    MaxScripts = 1
    SharedAwait = FALSE
    Faults = FALSE
SPECIFICATION FairSpec
PROPERTIES
    ReadyGetsItsTurn
    IoResumesItsWaiter
    DrainTerminates
