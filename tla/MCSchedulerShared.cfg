CONSTANTS
    Coro = {c1, c2, c3}
    Future = {f1}
    Nobody = Nobody
    MaxGather = 2
    MaxYields = 0
    MaxScripts = 1
    SharedAwait = TRUE
    Faults = FALSE
SPECIFICATION Spec
SYMMETRY Symmetry
INVARIANT NoLostWaiter
