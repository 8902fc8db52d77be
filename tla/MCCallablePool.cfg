CONSTANTS
    Worker = {w1, w2}
    Main = Main
    Task = {t1, t2, t3}
    NoTask = NoTask
SPECIFICATION FairSpec
INVARIANTS
    TypeOK
    WokenForEveryTask
    OutcomeIsOwn
    FreedWhenDone
PROPERTIES
    TaskPromise
    EveryTaskAnswered
    ShutdownReturns
