SPECIFICATION FairSpec
CONSTANTS
    t1 = t1
    t2 = t2
    t3 = t3
    c1 = c1
    c2 = c2
    Tasks = {t1, t2, t3}
    Callers = {c1, c2}
    StartMayFail = TRUE
    NoSubmitter = NoSubmitter
INVARIANTS
    TypeOK
    LockIsHeldByOne
    ThreadIsFound
    NobodyIsInside
PROPERTIES
    DestructionEnds
    AcceptedTasksAreRun
CHECK_DEADLOCK FALSE
