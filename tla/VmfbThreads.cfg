SPECIFICATION FairSpec
CONSTANTS
    c1 = c1
    c2 = c2
    p1 = p1
    p2 = p2
    oldLib = oldLib
    Nothing = Nothing
    Failed = Failed
    newLib = newLib
    Callers = {c1, c2}
    Pids = {p1, p2}
    PidOf <- TwoThreads
    Requests <- TwoRequests
    Libraries = {oldLib}
    Revision <- DistinctRevisions
    Stat <- DistinctStats
    LostWrites = {"short"}
    Limit <- ThreadEvents
INVARIANTS
    CacheInv
    AnswersAreOwn
PROPERTY CallsReturn
CHECK_DEADLOCK FALSE
