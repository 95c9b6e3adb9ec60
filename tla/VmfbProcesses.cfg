SPECIFICATION Spec
CONSTANTS
    c1 = c1
    c2 = c2
    p1 = p1
    p2 = p2
    oldLib = oldLib
    Nothing = Nothing
    Failed = Failed
    newLib = newLib
    Callers = {c1, c2}
    Pids = {p1, p2}
    PidOf <- TwoProcesses
    Requests <- OneRequest
    Libraries = {oldLib, newLib}
    Revision <- DistinctRevisions
    Stat <- DistinctStats
    LostWrites = {"short"}
    Limit <- ProcessEvents
INVARIANTS
    ServedEntriesAreWhole
    NoRedundantCompile
PROPERTIES
    CacheIsTransparent
    PublishedIsStable
CONSTRAINT AtMostTwoFaults
CHECK_DEADLOCK FALSE
