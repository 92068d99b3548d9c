\* two processes with a thread each and a lock that works, or two threads of
\* one process whose lock may fail
SPECIFICATION FairSpec
CONSTANTS
    t1 = t1
    t2 = t2
    p1 = p1
    p2 = p2
    Threads = {t1, t2}
    Processes = {p1, p2}
    Deployments <- LockedOrAlone
    Limit = 3
    Count = 1
    MaxCounter = 1
    LineSizes = {1, 2}
    MaxEvents = 3
    MaxTime = 1
    NoFile = NoFile
    Nobody = Nobody
INVARIANTS
    TypeOK
    TornLinesBounded
    LimitKept
PROPERTIES
    ImplementsSegments
    EveryWriteReturns
\* logging ends with the bound on events
CHECK_DEADLOCK FALSE
