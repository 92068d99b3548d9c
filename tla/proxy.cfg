\* three launchers, two process ids, two names for directories: at most three
\* launches in a behaviour, so it ends
SPECIFICATION FairSpec
CONSTANTS
    p1 = p1
    p2 = p2
    Pids = {p1, p2}
    Environments <- MixedFirst
    MaxLaunches = 3
    MaxAttempts = 2
INVARIANTS
    NoOrphanServes
    RoutesLead
PROPERTIES
    LiveDirKept
    DirGoes
CHECK_DEADLOCK FALSE
