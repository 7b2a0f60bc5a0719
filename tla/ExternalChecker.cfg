SPECIFICATION FairSpec
CONSTANTS
    t1 = t1
    t2 = t2
    v1 = v1
    v2 = v2
    Threads = {t1, t2}
    NoThread = NoThread
    Versions = {v1, v2}
    NoVersion = NoVersion
    MaxStarts = 2
    MaxAsks = 2
    MaxChatter = 1
    MaxHangs = 1
CHECK_DEADLOCK FALSE
INVARIANTS
    Consistent
PROPERTIES
    VersionSettles
    PipeComesFree
