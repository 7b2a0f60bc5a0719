SPECIFICATION FairSpec
CONSTANTS
    u1 = u1
    u2 = u2
    u3 = u3
    Users = {u1, u2}
    NoUser = NoUser
    MaxRequests = 3
    Kinds = {"query", "stream"}
    MaxSessions = 2
    Threads = 1
    MaxAbandoned = 1
    MaxAbandonedTotal = 2
    Steps = 1
    MaxRestored = 0
CHECK_DEADLOCK FALSE
PROPERTY
    CrossUserParallel
