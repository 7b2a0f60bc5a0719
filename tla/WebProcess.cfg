SPECIFICATION Spec
CONSTANTS
    u1 = u1
    u2 = u2
    u3 = u3
    Users = {u1, u2, u3}
    NoUser = NoUser
    MaxRequests = 3
    Kinds = {"query", "analysis", "stream", "probe"}
    MaxSessions = 2
    Threads = 2
    MaxAbandoned = 1
    MaxAbandonedTotal = 2
    Steps = 1
    MaxRestored = 1
SYMMETRY Symmetry
CHECK_DEADLOCK FALSE
INVARIANTS
    NothingLost
    OnlyStreamsStall
PROPERTIES
    ArrivalsFair
