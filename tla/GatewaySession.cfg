SPECIFICATION FairSpec
CONSTANTS
    u1 = u1
    u2 = u2
    t1 = t1
    t2 = t2
    Users = {u1}
    SystemUser = u1
    Threads = {t1, t2}
    NoThread = NoThread
    Datasets = {"d1", "d2"}
    Filters = {"all", "norare", "half"}
    Quantities = {"spend"}
    Measures = {"sum", "mean", "r1", "r2"}
    NoQuantity = "none"
    Queries <- MCQueries
    Bound <- MCBound
    Threshold = 2
    Budget = 3
    MaxHistory = 3
    Faults = {"raise", "torn", "lost"}
    MaxRows = 4
    MaxCrashes = 1
CHECK_DEADLOCK FALSE
INVARIANTS
    Consistent
    LineageSafe
    TotalsSafe
    OneRowPerRequest
    PaidBeforehand
    ReplayNeverRefunds
PROPERTIES
    ImplementsLedger
    LockReleased
