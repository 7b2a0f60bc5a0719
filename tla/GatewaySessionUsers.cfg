SPECIFICATION Spec
CONSTANTS
    u1 = u1
    u2 = u2
    t1 = t1
    t2 = t2
    Users = {u1, u2}
    SystemUser = u1
    Threads = {t1, t2}
    NoThread = NoThread
    Datasets = {"d1", "d2"}
    Filters = {"all", "norare", "half"}
    Quantities = {"spend"}
    Measures = {"sum", "mean", "r1", "r2"}
    NoQuantity = "none"
    Queries <- MCFewQueries
    Bound <- MCBound
    Threshold = 2
    Budget = 2
    MaxHistory = 3
    Faults = {"raise", "lost"}
    MaxRows = 3
    MaxCrashes = 1
SYMMETRY ThreadSymmetry
CHECK_DEADLOCK FALSE
INVARIANTS
    ReleaseIsLogged
    ReplayAgrees
