SPECIFICATION Spec
CONSTANTS
    p1 = p1
    p2 = p2
    w1 = w1
    w2 = w2
    w3 = w3
    Procs = {p1, p2}
    NoProc = NoProc
    Workers = {w1, w3}
    NoWorker = NoWorker
    ProcOf <- MCProcOf
    Faults = {"insert", "commit", "checkpoint", "mark", "sync"}
    AllowUnmarked = FALSE
    MaxRows = 3
    MaxMac = 4
    MaxCrashes = 1
    MaxRestores = 1
CHECK_DEADLOCK FALSE
INVARIANTS
    Consistent
    VerifiesOnceMarked
    AckedSurvive
    AnchoredRowsKept
    CopyComplete
