SPECIFICATION FairSpec
CONSTANTS
    p1 = p1
    p2 = p2
    w1 = w1
    w2 = w2
    w3 = w3
    Procs = {p1}
    NoProc = NoProc
    Workers = {w1, w2}
    NoWorker = NoWorker
    ProcOf <- MCProcOf
    Faults = {"insert", "commit", "checkpoint", "mark", "sync", "reader"}
    AllowUnmarked = FALSE
    MaxRows = 3
    MaxMac = 3
    MaxCrashes = 1
    MaxRestores = 0
CHECK_DEADLOCK FALSE
INVARIANT
    NoFalseAlarm
PROPERTY
    AppendEnds
