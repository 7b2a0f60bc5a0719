SPECIFICATION Spec
CONSTANTS
    MaxSteps = 3
    Budget = 3
    MaxCost = 2
    Retries = 1
    HttpRetries = 1
    Conclusions <- MCConclusions
CHECK_DEADLOCK FALSE
INVARIANTS
    DossierSound
    WorkAccounted
PROPERTIES
    LoopEnds
