SPECIFICATION Spec
CONSTANTS
    Plans <- MCPlans
    Outcomes = {"released", "denied"}
    SelectionBudget = 1
    MaxSparse = 1
    MaxRuns = 2
    MaxForeign = 1
    MaxCrashes = 1
CHECK_DEADLOCK FALSE
INVARIANTS
    LedgerSound
    PrecommittedSound
    EvidenceSound
