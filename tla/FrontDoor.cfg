SPECIFICATION Spec
CONSTANTS
    a = a
    b = b
    c = c
    Logins = {a, b, c}
    Allowlists = {{}, {a, b}}
    Capacity = 2
    VerifyCapacity = 1
    Window = 1
    MaxKeys = 1
    MaxRequests = 3
    FewRequests = 1
    MaxTime = 3
SYMMETRY Symmetry
CHECK_DEADLOCK FALSE
INVARIANTS
    IdentitySound
    RefusalsCheap
    LimitersSound
