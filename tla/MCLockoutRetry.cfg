SPECIFICATION Spec
CONSTANTS
    Requests = {r1, r2}
    Users <- MCUsers
    IPs <- MCOneIP
    Calls <- MCFailures
    MaxAttempts = 1
    Window = 4
    LockTTL = 7
    TicksPerSecond = 4
    MaxTime = 7
SYMMETRY RequestSymmetry
INVARIANTS
    RetryAfterNearlySuffices
