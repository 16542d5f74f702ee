SPECIFICATION Spec
CONSTANTS
    Requests = {r1, r2, r3}
    Scopes = {ip1, ip2}
    Limit = 1
    Window = 3
    TicksPerSecond = 2
    MaxDelay = 3
    MaxTime = 9
SYMMETRY RequestSymmetry
INVARIANTS
    RejectedOnlyOverLimit
    GrantedWithinLives
    CountersSelfExpire
    RetryReachesNewWindow
