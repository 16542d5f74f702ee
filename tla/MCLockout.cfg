SPECIFICATION Spec
CONSTANTS
    Requests = {r1, r2, r3}
    Users <- MCUsers
    IPs <- MCIPs
    Calls <- MCCalls
    MaxAttempts = 2
    Window = 1
    LockTTL = 2
    TicksPerSecond = 1
    MaxTime = 2
SYMMETRY RequestSymmetry
INVARIANTS
    LocksAreEarned
    ThresholdLocks
