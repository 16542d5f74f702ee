SPECIFICATION Spec
CONSTANTS
    Requests = {r1, r2}
    Users <- MCUsers
    Old <- MCOld
    OldUser <- MCOldUser
    Ops = {"register", "login", "me", "logout", "change", "forgot", "reset"}
    Idle = 2
    Absolute = 3
    ResetTTL = 1
    MaxDelay = 1
    MaxTime = 4
    None = None
SYMMETRY RequestSymmetry
INVARIANTS
    AbsoluteIsHard
    IndexOutlivesSessions
