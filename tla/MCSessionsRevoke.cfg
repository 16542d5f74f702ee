SPECIFICATION Spec
CONSTANTS
    Requests = {r1, r2, r3}
    Users <- MCAlice
    Old <- MCOld
    OldUser <- MCOldUser
    Ops = {"login", "me", "change", "forgot", "reset"}
    Idle = 1
    Absolute = 1
    ResetTTL = 1
    MaxDelay = 0
    MaxTime = 0
    None = None
SYMMETRY RequestSymmetry
INVARIANTS
    RevokedUnlessRaced
    TokenSpentOnce
PROPERTIES
    FreshSessionSurvives
