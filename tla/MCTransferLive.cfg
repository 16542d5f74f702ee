SPECIFICATION FairSpec
CONSTANTS
    Requests = {r1, r2, r3}
    Accounts <- MCAccounts
    Owner <- MCOwner
    Seeded <- MCAccounts
    Opening <- MCOpening
    MaxCents <- MCMaxCents
    Calls <- MCSame
    MaxRetries = 2
    PoolSize = 2
    None = None
PROPERTIES
    EveryRequestAnswered
    LocksReleased
