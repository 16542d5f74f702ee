SPECIFICATION Spec
CONSTANTS
    Requests = {r1, r2}
    Accounts <- MCAccounts
    Owner <- MCOwner
    Seeded <- MCSeeded
    Opening <- MCOpening
    MaxCents <- MCMaxCents
    Calls <- MCCalls
    MaxRetries = 2
    PoolSize = 2
    None = None
INVARIANTS
    TypeOK
    BalancesInRange
    FundsStillThere
    AtMostOnce
    AnswersMatchLedger
    LedgerExplainsBalances
    NoDeadlock
PROPERTIES
    RefusalIsCurrent
    ImplementsBank
