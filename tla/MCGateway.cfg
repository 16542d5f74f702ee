SPECIFICATION FairSpec
CONSTANTS
    Checks = {postgres, redis}
    PingTimeout = 2
    ReadTimeout = 2
    WriteTimeout = 3
    RequestTimeouts = {1, 6}
    Overrun = 1
    MaxDelay = 3
    Huge <- MCHuge
    Methods <- MCMethods
    ApiPaths <- MCApiPaths
    SitePaths <- MCSitePaths
    DelayArgs <- MCDelayArgs
    StatusArgs <- MCStatusArgs
INVARIANTS
    ContractEnforced
    AnswerOnContract
    ProbesTruthful
    AnswersInTime
    DelayHonoured
PROPERTIES
    EveryRequestEnds
