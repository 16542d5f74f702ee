SPECIFICATION DFairSpec
CONSTANTS
    Requests = {r1, r2}
    MaxSignals = 2
    Configs <- MCConfigs
    Runners = {own, other}
    Own = own
    Migrations = 2
    MaxReruns = 1
    MaxChanges = 2
INVARIANTS
    CleanMeansDrained
    FailureSurfaces
    AppliedOnce
    NeverServesUnmigrated
    ConfigHonoured
PROPERTIES
    NoSignalSwallowed
    SignalEndsRun
