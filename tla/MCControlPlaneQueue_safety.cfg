CONSTANTS
    MonitorPolicies = {m}
    DiscoveryPolicies = {d}
    Events = {e}
    MonitorWorkers = {w1, w2}
    DiscoveryWorkers = {x1}
    Operable = {m}
    Endable = {m}
    MaxAttempts = 2
    MaxOverruns = 1
    MaxCrashes = 1

SPECIFICATION FairSpec

INVARIANTS
    TypeOK
    ProcessedMeansEvaluated
    AttemptsAccounted
    LeasesAccounted

PROPERTIES
    ImplementsLedger
    ReopenedOnlyAfterOverrun
    JobsSettle
