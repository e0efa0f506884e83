CONSTANTS
    MonitorPolicies = {m}
    DiscoveryPolicies = {}
    Events = {e}
    MonitorWorkers = {w1}
    DiscoveryWorkers = {}
    Operable = {}
    Endable = {m}
    MaxAttempts = 3
    MaxOverruns = 0
    MaxCrashes = 0

SPECIFICATION Spec

INVARIANT EndingStrandsNoJob

CHECK_DEADLOCK FALSE
