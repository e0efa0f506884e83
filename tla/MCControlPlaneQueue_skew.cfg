CONSTANTS
    MonitorPolicies = {m}
    DiscoveryPolicies = {d}
    Events = {e}
    MonitorWorkers = {w1}
    DiscoveryWorkers = {x1}
    Operable = {}
    Endable = {}
    MaxAttempts = 3
    MaxOverruns = 0
    MaxCrashes = 0

SPECIFICATION Spec

INVARIANT SettledEventIsMarked

CHECK_DEADLOCK FALSE
