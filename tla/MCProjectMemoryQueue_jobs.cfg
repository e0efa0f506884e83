CONSTANTS
    Scheduled = {i}
    Requested = {r}
    Drains = {d1, d2}
    Commands = {c}
    Digests = {x, y}
    Signals = {x}
    MaxAttempts = 2
    MaxChanges = 1

SPECIFICATION FairSpec

INVARIANTS
    TypeOK
    FencedOutcomes
PROPERTIES
    SettledStaysSettled
    ImplementsCaptures
    JobsSettle

CHECK_DEADLOCK FALSE
