CONSTANTS
    Attempts = {a1, a2}
    Callbacks = {c1, c2}
    Requests = {r1}
    Members = {u1, u2}
    LoginLife = 1
    Retention = 1
    IdleLife = 2
    SessionLife = 3
    MaxTime = 3
    MaxLinks = 2

SPECIFICATION Spec

SYMMETRY IdentitySymmetry

INVARIANTS
    TypeOK
    OneSessionPerAttempt
    LiveSessionsOfTheLink

PROPERTY UsedWithinLife

CHECK_DEADLOCK FALSE
