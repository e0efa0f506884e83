CONSTANTS
    Hashes = {h1, h2}
    Limit = 1
    Artifacts = {a, b}
    Reviews = {q1, q2}
    Kickoffs = {k1, k2}
    MaxChanges = 1
    MaxSyncs = 1

SPECIFICATION Spec

PROPERTY CorrectionCreatesApproved

CHECK_DEADLOCK FALSE
