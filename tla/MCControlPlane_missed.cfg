CONSTANTS
    Evidence = {a, b}
    Prepared = a
    Evaluators = {v1, v2}
    Operators = {o}
    CatchUp = TRUE
    MaxEvents = 1
    MaxThrows = 1
    MaxStale = 0
    Monitor = m
    MaxAttempts = 1
    MaxOverruns = 0
    MaxCrashes = 1

SPECIFICATION PlaneSpec

SYMMETRY EvaluatorSymmetry

VIEW EvaluationView

INVARIANT NoChangeMissedSilently
