CONSTANTS
    Evidence = {a}
    Prepared = a
    Evaluators = {v1, v2}
    Operators = {o}
    CatchUp = FALSE
    MaxEvents = 2
    MaxThrows = 0
    MaxStale = 0

SPECIFICATION Spec

SYMMETRY EvaluatorSymmetry

INVARIANT
    SettledCheckpointCurrent
