CONSTANTS
    Evidence = {a, b}
    Prepared = a
    Evaluators = {v1, v2}
    Operators = {o}
    CatchUp = TRUE
    MaxEvents = 1
    MaxThrows = 1
    MaxStale = 1

SPECIFICATION Spec

SYMMETRY EvaluatorSymmetry

VIEW UnreadHidden

INVARIANTS
    TypeOK
    DeltasExplainCheckpoint
    TransitionsChain
    OnlyLateRunsMislead

PROPERTY ImplementsEvaluations
