CONSTANTS
    supplier = supplier
    onboarded = onboarded
    governs = governs
    Names = {supplier, onboarded, governs}
    Relationships = {onboarded, governs}
    Requires <- MCRequires
    Proposals = {q1, q2}
    Policies = {p1, p2}
    MaxVersions = 3
    MaxRuns = 2

SPECIFICATION Spec

SYMMETRY OntologySymmetry

INVARIANTS
    TypeOK
    NeverRebased
    ValidatedStaysValid
    ReceiptsListCandidates
    RunsUnderCurrentOntology

CHECK_DEADLOCK FALSE
