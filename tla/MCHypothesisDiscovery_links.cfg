CONSTANTS
    a = a
    b = b
    c = c
    supplier = supplier
    perception = perception
    research = research
    calls = calls
    alex = alex
    sam = sam
    Policies = {supplier, perception}
    Supplier = supplier
    Documents = {a, b, c}
    Perceived = {b, c}
    OwnerOf <- MCOwnerOf
    SourceOf <- MCSourceOf
    NumRules = 2
    MinimumDiversity = 2
    Corpora <- MCCorpora
    Fixture <- MCFixture
    MaxRuns = 3
    MaxMonitors = 1

SPECIFICATION Spec

INVARIANT ObservationsPreserved

CHECK_DEADLOCK FALSE
