\* Two records of one connected source and an external artifact, two contents
\* with evidence and one without, two runs of each kind, and three changes in
\* the sources while the runs list, commit and fail.
CONSTANTS
    n = n
    m = m
    f = f
    research = research
    external = external
    Connected = {research}
    External = {external}
    Objects = {n, m, f}
    SourceOf <- MCSourceOf
    Contents = {u, v, w}
    Evidential = {u, v}
    Syncs = {k1, k2}
    Perceptions = {p1, p2}
    MaxEdits = 3
SPECIFICATION Spec
SYMMETRY RunSymmetry
INVARIANTS
    TypeOK
    CursorCoversContent
    ChangesAnnouncedOnce
    TombstonesRetire
