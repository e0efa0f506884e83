---------------------------- MODULE MCSourceSync ----------------------------
EXTENDS SourceSync, TLC

CONSTANTS n, m, f, research, external

MCSourceOf == n :> research @@ m :> research @@ f :> external

\* The runs of each kind are interchangeable.
RunSymmetry == Permutations(Syncs) \cup Permutations(Perceptions)

=============================================================================
