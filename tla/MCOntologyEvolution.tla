------------------------ MODULE MCOntologyEvolution ------------------------
EXTENDS OntologyEvolution, TLC

CONSTANTS supplier, onboarded, governs

\* One relationship's endpoint is the new type, the other's are existing ones.
MCRequires == supplier :> {} @@ onboarded :> {supplier} @@ governs :> {}

\* Policies are interchangeable, and so are proposals.
OntologySymmetry == Permutations(Policies) \cup Permutations(Proposals)

=============================================================================
