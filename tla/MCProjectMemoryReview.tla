----------------------- MODULE MCProjectMemoryReview -----------------------
EXTENDS ProjectMemoryReview, TLC

\* Requests of one kind are interchangeable.
RequestSymmetry == Permutations(Reviews) \cup Permutations(Kickoffs)

=============================================================================
