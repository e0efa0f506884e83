----------------------- MODULE MCProjectMemoryQueue ------------------------
EXTENDS ProjectMemoryQueue, TLC

\* The drain loops are interchangeable, and so are the scheduled jobs.
QueueSymmetry == Permutations(Drains) \cup Permutations(Scheduled)

=============================================================================
