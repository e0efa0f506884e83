------------------------ MODULE MCControlPlaneQueue ------------------------
EXTENDS ControlPlaneQueue, TLC

\* Drain loops of one queue are interchangeable.
WorkerSymmetry == Permutations(MonitorWorkers) \cup Permutations(DiscoveryWorkers)

=============================================================================
