--------------------------- MODULE MCControlPlane ---------------------------
EXTENDS ControlPlane, TLC

\* Evaluators are interchangeable.
EvaluatorSymmetry == Permutations(Evaluators)

\* What the run's property tells apart, and what decides which steps may come:
\* not what review and the outbox keep, nor the contents of committed runs, nor
\* the packet of a bootstrap that will find a checkpoint.
EvaluationView ==
    <<packet, changes, checkpoint, epistemic, due, throws, queueVars,
      [i \in DOMAIN runs |-> <<runs[i].event, runs[i].late>>],
      Cardinality({n \in DOMAIN transitions : transitions[n].to = "stale"}),
      [w \in Processes |-> IF w \in Operators /\ checkpoint # NoPacket
                           THEN process[w].pc ELSE process[w]]>>

=============================================================================
