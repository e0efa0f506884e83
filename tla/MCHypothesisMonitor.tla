------------------------ MODULE MCHypothesisMonitor ------------------------
EXTENDS HypothesisMonitor, TLC

\* Evaluators are interchangeable.
EvaluatorSymmetry == Permutations(Evaluators)

\* All but what has been read: it guards markRead alone, and no property of the
\* run asks more of it than that only sent notifications are unread.
UnreadHidden ==
    <<packet, changes, process, baseline, checkpoint, runs, candidate, epistemic,
      due, transitions, sent, throws>>

=============================================================================
