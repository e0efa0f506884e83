------------------------- MODULE HypothesisMonitor -------------------------
(***************************************************************************)
(* What a monitor job does once it is claimed: it assembles the evidence   *)
(* packet the service actor may see, compares it with the policy's         *)
(* checkpoint and commits the run, its evidence deltas, the memory         *)
(* candidates, the hypothesis's epistemic state and the notifications.     *)
(* Around it: the bootstrap that creates the first checkpoint, the         *)
(* staleness scan and the human review of memory candidates.               *)
(*                                                                         *)
(* The module follows one active policy and its hypothesis.  A packet is   *)
(* what the context service returns, reduced to the stance of each         *)
(* evidence resource; it is read in transactions of its own, before the    *)
(* transaction that commits the run.  Which worker claims which event is   *)
(* ControlPlaneQueue's: here any evaluator may take any recorded event,    *)
(* also one that another holds, as a lapsed lease allows.                  *)
(***************************************************************************)
EXTENDS Naturals, Sequences, FiniteSets, SequencesExt

CONSTANTS
    Evidence,       \* evidence resources that may enter the packet
    Prepared,       \* the evidence of the prepared research mutation
    Evaluators,     \* processes inside evaluateMonitorEvent
    Operators,      \* processes inside initializeDefaultMonitor
    CatchUp,        \* whether they pass catchUpPreparedMutation
    MaxEvents,      \* bound: source-change events but the bootstrap's
    MaxThrows,      \* bound: evaluations and bootstraps that fail or die
    MaxStale        \* bound: transitions to 'stale'

ASSUME MonitorAssumption ==
    /\ Prepared \in Evidence
    /\ Evaluators \cap Operators = {}
    /\ CatchUp \in BOOLEAN
    /\ MaxEvents \in Nat /\ MaxThrows \in Nat /\ MaxStale \in Nat

Processes == Evaluators \cup Operators

Stances == {"SUPPORTS", "CONTRADICTS"}
Packets == [Evidence -> Stances \cup {"absent"}]
NoPacket == [x \in {} |-> "absent"]

VARIABLES
    packet,         \* what the service actor's context query returns now
    changes,        \* events 1..changes are recorded, each with one job
    process,        \* process[w]: what w is doing, in its memory
    baseline,       \* the snapshot the bootstrap wrote, or NoPacket
    checkpoint,     \* the policy's latest_snapshot, or NoPacket
    runs,           \* monitor_runs in commit order; 'late' notes, for the
                    \* properties, that another run committed since the
                    \* packet was read
    candidate,      \* status of the candidate of an event and an evidence
    epistemic,      \* hypothesis_records.epistemic_status
    due,            \* the evidence refresh window has passed
    transitions,    \* epistemic hypothesis_transitions in commit order
    sent,           \* deduplication keys in the notification outbox
    unread,         \* those not yet 'read'
    throws          \* failed or dead attempts so far

vars == <<packet, changes, process, baseline, checkpoint, runs, candidate,
          epistemic, due, transitions, sent, unread, throws>>

Events == 1..(MaxEvents + 1)
Candidates == Events \X Evidence
EpistemicStatus == {"untested", "insufficient", "supported", "contested", "refuted", "stale"}

Idle == [pc |-> "idle"]

TypeOK ==
    /\ packet \in Packets
    /\ changes \in 0..(MaxEvents + 1)
    /\ baseline \in Packets \cup {NoPacket}
    /\ checkpoint \in Packets \cup {NoPacket}
    /\ \A w \in Processes : process[w].pc \in
        {"idle", "reading", "assembled", "comparing", "initializing", "catching-up"}
    /\ candidate \in [Candidates -> {"none", "proposed", "accepted", "dismissed"}]
    /\ epistemic \in EpistemicStatus
    /\ due \in BOOLEAN
    /\ unread \subseteq sent
    /\ throws \in 0..MaxThrows

Init ==
    /\ packet \in Packets
    /\ changes = 0
    /\ process = [w \in Processes |-> Idle]
    /\ baseline = NoPacket
    /\ checkpoint = NoPacket
    /\ runs = <<>>
    /\ candidate = [c \in Candidates |-> "none"]
    /\ epistemic = "untested"
    /\ due = FALSE
    /\ transitions = <<>>
    /\ sent = {}
    /\ unread = {}
    /\ throws = 0

-----------------------------------------------------------------------------
(* Pure parts *)

Holding(p, stance) == {x \in Evidence : p[x] = stance}

evidenceStatus(p) ==
    IF Holding(p, "SUPPORTS") = {}
    THEN IF Holding(p, "CONTRADICTS") = {} THEN "insufficient" ELSE "refuted"
    ELSE IF Holding(p, "CONTRADICTS") = {} THEN "supported" ELSE "contested"

\* Mutant: a change of stance is not a delta.
compareMembership(before, after) ==
    {[evidence |-> x, from |-> before[x], to |-> after[x]] :
        x \in {y \in Evidence : (before[y] = "absent") # (after[y] = "absent")}}

compareSnapshots(before, after) ==
    {[evidence |-> x, from |-> before[x], to |-> after[x]] :
        x \in {y \in Evidence : before[y] # after[y]}}

deriveMemoryCandidates(deltas) == {d.evidence : d \in {f \in deltas : f.to # "absent"}}

projectionWithoutPreparedMutation(p) == [p EXCEPT ![Prepared] = "absent"]

-----------------------------------------------------------------------------
(* Helpers *)

At(w, c) == process[w].pc = c

Evaluated(e) == \E i \in DOMAIN runs : runs[i].event = e

\* Mutant: the checkpoint is read without FOR UPDATE.
PolicyUnlocked == FALSE

\* The policy row's lock, held from SELECT ... FOR UPDATE to COMMIT.
PolicyLocked == \E w \in Processes : At(w, "comparing")

\* Mutant: the outbox keeps no key of what it delivered.
NotifyUnkeyed(keys) ==
    /\ sent' = sent
    /\ unread' = unread \cup (keys \ sent)

Notify(keys) ==
    /\ sent' = sent \cup keys
    /\ unread' = unread \cup (keys \ sent)

ReviewKeys(cs) == {<<"review", c[1], c[2]>> : c \in cs}

\* ensurePolicy's backfill: one notification per proposed candidate, one per
\* epistemic transition; keys already in the outbox are left as they are.
BackfillKeys ==
    ReviewKeys({c \in Candidates : candidate[c] = "proposed"})
        \cup {<<"transition", n>> : n \in DOMAIN transitions}

-----------------------------------------------------------------------------
(* Sources *)

\* A connector changes at most one evidence of the packet and commits the
\* event with it; scheduled and manual events change nothing.
SourceChanges ==
    /\ changes < MaxEvents
    /\ changes' = changes + 1
    /\ \E x \in Evidence, s \in Stances \cup {"absent"} :
        packet' = [packet EXCEPT ![x] = s]
    /\ UNCHANGED <<process, baseline, checkpoint, runs, candidate, epistemic, due,
                   transitions, sent, unread, throws>>

-----------------------------------------------------------------------------
(* evaluateMonitorEvent *)

UnchangedDurable ==
    UNCHANGED <<packet, changes, baseline, checkpoint, runs, candidate, epistemic,
                due, transitions, sent, unread>>

\* First transaction: nothing to do for an event that has its run.
evaluateReadsConfiguration(w) ==
    /\ w \in Evaluators
    /\ At(w, "idle")
    /\ \E e \in 1..changes :
        /\ ~Evaluated(e)
        /\ process' = [process EXCEPT ![w] = [pc |-> "reading", event |-> e]]
    /\ UnchangedDurable /\ UNCHANGED throws

assembleContext(w) ==
    /\ At(w, "reading")
    /\ process' = [process EXCEPT ![w] =
            [pc |-> "assembled", event |-> process[w].event, seen |-> packet,
             known |-> Len(runs)]]
    /\ UnchangedDurable /\ UNCHANGED throws

\* Second transaction: lock the policy and read the checkpoint to compare with.
evaluateLocksPolicy(w) ==
    /\ At(w, "assembled")
    /\ ~PolicyLocked
    /\ checkpoint # NoPacket
    /\ process' = [process EXCEPT ![w] =
            [pc |-> "comparing", event |-> process[w].event, seen |-> process[w].seen,
             known |-> process[w].known, before |-> checkpoint]]
    /\ UnchangedDurable /\ UNCHANGED throws

\* Mutant: leaving 'stale' is not a transition.
recordUnlessStale(run, after) ==
    /\ epistemic' = evidenceStatus(after)
    /\ due' = FALSE
    /\ transitions' = IF epistemic \in {evidenceStatus(after), "stale"} THEN transitions
                      ELSE Append(transitions,
                            [from |-> epistemic, to |-> evidenceStatus(after), run |-> run])

\* recordHypothesisEvaluation: the record's own status is the 'previous' one.
recordHypothesisEvaluation(run, after) ==
    /\ epistemic' = evidenceStatus(after)
    /\ due' = FALSE
    /\ transitions' = IF epistemic = evidenceStatus(after) THEN transitions
                      ELSE Append(transitions,
                            [from |-> epistemic, to |-> evidenceStatus(after), run |-> run])

\* ... and its commit, unless another evaluator's run of this event is there.
evaluateCommitsRun(w) ==
    /\ At(w, "comparing")
    /\ LET e == process[w].event
           seen == process[w].seen
           deltas == compareSnapshots(process[w].before, seen)
           proposals == {e} \X deriveMemoryCandidates(deltas)
       IN  /\ ~Evaluated(e)
           /\ runs' = Append(runs, [event |-> e, before |-> process[w].before,
                                    after |-> seen, deltas |-> deltas,
                                    late |-> process[w].known # Len(runs)])
           /\ candidate' = [c \in Candidates |->
                    IF c \in proposals THEN "proposed" ELSE candidate[c]]
           /\ recordHypothesisEvaluation(e, seen)
           /\ Notify(ReviewKeys(proposals) \cup
                     (IF epistemic = evidenceStatus(seen) THEN {}
                      ELSE {<<"run", e, evidenceStatus(seen)>>}))
           /\ checkpoint' = seen
    /\ process' = [process EXCEPT ![w] = Idle]
    /\ UNCHANGED <<packet, changes, baseline, throws>>

\* An attempt ends without effect: the run's unique key, no baseline yet, any
\* error, or the death of the process; its transaction rolls back.
AttemptFails(w) ==
    /\ ~At(w, "idle")
    /\ throws < MaxThrows
    /\ throws' = throws + 1
    /\ process' = [process EXCEPT ![w] = Idle]
    /\ UnchangedDurable

\* The expected failures are not bounded.
AttemptRefused(w) ==
    /\ \/ At(w, "assembled") /\ checkpoint = NoPacket /\ ~PolicyLocked
       \/ At(w, "comparing") /\ Evaluated(process[w].event)
    /\ process' = [process EXCEPT ![w] = Idle]
    /\ UnchangedDurable /\ UNCHANGED throws

-----------------------------------------------------------------------------
(* initializeDefaultMonitor, run by every operator command and bootstrap *)

initializeAssembles(w) ==
    /\ w \in Operators
    /\ At(w, "idle")
    /\ process' = [process EXCEPT ![w] = [pc |-> "initializing", seen |-> packet]]
    /\ UnchangedDurable /\ UNCHANGED throws

\* Mutant: the baseline is written whether or not the policy has one.
initializeAlwaysWrites(w) ==
    /\ At(w, "initializing")
    /\ ~PolicyLocked
    /\ Notify(BackfillKeys)
    /\ baseline' = process[w].seen
    /\ checkpoint' = process[w].seen
    /\ process' = [process EXCEPT ![w] = Idle]
    /\ UNCHANGED <<packet, changes, runs, candidate, epistemic, due, transitions, throws>>

\* ensurePolicy, then the baseline if the policy has none.
initializeCommits(w) ==
    /\ At(w, "initializing")
    /\ ~PolicyLocked
    /\ Notify(BackfillKeys)
    /\ LET seen == process[w].seen
           first == IF CatchUp THEN projectionWithoutPreparedMutation(seen) ELSE seen
           created == checkpoint = NoPacket /\ first # seen
       IN  /\ IF checkpoint = NoPacket
              THEN baseline' = first /\ checkpoint' = first
              ELSE UNCHANGED <<baseline, checkpoint>>
           /\ process' = [process EXCEPT ![w] =
                    IF created THEN [pc |-> "catching-up"] ELSE Idle]
    /\ UNCHANGED <<packet, changes, runs, candidate, epistemic, due, transitions, throws>>

\* The event for what the reconstructed baseline left out.
recordAndEvaluateSourceChange(w) ==
    /\ At(w, "catching-up")
    /\ ~PolicyLocked
    /\ changes' = changes + 1
    /\ Notify(BackfillKeys)
    /\ process' = [process EXCEPT ![w] = Idle]
    /\ UNCHANGED <<packet, baseline, checkpoint, runs, candidate, epistemic, due,
                   transitions, throws>>

-----------------------------------------------------------------------------
(* Staleness and review *)

\* stale_after_seconds pass since last_evaluated_at.
WindowPasses ==
    /\ runs # <<>>
    /\ ~due
    /\ due' = TRUE
    /\ UNCHANGED <<packet, changes, process, baseline, checkpoint, runs, candidate,
                   epistemic, transitions, sent, unread, throws>>

markStaleHypotheses ==
    /\ due
    /\ epistemic # "stale"
    /\ Cardinality({n \in DOMAIN transitions : transitions[n].to = "stale"}) < MaxStale
    /\ epistemic' = "stale"
    /\ transitions' = Append(transitions, [from |-> epistemic, to |-> "stale", run |-> 0])
    /\ UNCHANGED <<packet, changes, process, baseline, checkpoint, runs, candidate,
                   due, sent, unread, throws>>

\* Accepting promotes the candidate to a canonical hypothesis resource; the
\* candidate row is locked, and one that is no longer proposed is left alone.
\* Only the owner's own review marks the owner's notification read.
reviewMemoryCandidate(c, decision, byOwner) ==
    /\ candidate[c] = "proposed"
    /\ candidate' = [candidate EXCEPT ![c] = decision]
    /\ unread' = IF byOwner THEN unread \ ReviewKeys({c}) ELSE unread
    /\ UNCHANGED <<packet, changes, process, baseline, checkpoint, runs, epistemic,
                   due, transitions, sent, throws>>

\* The owner marks every notification read.
markRead ==
    /\ unread # {}
    /\ unread' = {}
    /\ UNCHANGED <<packet, changes, process, baseline, checkpoint, runs, candidate,
                   epistemic, due, transitions, sent, throws>>

-----------------------------------------------------------------------------

Next ==
    \/ SourceChanges
    \/ \E w \in Processes :
        \/ evaluateReadsConfiguration(w)
        \/ assembleContext(w)
        \/ evaluateLocksPolicy(w)
        \/ evaluateCommitsRun(w)
        \/ AttemptFails(w)
        \/ AttemptRefused(w)
        \/ initializeAssembles(w)
        \/ initializeCommits(w)
        \/ recordAndEvaluateSourceChange(w)
    \/ WindowPasses
    \/ markStaleHypotheses
    \/ \E c \in Candidates, d \in {"accepted", "dismissed"}, b \in BOOLEAN :
        reviewMemoryCandidate(c, d, b)
    \/ markRead

Spec == Init /\ [][Next]_vars

-----------------------------------------------------------------------------
(* Properties *)

\* Runs of one policy form a chain although their evaluators overlap: each
\* compares with what the one committed before it left, and the policy's
\* checkpoint is what the last one left.
CheckpointsChain ==
    \A i \in DOMAIN runs :
        /\ runs[i].before = IF i = 1 THEN baseline ELSE runs[i - 1].after
        /\ i = Len(runs) => checkpoint = runs[i].after

\* The stored deltas explain the checkpoint: replayed in order over the
\* baseline they give it, also when a run's context was out of date.
ApplyDeltas(p, deltas) ==
    [x \in Evidence |->
        IF \E d \in deltas : d.evidence = x
        THEN (CHOOSE d \in deltas : d.evidence = x).to
        ELSE p[x]]

DeltasExplainCheckpoint ==
    checkpoint # NoPacket =>
        checkpoint = FoldLeft(ApplyDeltas, baseline, [i \in DOMAIN runs |-> runs[i].deltas])

\* The transition history is a path from 'untested' to the status shown, with
\* no step missing, whatever evaluations and staleness scans interleave.
TransitionsChain ==
    LET states == <<"untested">> \o [n \in DOMAIN transitions |-> transitions[n].to]
    IN  /\ \A n \in DOMAIN transitions : transitions[n].from = states[n]
        /\ epistemic = states[Len(states)]

\* The hypothesis never shows an evidence state of a packet other than the
\* checkpoint's, except that it may be stale or not evaluated yet.
EpistemicMatchesCheckpoint ==
    IF runs = <<>> THEN epistemic = "untested"
    ELSE epistemic \in {evidenceStatus(checkpoint), "stale"}

\* Once every event has its run and nobody is working, the checkpoint is what
\* the service actor can see: no change is missed.
SettledCheckpointCurrent ==
    /\ checkpoint # NoPacket
    /\ \A e \in 1..changes : Evaluated(e)
    /\ \A w \in Processes : At(w, "idle")
    => checkpoint = packet

\* When every event has its run and nobody is working, the checkpoint differs
\* from what the service actor can see only if the last run was overtaken: it
\* committed after another run that had read a newer packet.  With no run yet,
\* only the prepared mutation of a bootstrap cut off before its catch-up event
\* can be missing.
OnlyLateRunsMislead ==
    /\ checkpoint # NoPacket
    /\ \A e \in 1..changes : Evaluated(e)
    /\ \A w \in Processes : At(w, "idle")
    => IF runs = <<>>
       THEN checkpoint \in {packet, projectionWithoutPreparedMutation(packet)}
       ELSE checkpoint # packet => runs[Len(runs)].late

-----------------------------------------------------------------------------
(* What the monitor promises, abstractly *)

Ledger == INSTANCE EvaluationLedger WITH
    established <- baseline,
    checkpoint <- checkpoint,
    log <- [i \in DOMAIN runs |->
        [event |-> runs[i].event, before |-> runs[i].before, after |-> runs[i].after]],
    shown <- epistemic,
    path <- [n \in DOMAIN transitions |-> transitions[n].to],
    StateOf <- [p \in Packets |-> evidenceStatus(p)]

\* The monitor implements the ledger: evaluations that overlap, fail, die or are
\* repeated take effect as if each of them read the checkpoint, compared and
\* wrote in one step, and the bootstrap and the staleness scan fall in between.
ImplementsEvaluations == Ledger!Spec

=============================================================================
