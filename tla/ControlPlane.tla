---------------------------- MODULE ControlPlane ----------------------------
(***************************************************************************)
(* One monitor behind its queue: HypothesisMonitor says what an evaluation *)
(* does, ControlPlaneQueue which worker may attempt it and when.  Every    *)
(* step of the system is a step of one of them, or of both where the code  *)
(* does both in one transaction or in one call: a recorded change is an    *)
(* event with its job, an evaluation is the middle of a claimed job, and   *)
(* what fails or dies in it fails or kills the job's worker.               *)
(*                                                                         *)
(* What the two share is not stored twice.  The queue's events are the     *)
(* monitor's, in the order they are recorded, its workers the monitor's    *)
(* evaluators, and its durable runs the rows of monitor_runs.  The policy  *)
(* row they share is locked by an evaluation from its comparison to its    *)
(* commit, and whoever updates that row waits.                             *)
(***************************************************************************)
EXTENDS HypothesisMonitor

CONSTANTS
    Monitor,        \* the monitor policy
    MaxAttempts,    \* max_attempts of every job
    MaxOverruns,    \* bound: leases that lapse under a live holder
    MaxCrashes      \* bound: worker deaths

ASSUME AttemptsAssumption ==
    MaxAttempts \in Nat \ {0} /\ MaxOverruns \in Nat /\ MaxCrashes \in Nat

VARIABLES policy, ended, event, status, attempts, lapsed, worker, alerted,
          overruns, crashes     \* as in ControlPlaneQueue

queueVars == <<policy, ended, event, status, attempts, lapsed, worker, alerted,
               overruns, crashes>>

Job(e) == <<Monitor, e>>

\* The rows of monitor_runs as the queue counts them.
runRows == [j \in {Monitor} \X Events |-> IF Evaluated(j[2]) THEN 1 ELSE 0]

Queue == INSTANCE ControlPlaneQueue WITH
    MonitorPolicies <- {Monitor}, DiscoveryPolicies <- {}, Events <- Events,
    MonitorWorkers <- Evaluators, DiscoveryWorkers <- {},
    Operable <- {Monitor}, Endable <- {Monitor}, runs <- runRows

PlaneInit == Init /\ Queue!Init

-----------------------------------------------------------------------------
(* Producers *)

\* A connector's transaction: what it changes, the event and the job, if the
\* policy is active and subscribes to the source.
recordKnowledgeChangeEvents ==
    /\ SourceChanges
    /\ Queue!recordKnowledgeChangeEvents(changes + 1)

\* A due schedule and the run-now command: an event that changes nothing.
RefreshRequested ==
    /\ SourceChanges
    /\ packet' = packet
    /\ \/ Queue!enqueueDueSchedule(Monitor, changes + 1)
       \/ Queue!enqueueManualRun(Monitor, changes + 1)

\* The bootstrap's event has its job whatever the policy's status.
CatchesUp(o) ==
    /\ recordAndEvaluateSourceChange(o)
    /\ Queue!EnqueueFor(Monitor, changes + 1)

-----------------------------------------------------------------------------
(* drainMonitorJobs *)

\* Worker w is inside evaluateMonitorEvent for the event of its job, or not.
InStep(w) ==
    IF Queue!At(w, "assembling")
    THEN ~At(w, "idle") /\ Job(process[w].event) = worker[w].job
    ELSE At(w, "idle")

\* The evaluation begins with the job's first transaction, unless that ends it.
BeginsEvaluation(w) ==
    /\ evaluateReadsConfiguration(w) \/ UNCHANGED vars
    /\ Queue!evaluateReadsConfiguration(w)
    /\ InStep(w)'

EvaluationProceeds(w) ==
    /\ assembleContext(w) \/ evaluateLocksPolicy(w)
    /\ UNCHANGED queueVars

CommitsEvaluation(w) ==
    /\ evaluateCommitsRun(w)
    /\ Queue!evaluateCommitsRun(w)

\* No baseline, or another worker's run of this event.
EvaluationRefused(w) ==
    /\ AttemptRefused(w)
    /\ Queue!WorkThrows(w)

\* What breaks off a worker breaks off the evaluation it is in.
BreaksOff(w) == IF At(w, "idle") THEN UNCHANGED vars ELSE AttemptFails(w)

WorkThrows(w) == BreaksOff(w) /\ Queue!WorkThrows(w)

Crash(w) == BreaksOff(w) /\ Queue!Crash(w)

\* Steps of the queue that no evaluation takes part in.
QueueStep ==
    /\ UNCHANGED vars
    /\ \/ \E w \in Evaluators :
            \/ Queue!claimJob(w)
            \/ Queue!completeJobReads(w)
            \/ Queue!completeJobCommits(w)
            \/ Queue!failJob(w)
       \/ \E e \in Events : Queue!LeaseLapses(Job(e))

-----------------------------------------------------------------------------
(* Operators and the rest of the monitor *)

\* Each of these updates the policy row.
PolicyUpdated ==
    /\ ~PolicyLocked
    /\ UNCHANGED vars
    /\ Queue!pause(Monitor) \/ Queue!resume(Monitor) \/ Queue!endHypothesis(Monitor)

Bootstrap(o) ==
    /\ initializeAssembles(o) \/ initializeCommits(o) \/ AttemptFails(o)
    /\ UNCHANGED queueVars

\* Only an active hypothesis turns stale.
RecordStep ==
    /\ \/ WindowPasses
       \/ ended = {} /\ markStaleHypotheses
       \/ \E c \in Candidates, d \in {"accepted", "dismissed"}, b \in BOOLEAN :
            reviewMemoryCandidate(c, d, b)
       \/ markRead
    /\ UNCHANGED queueVars

-----------------------------------------------------------------------------

PlaneNext ==
    \/ recordKnowledgeChangeEvents
    \/ RefreshRequested
    \/ \E w \in Evaluators :
        \/ BeginsEvaluation(w)
        \/ EvaluationProceeds(w)
        \/ CommitsEvaluation(w)
        \/ EvaluationRefused(w)
        \/ WorkThrows(w)
        \/ Crash(w)
    \/ QueueStep
    \/ PolicyUpdated
    \/ \E o \in Operators : CatchesUp(o) \/ Bootstrap(o)
    \/ RecordStep

planeVars == <<vars, queueVars>>

PlaneSpec == PlaneInit /\ [][PlaneNext]_planeVars

-----------------------------------------------------------------------------
(* Properties *)

AtRest ==
    /\ \A w \in Processes : At(w, "idle")
    /\ \A w \in Evaluators : worker[w] = Queue!Idle
    /\ \A e \in Events : status[Job(e)] \notin {"pending", "retrying", "leased"}

\* Event e was recorded but never evaluated, and says so: no job was created
\* for it, or its job is a dead letter, announced or of an ended hypothesis.
Accounted(e) ==
    \/ event[e] = "ignored"
    \/ /\ status[Job(e)] = "dead-letter"
       /\ Job(e) \in alerted \/ Monitor \in ended

\* No change is missed silently: when nothing is left to do and the checkpoint
\* is not what the service actor can see, then the last run was overtaken, or
\* an event that never got its run says so, or nothing but the prepared
\* mutation of a bootstrap cut off before its event is missing.
NoChangeMissedSilently ==
    AtRest /\ checkpoint \notin {NoPacket, packet} =>
        \/ runs # <<>> /\ runs[Len(runs)].late
        \/ \E e \in 1..changes : ~Evaluated(e) /\ Accounted(e)
        \/ runs = <<>> /\ checkpoint = projectionWithoutPreparedMutation(packet)

=============================================================================
