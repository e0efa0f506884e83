------------------------- MODULE ControlPlaneQueue -------------------------
(***************************************************************************)
(* The PostgreSQL work queue behind continual monitoring and discovery:    *)
(* source-change events, the monitor and discovery jobs they fan out to,   *)
(* the workers that lease those jobs, and the operators who pause, resume  *)
(* or end a policy.                                                        *)
(*                                                                         *)
(* A job is identified by the policy and the event it was created for: its *)
(* idempotency key is built from exactly these two, so a job *is* the pair.*)
(* A worker runs one sequential drain loop.  Every database transaction of *)
(* that loop is one action, except completeJob, whose decision to publish  *)
(* the event reads other jobs under READ COMMITTED and therefore sees only *)
(* what was committed when it ran: it is a snapshot step and a commit step.*)
(*                                                                         *)
(* Time is abstracted to what it allows: a lease may lapse while its holder*)
(* still works (an overrun), and a lease whose holder died always lapses.  *)
(* available_at and the priorities only choose which runnable job is first,*)
(* so any runnable job may be claimed.                                     *)
(***************************************************************************)
EXTENDS Naturals, FiniteSets

CONSTANTS
    MonitorPolicies,    \* rows of monitor_policies
    DiscoveryPolicies,  \* rows of hypothesis_discovery_policies
    Events,             \* source_change_events the model may create
    MonitorWorkers,     \* processes inside drainMonitorJobs
    DiscoveryWorkers,   \* processes inside drainDiscoveryJobs
    Operable,           \* policies the pause / resume commands address
    Endable,            \* monitor policies whose hypothesis may be ended
    MaxAttempts,        \* max_attempts of every job (3 by default)
    MaxOverruns,        \* bound: leases that lapse under a live holder
    MaxCrashes          \* bound: worker deaths

ASSUME PoliciesAssumption ==
    /\ MonitorPolicies \cap DiscoveryPolicies = {}
    /\ MonitorWorkers \cap DiscoveryWorkers = {}
    /\ Operable \subseteq MonitorPolicies \cup DiscoveryPolicies
    /\ Endable \subseteq MonitorPolicies

ASSUME BoundsAssumption ==
    /\ MaxAttempts \in Nat \ {0}
    /\ MaxOverruns \in Nat
    /\ MaxCrashes \in Nat

Policies == MonitorPolicies \cup DiscoveryPolicies
Workers == MonitorWorkers \cup DiscoveryWorkers
Jobs == Policies \X Events

PolicyOf(j) == j[1]
EventOf(j) == j[2]

\* The queue a worker drains: its jobs are those of one kind of policy.
Serves(w) == IF w \in MonitorWorkers THEN MonitorPolicies ELSE DiscoveryPolicies

VARIABLES
    policy,     \* policy[p]: the policy's status
    ended,      \* monitor policies whose hypothesis is superseded or retired
    event,      \* event[e]: status of the change event, "none" before insertion
    status,     \* status[j]: the job's status, "none" before insertion
    attempts,   \* attempts[j]: claims of the job so far
    lapsed,     \* lapsed[j]: leased_until of the current lease is in the past
    worker,     \* worker[w]: what drain loop w is doing, in process memory
    runs,       \* runs[j]: durable run rows for the job's policy and event
    alerted,    \* jobs with a critical *-failed notification in the outbox
    overruns,   \* leases that lapsed under a live holder so far
    crashes     \* worker deaths so far

vars == <<policy, ended, event, status, attempts, lapsed, worker, runs, alerted,
          overruns, crashes>>

JobStatus == {"none", "pending", "leased", "retrying", "completed", "dead-letter"}
EventStatus == {"none", "queued", "ignored", "processed", "failed"}
PolicyStatus == {"active", "paused", "stopped"}
BusyPc == {"claimed", "assembling", "done", "settling", "failing"}

Idle == [pc |-> "idle"]
Busy == [pc : BusyPc, job : Jobs, attempt : Nat \ {0}, settled : BOOLEAN]

TypeOK ==
    /\ policy \in [Policies -> PolicyStatus]
    /\ ended \subseteq Endable
    /\ event \in [Events -> EventStatus]
    /\ status \in [Jobs -> JobStatus]
    /\ attempts \in [Jobs -> Nat]
    /\ lapsed \in [Jobs -> BOOLEAN]
    /\ worker \in [Workers -> {Idle} \cup Busy]
    /\ runs \in [Jobs -> Nat]
    /\ alerted \subseteq Jobs
    /\ overruns \in 0..MaxOverruns
    /\ crashes \in 0..MaxCrashes

Init ==
    /\ policy = [p \in Policies |-> "active"]
    /\ ended = {}
    /\ event = [e \in Events |-> "none"]
    /\ status = [j \in Jobs |-> "none"]
    /\ attempts = [j \in Jobs |-> 0]
    /\ lapsed = [j \in Jobs |-> FALSE]
    /\ worker = [w \in Workers |-> Idle]
    /\ runs = [j \in Jobs |-> 0]
    /\ alerted = {}
    /\ overruns = 0
    /\ crashes = 0

-----------------------------------------------------------------------------
(* Helpers *)

\* Worker w is busy at control point c.
At(w, c) == worker[w].pc = c

Goto(w, c) == worker' = [worker EXCEPT ![w].pc = c]

OnJob(w, j) == worker[w] # Idle /\ worker[w].job = j

\* The row lock completeJob's UPDATE holds until its transaction commits.
RowLocked(j) == \E w \in Workers : At(w, "settling") /\ OnJob(w, j)

\* The worker of the job's newest claim is still alive.
Held(j) == \E w \in Workers : OnJob(w, j) /\ worker[w].attempt = attempts[j]

JobsOf(e) == {j \in Jobs : EventOf(j) = e /\ status[j] # "none"}

\* Mutant: the discovery jobs of the event are not asked for.
AllMonitorJobsCompleted(j) ==
    \A k \in JobsOf(EventOf(j)) \ {j} :
        {PolicyOf(j), PolicyOf(k)} \subseteq MonitorPolicies => status[k] = "completed"

\* Mutant: a dead letter counts as settled.
AllEndedBut(j) ==
    \A k \in JobsOf(EventOf(j)) \ {j} : status[k] \in {"completed", "dead-letter"}

\* The two NOT EXISTS subqueries as one job's own transaction sees them: its
\* own row is already completed, the others are as last committed.
AllCompletedBut(j) ==
    \A k \in JobsOf(EventOf(j)) \ {j} : status[k] = "completed"

InsertJobs(S) == status' = [j \in Jobs |-> IF j \in S THEN "pending" ELSE status[j]]

-----------------------------------------------------------------------------
(* Producers *)

\* A connector commits a change: the event fans out to the active policies
\* that subscribe to its source, scope and project (any subset of them).
recordKnowledgeChangeEvents(e) ==
    /\ event[e] = "none"
    /\ \E matching \in SUBSET {p \in Policies : policy[p] = "active"} :
        /\ event' = [event EXCEPT ![e] = IF matching = {} THEN "ignored" ELSE "queued"]
        /\ InsertJobs(matching \X {e})
    /\ UNCHANGED <<policy, ended, attempts, lapsed, worker, runs, alerted, overruns, crashes>>

EnqueueFor(p, e) ==
    /\ event[e] = "none"
    /\ event' = [event EXCEPT ![e] = "queued"]
    /\ InsertJobs({<<p, e>>})
    /\ UNCHANGED <<policy, ended, attempts, lapsed, worker, runs, alerted, overruns, crashes>>

\* A due schedule of an active policy creates a scheduled event and its job.
enqueueDueSchedule(p, e) ==
    /\ policy[p] = "active"
    /\ EnqueueFor(p, e)

\* Run now: discovery insists on an active policy, monitoring does not.
enqueueManualRun(p, e) ==
    /\ p \in Operable
    /\ p \in DiscoveryPolicies => policy[p] = "active"
    /\ EnqueueFor(p, e)

-----------------------------------------------------------------------------
(* Leases *)

\* Mutant: leased_until is not compared.
ClaimableWhileLeased(j) ==
    /\ policy[PolicyOf(j)] = "active"
    /\ status[j] \in {"pending", "retrying", "leased"}
    /\ ~RowLocked(j)

\* Mutant: lapsed leases are not recovered.
ClaimableUnleased(j) ==
    /\ policy[PolicyOf(j)] = "active"
    /\ status[j] \in {"pending", "retrying"}
    /\ ~RowLocked(j)

Claimable(j) ==
    /\ policy[PolicyOf(j)] = "active"
    /\ \/ status[j] \in {"pending", "retrying"}
       \/ status[j] = "leased" /\ lapsed[j]
    /\ ~RowLocked(j)

\* The claim transaction; it does not look at max_attempts.
claimJob(w) ==
    /\ worker[w] = Idle
    /\ \E j \in Jobs :
        /\ PolicyOf(j) \in Serves(w)
        /\ Claimable(j)
        /\ status' = [status EXCEPT ![j] = "leased"]
        /\ attempts' = [attempts EXCEPT ![j] = @ + 1]
        /\ lapsed' = [lapsed EXCEPT ![j] = FALSE]
        /\ worker' = [worker EXCEPT ![w] =
                [pc |-> "claimed", job |-> j, attempt |-> attempts[j] + 1,
                 settled |-> FALSE]]
    /\ UNCHANGED <<policy, ended, event, runs, alerted, overruns, crashes>>

\* Two minutes pass.  Under a live holder this is an overrun and is bounded.
LeaseLapses(j) ==
    /\ status[j] = "leased"
    /\ ~lapsed[j]
    /\ lapsed' = [lapsed EXCEPT ![j] = TRUE]
    /\ IF Held(j)
       THEN overruns < MaxOverruns /\ overruns' = overruns + 1
       ELSE UNCHANGED overruns
    /\ UNCHANGED <<policy, ended, event, status, attempts, worker, runs, alerted, crashes>>

\* The process dies; an open transaction rolls back, the lease stays.
Crash(w) ==
    /\ worker[w] # Idle
    /\ crashes < MaxCrashes
    /\ crashes' = crashes + 1
    /\ worker' = [worker EXCEPT ![w] = Idle]
    /\ UNCHANGED <<policy, ended, event, status, attempts, lapsed, runs, alerted, overruns>>

-----------------------------------------------------------------------------
(* A claimed job's work *)

UnchangedByReading ==
    UNCHANGED <<policy, ended, event, status, attempts, lapsed, runs, alerted, overruns, crashes>>

\* Mutant: an inactive policy has nothing to evaluate.
evaluateSkipsInactive(w) ==
    /\ w \in MonitorWorkers
    /\ At(w, "claimed")
    /\ LET j == worker[w].job IN
        Goto(w, IF runs[j] > 0 \/ policy[PolicyOf(j)] # "active" THEN "done"
                ELSE "assembling")
    /\ UnchangedByReading

\* First transaction of evaluateMonitorEvent: an existing run ends the work,
\* an inactive policy is an error, otherwise the context is assembled outside
\* any transaction.
evaluateReadsConfiguration(w) ==
    /\ w \in MonitorWorkers
    /\ At(w, "claimed")
    /\ LET j == worker[w].job IN
        Goto(w, IF runs[j] > 0 THEN "done"
                ELSE IF policy[PolicyOf(j)] = "active" THEN "assembling"
                ELSE "failing")
    /\ UnchangedByReading

\* INSERT INTO monitor_runs: the unique key on policy and event admits one.
InsertRun(j) ==
    /\ runs[j] = 0
    /\ runs' = [runs EXCEPT ![j] = @ + 1]

\* Second transaction of evaluateMonitorEvent, policy row locked: it commits
\* the run with everything that hangs off it, or violates the unique key.  The
\* policy's status is not read again.
evaluateCommitsRun(w) ==
    /\ At(w, "assembling")
    /\ LET j == worker[w].job IN
        \/ /\ InsertRun(j)
           /\ Goto(w, "done")
        \/ /\ runs[j] > 0
           /\ Goto(w, "failing")
           /\ UNCHANGED runs
    /\ UNCHANGED <<policy, ended, event, status, attempts, lapsed, alerted, overruns, crashes>>

\* The one transaction of a discovery job, policy row locked throughout: an
\* earlier run of the same trigger is reused, an inactive policy is an error.
executeDiscoveryPolicy(w) ==
    /\ w \in DiscoveryWorkers
    /\ At(w, "claimed")
    /\ LET j == worker[w].job IN
        \/ /\ policy[PolicyOf(j)] # "active"
           /\ Goto(w, "failing")
           /\ UNCHANGED runs
        \/ /\ policy[PolicyOf(j)] = "active"
           /\ IF runs[j] > 0 THEN UNCHANGED runs ELSE InsertRun(j)
           /\ Goto(w, "done")
    /\ UNCHANGED <<policy, ended, event, status, attempts, lapsed, alerted, overruns, crashes>>

\* Anything inside the try block may throw: its transaction rolls back and
\* the catch block runs.
WorkThrows(w) ==
    /\ worker[w].pc \in {"claimed", "assembling", "done", "settling"}
    /\ Goto(w, "failing")
    /\ UnchangedByReading

-----------------------------------------------------------------------------
(* Settling a job *)

\* completeJob has updated its job row, unseen by others, and evaluates the
\* condition of markSourceEventProcessedWhenSettled.
completeJobReads(w) ==
    /\ At(w, "done")
    /\ ~RowLocked(worker[w].job)
    /\ worker' = [worker EXCEPT ![w].pc = "settling",
                                ![w].settled = AllCompletedBut(worker[w].job)]
    /\ UnchangedByReading

\* The commit makes both the job and the verdict on its event visible.  The
\* job is addressed by id alone: neither worker_id nor the lease is compared.
completeJobCommits(w) ==
    /\ At(w, "settling")
    /\ LET j == worker[w].job IN
        /\ status' = [status EXCEPT ![j] = "completed"]
        /\ event' = IF worker[w].settled
                    THEN [event EXCEPT ![EventOf(j)] = "processed"]
                    ELSE event
    /\ worker' = [worker EXCEPT ![w] = Idle]
    /\ UNCHANGED <<policy, ended, attempts, lapsed, runs, alerted, overruns, crashes>>

\* Mutant: one attempt too many before the dead letter.
TerminalLate(w) == worker[w].attempt > MaxAttempts

\* failJob: terminal is decided by the attempt number this worker claimed, and
\* the update is by id alone.
Terminal(w) == worker[w].attempt >= MaxAttempts

\* Mutant: the alert is raised only for the first failure of an event.
failJobOncePerEvent(w) ==
    /\ At(w, "failing")
    /\ LET j == worker[w].job IN
        /\ ~RowLocked(j)
        /\ \/ /\ Terminal(w)
              /\ status' = [status EXCEPT ![j] = "dead-letter"]
              /\ event' = [event EXCEPT ![EventOf(j)] = "failed"]
              /\ alerted' = IF event[EventOf(j)] = "failed" THEN alerted ELSE alerted \cup {j}
           \/ /\ ~Terminal(w)
              /\ status' = [status EXCEPT ![j] = "retrying"]
              /\ UNCHANGED <<event, alerted>>
    /\ worker' = [worker EXCEPT ![w] = Idle]
    /\ UNCHANGED <<policy, ended, attempts, lapsed, runs, overruns, crashes>>

failJob(w) ==
    /\ At(w, "failing")
    /\ LET j == worker[w].job IN
        /\ ~RowLocked(j)
        /\ \/ /\ Terminal(w)
              /\ status' = [status EXCEPT ![j] = "dead-letter"]
              /\ event' = [event EXCEPT ![EventOf(j)] = "failed"]
              /\ alerted' = alerted \cup {j}
           \/ /\ ~Terminal(w)
              /\ status' = [status EXCEPT ![j] = "retrying"]
              /\ UNCHANGED <<event, alerted>>
    /\ worker' = [worker EXCEPT ![w] = Idle]
    /\ UNCHANGED <<policy, ended, attempts, lapsed, runs, overruns, crashes>>

-----------------------------------------------------------------------------
(* Operators *)

\* Pause and resume assign the status whatever it was.
pause(p) ==
    /\ p \in Operable
    /\ policy' = [policy EXCEPT ![p] = "paused"]
    /\ UNCHANGED <<ended, event, status, attempts, lapsed, worker, runs, alerted, overruns, crashes>>

\* Mutant: resuming writes a status of its own.
resumeAsResumed(p) ==
    /\ p \in Operable
    /\ policy' = [policy EXCEPT ![p] = "resumed"]
    /\ UNCHANGED <<ended, event, status, attempts, lapsed, worker, runs, alerted, overruns, crashes>>

resume(p) ==
    /\ p \in Operable
    /\ policy' = [policy EXCEPT ![p] = "active"]
    /\ UNCHANGED <<ended, event, status, attempts, lapsed, worker, runs, alerted, overruns, crashes>>

\* The hypothesis of monitor policy p is superseded or retired: its monitor
\* stops and its unfinished jobs are dead-lettered, workers or not.
endHypothesis(p) ==
    /\ p \in Endable \ ended
    /\ ended' = ended \cup {p}
    /\ \A e \in Events : ~RowLocked(<<p, e>>)
    /\ policy' = [policy EXCEPT ![p] = "stopped"]
    /\ status' = [j \in Jobs |->
            IF PolicyOf(j) = p /\ status[j] \in {"pending", "retrying", "leased"}
            THEN "dead-letter" ELSE status[j]]
    /\ UNCHANGED <<event, attempts, lapsed, worker, runs, alerted, overruns, crashes>>

-----------------------------------------------------------------------------

\* One step of drain loop w that takes its job forward.
WorkerStep(w) ==
    \/ claimJob(w)
    \/ evaluateReadsConfiguration(w)
    \/ evaluateCommitsRun(w)
    \/ executeDiscoveryPolicy(w)
    \/ completeJobReads(w)
    \/ completeJobCommits(w)
    \/ failJob(w)

Next ==
    \/ \E e \in Events : recordKnowledgeChangeEvents(e)
    \/ \E p \in Policies, e \in Events :
        enqueueDueSchedule(p, e) \/ enqueueManualRun(p, e)
    \/ \E w \in Workers : WorkerStep(w) \/ WorkThrows(w) \/ Crash(w)
    \/ \E j \in Jobs : LeaseLapses(j)
    \/ \E p \in Policies : pause(p) \/ resume(p) \/ endHypothesis(p)

Spec == Init /\ [][Next]_vars

\* The worker service drains every two seconds and survives an iteration that
\* throws, so a loop that can step does; and time passes.
Fairness ==
    /\ \A w \in Workers : WF_vars(WorkerStep(w))
    /\ \A j \in Jobs : WF_vars(LeaseLapses(j))

FairSpec == Spec /\ Fairness

-----------------------------------------------------------------------------
(* Properties *)

\* However often leases lapse and workers die, a job's work takes durable
\* effect at most once: one run row for its policy and event.
EvaluatedOnce == \A j \in Jobs : runs[j] <= 1

\* No work is lost behind a published event: when an event is 'processed',
\* every monitor and discovery job created for it has its run, even if stale
\* workers, dead letters and reopened jobs came in between.
ProcessedMeansEvaluated ==
    \A e \in Events : event[e] = "processed" =>
        JobsOf(e) # {} /\ \A j \in JobsOf(e) : runs[j] = 1

\* claimJob never consults max_attempts; what still limits it is that an
\* attempt beyond the maximum needs a lapsed lease or a dead worker each time.
AttemptsAccounted ==
    \A j \in Jobs : attempts[j] <= MaxAttempts + overruns + crashes

\* Nothing fails silently: a 'failed' event has an alerted job, and a dead
\* letter was announced unless its hypothesis ended.
FailuresAlerted ==
    /\ \A e \in Events : event[e] = "failed" => \E j \in JobsOf(e) : j \in alerted
    /\ \A j \in Jobs : status[j] = "dead-letter" => j \in alerted \/ PolicyOf(j) \in ended

\* A completed event can only stay unpublished because two of its jobs settled
\* at the same time: with a single job the publication is never missed.
SoleJobPublishes ==
    \A j \in Jobs :
        /\ JobsOf(EventOf(j)) = {j}
        /\ status[j] = "completed"
        => event[EventOf(j)] \in {"processed", "failed"}

Settled(s) == s \in {"completed", "dead-letter"}

\* Completing and failing a job are not fenced by the lease, so a settled job
\* can be reopened -- but only after some lease lapsed under a live holder or
\* the hypothesis ended under a lease; crashes alone never reopen a job.
ReopenedOnlyAfterOverrun ==
    [][\A j \in Jobs : Settled(status[j]) /\ ~Settled(status'[j]) =>
            overruns > 0 \/ PolicyOf(j) \in ended]_vars

\* Every job settles, or its policy is not active, whatever the crashes, lapses
\* and retries: no lease strands its job for good.
JobsSettle ==
    \A j \in Jobs : status[j] # "none" ~>
        Settled(status[j]) \/ policy[PolicyOf(j)] # "active"

\* The inductive invariant behind the two guarantees about durable work.  A
\* completion is decided in one transaction and believed in later ones, by
\* workers that may have lost their lease; what makes that safe is that runs
\* are never taken back, so each belief stays true once it was formed.
JobsHaveEvents == \A j \in Jobs : status[j] # "none" => event[EventOf(j)] # "none"

WorkersHaveJobs == \A w \in Workers : worker[w] # Idle => status[worker[w].job] # "none"

DoneMeansEvaluated ==
    \A w \in Workers : At(w, "done") \/ At(w, "settling") => runs[worker[w].job] = 1

CompletedMeansEvaluated == \A j \in Jobs : status[j] = "completed" => runs[j] = 1

VerdictSound ==
    \A w \in Workers : At(w, "settling") /\ worker[w].settled =>
        \A j \in JobsOf(EventOf(worker[w].job)) : runs[j] = 1

DurableWork ==
    /\ JobsHaveEvents
    /\ WorkersHaveJobs
    /\ EvaluatedOnce
    /\ DoneMeansEvaluated
    /\ CompletedMeansEvaluated
    /\ VerdictSound
    /\ ProcessedMeansEvaluated

\* The inductive invariant behind the guarantees about leases and settlement,
\* which settlement itself does not check.  Without an overrun a lease is held
\* by the one worker that took it, unless the hypothesis ended under it.
SoleHolder ==
    overruns = 0 => \A w \in Workers : worker[w] # Idle =>
        LET j == worker[w].job
        IN  PolicyOf(j) \notin ended =>
                /\ status[j] = "leased" /\ ~lapsed[j]
                /\ worker[w].attempt = attempts[j]
                /\ \A v \in Workers : OnJob(v, j) => v = w

SoleVerdict ==
    \A w \in Workers :
        At(w, "settling") /\ JobsOf(EventOf(worker[w].job)) = {worker[w].job}
        => worker[w].settled

\* A claim is paid for by a failure below the limit, by a lapse or by a crash.
\* An attempt below the limit that is still running, or still to come, may
\* fail; a job that is open to a claim has been paid for already.
RetryingHolders(j) == {w \in Workers : OnJob(w, j) /\ worker[w].attempt < MaxAttempts}

AttemptsToCome(j) == IF attempts[j] < MaxAttempts THEN MaxAttempts - 1 - attempts[j] ELSE 0

Open(j) ==
    \/ status[j] \in {"none", "pending", "retrying"}
    \/ status[j] = "leased" /\ (lapsed[j] \/ ~Held(j))

Budgeted(j) ==
    /\ IsFiniteSet(RetryingHolders(j))
    /\ attempts[j] + Cardinality(RetryingHolders(j)) + AttemptsToCome(j)
            + (IF Open(j) THEN 1 ELSE 0)
         <= MaxAttempts + overruns + crashes

AttemptBudget == \A j \in Jobs : Budgeted(j)

\* Together: whoever is late, dead or overtaken, leases stay accounted for.
LeasesAccounted ==
    /\ SoleHolder
    /\ SoleVerdict
    /\ AttemptBudget
    /\ FailuresAlerted
    /\ SoleJobPublishes

-----------------------------------------------------------------------------
(* What documents, comments and names promise and the code does not keep *)

\* ARCHITECTURE.md: ending a hypothesis "strands no runnable job" of its
\* monitors: none is left for a worker to run.
EndingStrandsNoJob ==
    \A j \in Jobs : PolicyOf(j) \in ended =>
        status[j] \notin {"pending", "retrying", "leased"}

\* event-status.ts marks an event processed "when settled": with all its jobs
\* completed and no worker on any of them, the event is not left queued.
SettledEventIsMarked ==
    \A e \in Events :
        /\ JobsOf(e) # {}
        /\ \A j \in JobsOf(e) : status[j] = "completed" /\ \A w \in Workers : ~OnJob(w, j)
        => event[e] # "queued"

-----------------------------------------------------------------------------
(* What the queue promises, abstractly *)

Ledger == INSTANCE WorkLedger WITH
    accepted <- {e \in Events : event[e] # "none"},
    requested <- {j \in Jobs : status[j] # "none"},
    evaluations <- runs,
    published <- {e \in Events : event[e] = "processed"}

\* The queue implements the ledger: leases, retries, crashes and stale workers
\* never repeat a piece of work nor publish an event ahead of it.
ImplementsLedger == Ledger!Spec

=============================================================================
