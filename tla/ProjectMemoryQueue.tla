------------------------- MODULE ProjectMemoryQueue -------------------------
(***************************************************************************)
(* The jobs of project_memory_jobs for one project: scheduled scans that   *)
(* workers claim under a lease, scans a member requests, and the formation *)
(* both run.  Formation reads the project's content, and a capture run is  *)
(* recorded once for every digest of it.                                   *)
(*                                                                         *)
(* Unlike the control-plane queue, this one fences settlement by the lease *)
(* owner and sweeps exhausted jobs when it claims, so nothing here bounds  *)
(* crashes and lapsing leases: max_attempts does.                          *)
(***************************************************************************)
EXTENDS Naturals, FiniteSets

CONSTANTS
    Scheduled,      \* jobs of the schedule, one per time it falls due
    Requested,      \* jobs of members' own scans
    Drains,         \* drain loops of the operations service
    Commands,       \* runs of the worker command
    Digests,        \* digests of the project's content
    Signals,        \* those whose content forms candidates
    MaxAttempts,    \* project_memory_jobs.max_attempts
    MaxChanges      \* bound: changes of the project's content

ASSUME QueueAssumption ==
    /\ Scheduled \cap Requested = {}
    /\ Drains \cap Commands = {}
    /\ (Drains \cup Commands) \cap Requested = {}
    /\ "null" \notin Commands /\ "project-memory-operations" \notin Commands
    /\ Signals \subseteq Digests
    /\ "none" \notin Digests
    /\ MaxAttempts \in Nat \ {0}
    /\ MaxChanges \in Nat

Jobs == Scheduled \cup Requested
Workers == Drains \cup Commands

\* Every drain loop claims under the same lease_owner, a command under its own.
WorkerId(w) == IF w \in Drains THEN "project-memory-operations" ELSE w
Owners == {"project-memory-operations", "null"} \cup Commands

VARIABLES
    content,        \* digest of what the project's artifacts say now
    changes,        \* changes so far
    runs,           \* digests with a background capture run
    status,         \* project_memory_jobs.status, "none" without a row
    attempts,
    owner,          \* lease_owner
    lapsed,         \* lease_expires_at has passed
    capture,        \* the digest of capture_run_id, or "none"
    process         \* what each worker, or the request of each member, is doing

vars == <<content, changes, runs, status, attempts, owner, lapsed, capture, process>>

jobVars == <<status, attempts, owner, lapsed, capture>>

JobStatus == {"none", "pending", "running", "retrying", "completed", "no-signal", "dead-letter"}

Processes == Workers \cup Requested

Steps == {"idle", "claimed", "reading", "formed", "failed"}

\* job and tries: the claimed row as the worker remembers it; digest: what
\* formation read; first: it found no run of that digest.
ProcessStates ==
    [pc : Steps, job : Jobs \cup {"none"}, tries : 0..MaxAttempts,
     digest : Digests \cup {"none"}, first : BOOLEAN]

Idle == [pc |-> "idle", job |-> "none", tries |-> 0, digest |-> "none", first |-> FALSE]

TypeOK ==
    /\ content \in Digests
    /\ changes \in 0..MaxChanges
    /\ runs \subseteq Digests
    /\ status \in [Jobs -> JobStatus]
    /\ attempts \in [Jobs -> Nat]
    /\ owner \in [Jobs -> Owners]
    /\ lapsed \in [Jobs -> BOOLEAN]
    /\ capture \in [Jobs -> Digests \cup {"none"}]
    /\ process \in [Processes -> ProcessStates]

Init ==
    /\ content \in Digests
    /\ changes = 0
    /\ runs = {}
    /\ status = [j \in Jobs |-> "none"]
    /\ attempts = [j \in Jobs |-> 0]
    /\ owner = [j \in Jobs |-> "null"]
    /\ lapsed = [j \in Jobs |-> FALSE]
    /\ capture = [j \in Jobs |-> "none"]
    /\ process = [w \in Processes |-> Idle]

-----------------------------------------------------------------------------

At(w, step) == process[w].pc = step

Goto(w, step) == process' = [process EXCEPT ![w].pc = step]

Finish(w) == process' = [process EXCEPT ![w] = Idle]

\* The status a formation reports: only the first run of a digest has
\* candidates to count.
Outcome(digest, first) == IF first /\ digest \in Signals THEN "completed" ELSE "no-signal"

ContentChanges ==
    /\ changes < MaxChanges
    /\ changes' = changes + 1
    /\ content' \in Digests \ {content}
    /\ UNCHANGED <<runs, jobVars, process>>

enqueueDueProjectMemorySchedules(j) ==
    /\ j \in Scheduled
    /\ status[j] = "none"
    /\ status' = [status EXCEPT ![j] = "pending"]
    /\ UNCHANGED <<content, changes, runs, attempts, owner, lapsed, capture, process>>

-----------------------------------------------------------------------------
(* runProjectMemoryWorkerOnce: the claiming transaction *)

\* Mutant: only leases without an owner are recovered.
ExpiredUnowned ==
    {j \in Jobs : status[j] = "running" /\ owner[j] = "null" /\ attempts[j] < MaxAttempts}

Expired == {j \in Jobs : status[j] = "running" /\ lapsed[j] /\ attempts[j] < MaxAttempts}

\* Mutant: off by one.
ExhaustedLate ==
    {j \in Jobs : status[j] \in {"running", "retrying"} /\ attempts[j] > MaxAttempts}

\* Also a running job whose lease is live, if it is on its last attempt.
Exhausted ==
    {j \in Jobs : status[j] \in {"running", "retrying"} /\ attempts[j] >= MaxAttempts}

Claimable(j) ==
    \/ status[j] \in {"pending", "retrying"} /\ j \notin Exhausted
    \/ j \in Expired

SweptStatus(j) ==
    IF j \in Exhausted THEN "dead-letter"
    ELSE IF j \in Expired THEN "retrying"
    ELSE status[j]

Released == Expired \cup Exhausted

\* Expired leases are released and exhausted jobs buried whether or not a job
\* is left to claim.
sweepsWithoutClaim(w) ==
    /\ At(w, "idle")
    /\ \A j \in Jobs : ~Claimable(j)
    /\ Released # {}
    /\ status' = [j \in Jobs |-> SweptStatus(j)]
    /\ owner' = [j \in Jobs |-> IF j \in Released THEN "null" ELSE owner[j]]
    /\ lapsed' = [j \in Jobs |-> lapsed[j] /\ j \notin Released]
    /\ UNCHANGED <<content, changes, runs, attempts, capture, process>>

\* The oldest available job; which one that is depends on creation and on
\* backoff, so it may be any.
claims(w) ==
    /\ At(w, "idle")
    /\ \E j \in Jobs :
        /\ Claimable(j)
        /\ status' = [i \in Jobs |-> IF i = j THEN "running" ELSE SweptStatus(i)]
        /\ attempts' = [attempts EXCEPT ![j] = @ + 1]
        /\ owner' = [i \in Jobs |-> IF i = j THEN WorkerId(w)
                                    ELSE IF i \in Released THEN "null" ELSE owner[i]]
        /\ lapsed' = [i \in Jobs |-> lapsed[i] /\ i # j /\ i \notin Released]
        /\ process' = [process EXCEPT ![w] =
                [pc |-> "claimed", job |-> j, tries |-> attempts[j] + 1,
                 digest |-> "none", first |-> FALSE]]
    /\ UNCHANGED <<content, changes, runs, capture>>

-----------------------------------------------------------------------------
(* executeBackgroundFormation, in a transaction of its own *)

formationReads(w) ==
    /\ w \in Workers
    /\ At(w, "claimed")
    /\ process' = [process EXCEPT ![w].pc = "reading", ![w].digest = content,
                                  ![w].first = content \notin runs]
    /\ UNCHANGED <<content, changes, runs, jobVars>>

\* Mutant: the insert of the run ignores a conflict.
formationCommitsAgain(w) ==
    /\ w \in Workers
    /\ At(w, "reading")
    /\ Goto(w, "formed")
    /\ runs' = runs \cup {process[w].digest}
    /\ UNCHANGED <<content, changes, jobVars>>

\* A run of this digest that another process committed since breaks the unique
\* key: the formation throws.
formationCommits(w) ==
    /\ w \in Workers
    /\ At(w, "reading")
    /\ LET p == process[w]
       IN  IF p.first /\ p.digest \in runs
           THEN Goto(w, "failed") /\ UNCHANGED runs
           ELSE Goto(w, "formed") /\ runs' = runs \cup {p.digest}
    /\ UNCHANGED <<content, changes, jobVars>>

\* The binding is not active, or any other error; also one of the settling
\* transaction, after the formation was committed.
formationThrows(w) ==
    /\ w \in Workers
    /\ At(w, "claimed") \/ At(w, "reading") \/ At(w, "formed")
    /\ Goto(w, "failed")
    /\ UNCHANGED <<content, changes, runs, jobVars>>

-----------------------------------------------------------------------------
(* runProjectMemoryWorkerOnce: the settling transaction, WHERE lease_owner is
   still the worker's id; a worker that lost its lease settles nothing *)

\* Mutant: the update has no lease_owner in its WHERE.
SettleUnfenced(w, outcome, digest) ==
    LET j == process[w].job
    IN  /\ status' = [status EXCEPT ![j] = outcome]
        /\ capture' = [capture EXCEPT ![j] = digest]
        /\ owner' = [owner EXCEPT ![j] = "null"]
        /\ lapsed' = [lapsed EXCEPT ![j] = FALSE]

Settle(w, outcome, digest) ==
    LET j == process[w].job
    IN  IF owner[j] = WorkerId(w)
        THEN /\ status' = [status EXCEPT ![j] = outcome]
             /\ capture' = [capture EXCEPT ![j] = digest]
             /\ owner' = [owner EXCEPT ![j] = "null"]
             /\ lapsed' = [lapsed EXCEPT ![j] = FALSE]
        ELSE UNCHANGED <<status, capture, owner, lapsed>>

completes(w) ==
    /\ At(w, "formed")
    /\ Settle(w, Outcome(process[w].digest, process[w].first), process[w].digest)
    /\ Finish(w)
    /\ UNCHANGED <<content, changes, runs, attempts>>

\* Terminal by the attempts the worker claimed with.
fails(w) ==
    /\ At(w, "failed")
    /\ Settle(w, IF process[w].tries >= MaxAttempts THEN "dead-letter" ELSE "retrying",
              capture[process[w].job])
    /\ Finish(w)
    /\ UNCHANGED <<content, changes, runs, attempts>>

\* A worker dies; what it committed stays.
Crash(w) ==
    /\ w \in Workers
    /\ ~At(w, "idle")
    /\ Finish(w)
    /\ UNCHANGED <<content, changes, runs, jobVars>>

\* Five minutes pass since a claim, whether its worker lives or not.
LeaseLapses(j) ==
    /\ status[j] = "running"
    /\ ~lapsed[j]
    /\ lapsed' = [lapsed EXCEPT ![j] = TRUE]
    /\ UNCHANGED <<content, changes, runs, status, attempts, owner, capture, process>>

-----------------------------------------------------------------------------
(* runProjectBackgroundFormation: one transaction, so that its job row is seen
   only once it is settled *)

requestsScan(r) ==
    /\ r \in Requested
    /\ At(r, "idle")
    /\ status[r] = "none"
    /\ process' = [process EXCEPT ![r] =
            [pc |-> "reading", job |-> r, tries |-> 0, digest |-> content,
             first |-> content \notin runs]]
    /\ UNCHANGED <<content, changes, runs, jobVars>>

scanCommits(r) ==
    /\ r \in Requested
    /\ At(r, "reading")
    /\ LET p == process[r]
       IN  /\ ~(p.first /\ p.digest \in runs)
           /\ runs' = runs \cup {p.digest}
           /\ status' = [status EXCEPT ![r] = Outcome(p.digest, p.first)]
           /\ capture' = [capture EXCEPT ![r] = p.digest]
    /\ attempts' = [attempts EXCEPT ![r] = 1]
    /\ Finish(r)
    /\ UNCHANGED <<content, changes, owner, lapsed>>

\* The unique key, any error, or the end of the request's process.
scanAborts(r) ==
    /\ r \in Requested
    /\ ~At(r, "idle")
    /\ Finish(r)
    /\ UNCHANGED <<content, changes, runs, jobVars>>

-----------------------------------------------------------------------------

WorkerStep(w) ==
    \/ sweepsWithoutClaim(w)
    \/ claims(w)
    \/ formationReads(w)
    \/ formationCommits(w)
    \/ completes(w)
    \/ fails(w)

Next ==
    \/ ContentChanges
    \/ \E j \in Jobs : enqueueDueProjectMemorySchedules(j) \/ LeaseLapses(j)
    \/ \E w \in Workers : WorkerStep(w) \/ formationThrows(w) \/ Crash(w)
    \/ \E r \in Requested :
        requestsScan(r) \/ scanCommits(r) \/ scanAborts(r)

Spec == Init /\ [][Next]_vars

\* The service drains every two seconds and survives an iteration that throws;
\* time passes.  Nothing is asked of commands, requests or content.
Fairness ==
    /\ \A w \in Drains : WF_vars(WorkerStep(w))
    /\ \A j \in Jobs : WF_vars(LeaseLapses(j))

FairSpec == Spec /\ Fairness

-----------------------------------------------------------------------------
(* Properties *)

Settled(s) == s \in {"completed", "no-signal", "dead-letter"}

\* However many workers die, overrun their leases or share a lease_owner, a
\* job is never tried more often than max_attempts allows: the sweep buries an
\* exhausted job before the same transaction can claim it.
AttemptsWithinLimit == \A j \in Jobs : attempts[j] <= MaxAttempts

\* Settling is fenced by the lease: once a job is completed, without signal or
\* dead, no late worker reopens it or reports another outcome.
SettledStaysSettled ==
    [][\A j \in Jobs : Settled(status[j]) =>
            status'[j] = status[j] /\ capture'[j] = capture[j]]_vars

\* A job's outcome can be trusted: it names a capture run that exists, it is
\* 'completed' only if that content has a signal, and of all the jobs that
\* scanned one digest, racing or retried, at most one claims its candidates.
OutcomesMatchRuns ==
    /\ \A j \in Jobs : status[j] \in {"completed", "no-signal"} => capture[j] \in runs
    /\ \A j \in Jobs : status[j] = "completed" => capture[j] \in Signals
    /\ \A i, j \in Jobs :
        status[i] = "completed" /\ status[j] = "completed" /\ capture[i] = capture[j] => i = j

\* The inductive invariant behind the three guarantees.  Whose lease a job
\* carries decides who may settle it, and who formed a digest first decides who
\* may claim its candidates; both are remembered by workers that may be dead,
\* late or robbed of their job by the time they act on it.
UntriedUntilClaimed == \A j \in Jobs : status[j] \in {"none", "pending"} => attempts[j] = 0

OnlyRunningOwned == \A j \in Jobs : owner[j] # "null" => status[j] = "running"

BusyWithJob ==
    \A w \in Processes : ~At(w, "idle") =>
        /\ process[w].job \in Jobs
        /\ At(w, "reading") \/ At(w, "formed") => process[w].digest \in Digests

\* The job of a request is not visible before the request commits.
ScansUnseen ==
    \A r \in Requested : ~At(r, "idle") =>
        At(r, "reading") /\ process[r].job = r /\ status[r] = "none"

FormedFirst(w) == At(w, "formed") /\ process[w].first

\* One digest's candidates are claimed once, by a settled job or a worker that
\* is about to settle its own.
ClaimedOnce ==
    /\ \A w \in Processes : At(w, "formed") => process[w].digest \in runs
    /\ \A v, w \in Processes :
        FormedFirst(v) /\ FormedFirst(w) /\ process[v].digest = process[w].digest => v = w
    /\ \A w \in Processes, j \in Jobs :
        ~(FormedFirst(w) /\ status[j] = "completed" /\ capture[j] = process[w].digest)

\* Together: through crashes, overruns and shared owners, leases, attempts,
\* capture runs and first formations stay in step.  An attempt may go on after
\* its lease, but its outcome then reaches no job.
FencedOutcomes ==
    /\ AttemptsWithinLimit
    /\ UntriedUntilClaimed
    /\ OnlyRunningOwned
    /\ BusyWithJob
    /\ ScansUnseen
    /\ ClaimedOnce
    /\ OutcomesMatchRuns

\* Every scheduled job is settled in the end, with no bound on crashes: a dead
\* worker's lease is recovered or its job is buried.
JobsSettle == \A j \in Scheduled : status[j] = "pending" ~> Settled(status[j])

-----------------------------------------------------------------------------
(* What the jobs promise, abstractly *)

\* A job is open from its row to its outcome, however often it is tried.
Ledger == INSTANCE CaptureLedger WITH
    outcome <- [j \in Jobs |->
        IF status[j] \in {"pending", "running", "retrying"} THEN "open" ELSE status[j]],
    named <- capture,
    captured <- runs

\* The jobs implement the ledger: whatever workers die, overrun, share an owner
\* or are buried at work, each job has one outcome, which names a capture made
\* before, and the candidates of each content go to one job.
ImplementsCaptures == Ledger!Spec

=============================================================================
