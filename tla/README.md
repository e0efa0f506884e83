# A verification of the Organisational Context Brain's control plane

The Organisational Context Brain is a Next.js application over PostgreSQL. It
ingests sources, answers questions under each actor's permissions and, what
matters here, *learns* in the background: changes become events, events become
jobs, leased workers evaluate hypotheses and form project memories, and people
decide what becomes organisational knowledge. All state that lasts is in the
database; the processes that act on it (web requests, one scheduler, one or more
workers, command-line scripts) share nothing else, so everything that is hard
about the program is in how their transactions interleave, what a process still
believes after its transaction ended, and what is left when it dies.

This directory holds TLA+ models of those parts, the TLC runs that check them on
small instances, and TLAPS proofs of the core guarantees for every value of the
constants.

## Contents

| Module | What it is |
| --- | --- |
| `ControlPlaneQueue` | events, monitor and discovery jobs, leases, workers, operators |
| `WorkLedger` | what that queue promises, abstractly; `ControlPlaneQueue` refines it |
| `HypothesisMonitor` | what one monitor job does: evaluation, checkpoint, deltas, lifecycle, notifications, review |
| `EvaluationLedger` | what that monitor promises, abstractly; `HypothesisMonitor` refines it |
| `ControlPlane` | one monitor behind its queue: `HypothesisMonitor` and `ControlPlaneQueue` composed |
| `HypothesisDiscovery` | what one discovery job does: statements, candidates, misses, links, review, promotion |
| `OntologyEvolution` | versions of the ontology, proposals and their review, the editor, what policies pin |
| `BrowserIdentity` | login attempts, sessions, logout, relinking and disabling an identity |
| `SourceSync` | connector syncs and perception syncs: cursors, versions, documents, tombstones |
| `ProjectMemoryQueue` | scheduled and requested scans of a project, leases, formation |
| `CaptureLedger` | what those jobs promise, abstractly; `ProjectMemoryQueue` refines it |
| `ProjectMemoryReview` | memories of a project: formation, review, correction, kickoff packs |
| `<Module>Proofs` | theorems about eight of these; `HypothesisMonitorProofs` also has those about `ControlPlane` |
| `MC<Module>` | the constants, the symmetry and the views that its `.cfg` files use |

`PROJECT.json` maps every definition to the source lines it models and lists the
runs, the mutated definitions each property was shown to catch, the hazards and
the theorems. Paths below are relative to the repository's `src/modules/` unless
they say otherwise. From this directory, `tlc -workers 2 -config X.cfg MCM.tla`
runs the model `M`, `tlapm MProofs.tla` checks its proofs.

## Inventory

### What is modelled

**Control-plane queue** (`memory/monitor-worker.ts`, `discovery/discovery-worker.ts`,
`events/*.ts`, `memory/monitor-operations.ts`, `discovery/discovery-operations.ts`,
`hypotheses/lifecycle.ts`).
*State*: `source_change_events`, `monitor_jobs`, `hypothesis_discovery_jobs`, the
two policy tables, `monitor_runs` and discovery runs, the notification outbox.
*Operations*: record a change and fan it out, enqueue a due schedule, run now,
claim, evaluate, complete, fail, pause, resume, end a hypothesis.
*Hard*: completion and failure address a job by id without comparing the lease;
the decision to publish an event reads other jobs' rows under READ COMMITTED; a
hypothesis may end under a worker; the claim does not consult `max_attempts`.
*Correct when*: work takes durable effect once, an event is not announced as
processed ahead of its work, failures are announced, and no lease strands a job.

**Hypothesis monitor** (`memory/hypothesis-monitor.ts`, `hypotheses/lifecycle.ts`).
*State*: the policy's checkpoint, runs with their evidence deltas, memory
candidates, the hypothesis record and its transitions, notifications.
*Operations*: evaluate an event, initialise a policy (run by the bootstrap and by
every operator command), scan for staleness, review a candidate, mark read.
*Hard*: the evidence packet is read in transactions before the one that locks
the policy and writes the run; initialisation, evaluation, the staleness scan
and reviews overlap; every operator command replays the notification backfill.
*Correct when*: runs, deltas and transitions form chains that end in what is
shown, verdicts and read marks survive, and no change is missed.

**Hypothesis discovery** (`discovery/discovery-runner.ts`, `hypothesis-discovery.ts`,
`discovery-policy.ts`, `discovery-operations.ts`, `discovery-demo.ts`).
*State*: policies, runs with their observation, candidates with their evidence,
misses and observation links, review notifications, the promoted hypotheses.
*Operations*: run a policy, set the demonstration up, create a policy, pause and
resume, dismiss, accept, create the monitor of what was accepted.
*Hard*: a candidate is refreshed, missed, superseded and reactivated by runs while
people decide on it; links are written for decided candidates whose evidence no
longer changes; the monitor is created after the promotion has committed.
*Correct when*: a candidate's status follows from the runs, whoever may decide is
asked to, and a decision and the evidence it rests on never change.

**Ontology** (`ontology/semantic-evolution.ts`, `ontology-editor.ts`,
`ontology-repository.ts`). *State*: versions, proposals, activation receipts, the
version each discovery policy pins and each run records. *Operations*: propose,
reject, supersede, approve, publish from the editor, create a policy, run it.
*Hard*: proposals and new policies read the current version without the
publication lock; impact is analysed before the commit while discovery goes on.
*Correct when*: nothing is silently rebased, an approval does not fail on its own
changes, receipts are complete, and runs record the version that was current.

**Browser sessions** (`identity/browser-session.ts`, `request-actor.ts`, the
functions of migration 0017, `scripts/link-external-identity.ts`,
`scripts/disable-external-identity.ts`). *State*: login attempts, sessions, the
identity's link. *Operations*: begin, consume, create a session, use it, log out,
relink, disable. *Hard*: repeated redirects; expiries that uses extend; a script
that revokes what it sees while a session is being created.
*Correct when*: an attempt makes one session, a session is used within its lives,
and a live session belongs to the link that holds.

**Source sync** (`sync/research-sync.ts`, `source-integration/service.ts`).
*State*: cursors, stored objects with their versions and documents, artifacts with
their observations, announced changes. *Operations*: a connector sync, a perception
sync, their failures. *Hard*: cursors are read without a lock of their own; a
content may return; a tombstone concerns all versions; any step may fail.
*Correct when*: no change is skipped or announced twice, and what was deleted is
retired.

**Project memory jobs** (`organisational-memory/project-memory-service.ts`,
`formation.ts`). *State*: `project_memory_jobs`, `background_capture_runs`.
*Operations*: enqueue a due schedule, sweep, claim, form, settle; a member's own
scan. *Hard*: all drain loops claim under one `lease_owner`; the sweep buries a
job that is still being run; a worker may die between the commit of a formation
and the settlement of its job; two formations of one content race.
*Correct when*: attempts stay within the limit, a settled job keeps its outcome,
the outcome agrees with the capture runs, and every scheduled job settles.

**Project memory review** (same files and `host-product.ts`). *State*:
`organisational_memories`, their evidence and reviews, kickoff packs, memberships.
*Operations*: form candidates, approve, reject, correct, deliver a kickoff pack,
sync the host's memberships. *Hard*: a review guards on an unlocked read; a
correction may name an existing memory, also itself; packs are assembled while
reviews go on. *Correct when*: the review log explains each memory's status, only
reviewed precedent is delivered, and no memory loses its attribution.

**How they interact.** A connector's transaction records the change and its
event together. The queue's `evaluateReadsConfiguration` and
`evaluateCommitsRun` are the two transactions whose contents `HypothesisMonitor`
details: the queue decides *who* runs an event and how often, the monitor what
running it does; `executeDiscoveryPolicy` there is the one transaction that
`HypothesisDiscovery` details, whose triggers are the queue's discovery jobs.
`HypothesisMonitor` therefore lets any evaluator take any
recorded event that has no run, also one another evaluator holds: that is
everything the queue allows, as lapsed leases hand a job on. `ControlPlane` puts the
two together. Ending a hypothesis
is a lifecycle operation that reaches into the queue (`endHypothesis`).
`ProjectMemoryQueue` and `ProjectMemoryReview` share formation: the first
follows its runs and jobs, the second what it inserts. `SourceSync` ends where the
queue begins, with an announced change; a perception sync hands the corpus to
discovery. `OntologyEvolution` decides which version a discovery run records.

### What is not modelled

| Component | State and operations | Why not |
| --- | --- | --- |
| Isolation policy (`organisational-memory/isolation-policy.ts`) | three pure decisions | only tests call them: the services take no decision from them |
| Model router (`model-routing/model-router.ts`) | budgets, usage ledger | the running system asks for one constant, deterministic route at no cost; budgets are reached by tests and benchmarks only |
| Further monitors, other lifecycle transitions | `createHypothesisMonitor` beyond a promotion | a monitor's first evaluation is `HypothesisMonitor`'s initialisation; the steps after a promotion are in `HypothesisDiscovery`, the end of a hypothesis in `ControlPlaneQueue` |
| Rate limits, bearer tokens, cookies | `request-actor.ts`, `mutation-authorization.ts` | counters and formats beside the sessions that are modelled |
| Account sync (`sync/crm-sync.ts`) | the steps of `runSourceSync` inside the seed's transaction | the same cursor and mapping, with no overlap of its own |
| Hypothesis service and projection | read model over what the monitor writes | no state of its own |
| Debrief of a project (`captureProjectDebrief`) | debriefs and their spans | it inserts columns `provenance_spans` does not have, so every call rolls back: nothing to interleave |
| Context retrieval, ranking, search, answers, embeddings | read-only queries, floating-point scores, provider calls | taken as given: the packet `HypothesisMonitor` evaluates |
| Row-level security | which rows a query returns | an actor's view is an input of the models |
| Context assets, signals, research mutation, ids | seeding and single sequential transactions | nothing interleaves; the mutation enters as a source change |
| Operations, benchmarks, demo, routes, user interface | configuration, measurement, validation, rendering | outside the core logic; together they are over half of the code |

## ControlPlaneQueue

A job's idempotency key is made of its policy and event, so a job *is* the pair
`<<policy, event>>`. Monitor and discovery jobs are two tables with one protocol;
`Serves` gives each worker its table, and where the code differs (discovery does
its work in one transaction, monitoring in two with the context read between)
there is an action for each.

| State | Code |
| --- | --- |
| `policy`, `ended` | policy status; hypotheses superseded or retired |
| `event`, `status`, `attempts` | the columns of those names, `"none"` before the row exists |
| `lapsed` | `leased_until` of the current lease is past |
| `worker` | a drain loop's local variables: the job, the attempt number it claimed with, and the verdict on the event it computed before its commit |
| `runs` | rows of `monitor_runs` or discovery runs for the job |
| `alerted` | critical notifications raised by a failure |

Each database transaction is one action, with one exception. `completeJob`
updates its own row and then evaluates
`markSourceEventProcessedWhenSettled`; under READ COMMITTED that statement sees
what others had committed when it started, and its effect shows only at the
commit. So it is `completeJobReads` (a snapshot) and `completeJobCommits`, and
`RowLocked` keeps other writers of the same row out between the two, as the row
lock does. A worker that throws goes to `"failing"` and then runs `failJob` in a
transaction of its own; a worker that dies becomes idle and its lease remains.

`WorkLedger` states what the queue is for, without leases, workers or retries:
an event is accepted with the jobs it asks for, each job is evaluated at most
once, an event is published only when all its jobs are, and a late failure may
withdraw it. `ImplementsLedger` is the refinement: requested jobs are those with
a row, evaluations are the run rows, published events are the processed ones.

Abstractions: time is reduced to what it permits (any lease may lapse; if its
holder lives, that is an *overrun* and counted). `available_at` and the priority
only order runnable jobs, so any may be claimed. Of an event's matching policies
any subset of the active ones is possible.

### Runs

`queue_safety`: one monitor and one discovery policy, one event, two monitor
workers and a discovery worker, two attempts, one overrun, one crash, pause,
resume and the end of the monitored hypothesis (191 030 states, under the fairness
below). One event is enough because jobs of different events share nothing but
their policy, which no job writes; two jobs of one event are needed for
publication, two workers of one table for stale settlement.

- `ProcessedMeansEvaluated`: work is not lost behind a processed event, although
  settlement is not fenced.
- `AttemptsAccounted`: `claimJob` does not look at `max_attempts`; attempts beyond
  it are paid for by a lapse or a crash each. The retries are thus not bounded by
  the limit alone, only by it and the number of lost workers.
- `ReopenedOnlyAfterOverrun`: a settled job is reopened only after a lease lapsed
  under a live holder or its hypothesis ended under one.
- `LeasesAccounted`: the inductive invariant of leases and settlement. Among its parts
  are `FailuresAlerted` (a failed event has an alerted job, a dead letter was
  announced or its hypothesis ended) and `SoleJobPublishes` (an event with one job
  never misses its publication).
- `ImplementsLedger`: the refinement. That work is not repeated (`EvaluatedOnce`) and
  the rest of `DurableWork`, the inductive invariant behind it, are proved and not
  checked again by a run.
- `JobsSettle`: every job settles or its policy is not active.

One run shows where a document promises more. `queue_ended`: ARCHITECTURE.md:150
says that ending a hypothesis "strands no runnable job". It dead-letters leased jobs
too, but the worker that holds one does not notice: when it fails before its last
attempt, `failJob` sets the dead letter back to `retrying`, and as the policy is
stopped no worker will claim it.

No document speaks of a second one. Two jobs of one event that complete in
overlapping transactions each see the other as unfinished, so neither marks the
event: it stays `queued` for good with all its jobs `completed`, although the
function is called `markSourceEventProcessedWhenSettled`. `SettledEventIsMarked`
states what the name says, and `MCControlPlaneQueue_skew.cfg` has TLC print the
trace; `SoleJobPublishes` is what does hold.

## HypothesisMonitor

One active policy and its hypothesis. A *packet* is what the service actor's
context query returns, reduced to the stance of each evidence resource; `process`
holds what an evaluator or an operator command has read so far.

| State | Code |
| --- | --- |
| `packet` | what the query would return now |
| `baseline`, `checkpoint` | the snapshot initialisation wrote; `latest_snapshot` |
| `runs` | `monitor_runs` with their before, after and deltas, in commit order |
| `candidate` | `memory_candidates`, by event and evidence |
| `epistemic`, `due`, `transitions` | the hypothesis record, its refresh window, its history |
| `sent`, `unread` | deduplication keys in the outbox, and those not yet read |

`evaluateMonitorEvent` is `evaluateReadsConfiguration`, `assembleContext`
(transactions of the context service), `evaluateLocksPolicy` (`SELECT ... FOR
UPDATE`) and `evaluateCommitsRun`; between the last two the policy is locked.
`recordHypothesisEvaluation` takes the *record's* status as the previous one, so
leaving `stale` is a transition. Initialisation assembles a packet, then writes
it as the baseline if there is none; with `CatchUp` it withholds the evidence of
the prepared research mutation from the baseline and then records an event for
it.

Abstractions: one hypothesis and one scope; a change alters one evidence
resource or none; refused attempts (no baseline yet, a run exists) are unbounded,
other failures bounded by `MaxThrows`.

### Runs

`monitor_chain`: two evaluators, the bootstrap with its catch-up event, one more
event, one failure, one staleness scan, two evidence resources. Two overlapping
evaluations are what can break a chain; two resources let a run's delta differ from
the whole change. The view `UnreadHidden` identifies states that differ in `unread`
alone (488 718 states are left). Nothing but `markRead` looks at `unread`, `markRead`
changes nothing else, and of the properties only `TypeOK` mentions it, for which a
state with every notification unread is the strictest.

- `DeltasExplainCheckpoint`: the deltas replayed over the baseline give the
  checkpoint.
- `TransitionsChain`: the history is a path from `untested` to what is shown, whose
  every step starts where the one before ended.
- `ImplementsEvaluations`: the refinement. `EvaluationLedger` has no processes,
  locks, failures or repetitions; in it a first checkpoint is established once, an
  evaluation takes the newest checkpoint, a packet and an event that has none, all in
  one step, and the hypothesis moves with it. Four transactions of two overlapping
  evaluators are to look like that from outside. The baseline is the first
  checkpoint, the runs without their deltas are the log, the targets of the
  transitions are the path. `CheckpointsChain` (each run compares with what the one
  before it left) and `EpistemicMatchesCheckpoint` (what is shown fits the checkpoint
  or is stale) follow from it and are proved, so no run checks them separately.
- `OnlyLateRunsMislead`: when every event has its run and nobody works, the
  checkpoint is what the service actor can see, unless the last run was *late*: it
  committed after a run that was not there when it read its packet. It is the only
  way to a checkpoint that is out of date; with one worker there is none. Before
  the first run a bootstrap cut off before its catch-up event may leave the
  prepared mutation out. All this is relative to recorded changes: that a packet
  may also change because freshness moves its ranking is not modelled.

`monitor_overlap` is the disagreement: that a settled checkpoint is current
(`SettledCheckpointCurrent`) fails with two workers, of which
docs/production-operations.md:35 says leases and keys "make multiple workers safe".
The packet is read before the policy is locked and its age is not compared with the
checkpoint's: of two events, the evaluation that read first may commit last, and
the packet of before the change stays.

The keys of the outbox are modelled with it: an evaluation keys the notification of
its transition by the run, the backfill of the next operator command keys it by the
transition, and the owner gets both. No document speaks of it, so it is listed as a
hazard and is no property.

## ControlPlane

One monitor policy with its queue. `ControlPlane` extends `HypothesisMonitor` and
instantiates `ControlPlaneQueue` with one monitor policy and no discovery; what the
two share is not stored twice. The queue's events are the monitor's, in the order
of their recording, its workers are the monitor's evaluators, and its durable runs
are counted from the monitor's `runs`.

| Action | Of the monitor | Of the queue |
| --- | --- | --- |
| `recordKnowledgeChangeEvents` | a source change | the event and its job, or an ignored event |
| `RefreshRequested` | an event that changes nothing | a due schedule, run now |
| `CatchesUp` | the bootstrap's event | its job, whatever the policy's status |
| `BeginsEvaluation` | `evaluateReadsConfiguration`, or none | the transaction that finds a run or an inactive policy |
| `EvaluationProceeds` | `assembleContext`, `evaluateLocksPolicy` | none |
| `CommitsEvaluation` | `evaluateCommitsRun` | `evaluateCommitsRun` |
| `EvaluationRefused` | `AttemptRefused` | the worker throws |
| `WorkThrows`, `Crash` | the evaluation under way breaks off | the worker throws, or dies |
| `QueueStep` | none | claim, completion, failure, a lease lapses |
| `PolicyUpdated` | none, and waits for the policy's lock | pause, resume, end of the hypothesis |
| `Bootstrap`, `RecordStep` | initialisation, staleness, review, read marks | none |

`InStep` ties the two positions of a worker together: it is in an evaluation exactly
while the queue has it assembling, and for the event of its job. The monitor alone
lets any evaluator take any event; here only who claimed a job may.

`NoChangeMissedSilently` spans both: when nothing is left to do and the checkpoint
is not what the service actor can see, there is a reason on record. Either the last
run was overtaken, or an event has no run and says so (it was ignored since the
policy was not active, or its job is a dead letter that was announced or whose
hypothesis ended), or there is no run at all and the bootstrap was cut off before
its catch-up event. Neither part has it: the monitor assumes that each event gets
its run, and the queue does not know what a run is worth.

`plane_missed`: two workers, one attempt, one recorded event besides the catch-up,
one throw, one crash, pause, resume and the end of the hypothesis (715 560 states;
deadlock is checked). One attempt makes every failure the last, which is when a
change may be lost. No staleness scan finds anything here (`MaxStale` is 0), as a
scan touches neither checkpoint nor jobs; `monitor_chain` has them. The view `EvaluationView` leaves out
what neither the property nor a guard that leads to it asks for: the candidates and
the outbox, what runs hold beside their event and lateness, transitions but for the
number of staleness scans (a bound), and the packet of an operator that will find a
checkpoint and discard it.

## HypothesisDiscovery

A document is the set of concept rules it matches; a statement is the primary rule,
alone or with the secondary one, as `discoverHypotheses` orders them. A run, a
review and a set-up of the demonstration are one transaction each, since they lock
the policy's or the candidate's row first.

| State | Code |
| --- | --- |
| `policy`, `runs` | `hypothesis_discovery_policies`, `hypothesis_discovery_runs` with their observation |
| `candidate` | status, `missing_run_count`, `evidence_resource_ids` and observation links |
| `sent`, `unread` | review notifications, keyed by candidate and run; 0 is the demonstration's |
| `marked` | history: the requests their recipient marked read by an operator command |
| `grounds`, `monitor` | Evidence of the promoted hypothesis; how far its monitor's creation came |
| `rejected` | policies with a run that the trigger of migration 0026 rolled back |

`executeDiscoveryPolicy` is the whole run: the finding, the candidate refreshed or
left alone, its links replaced, the misses of the other proposed candidates, the
run and its notification. `RejectedRun` is the same run when the trigger refuses a
link. `markNotificationsRead` is the operator command that reads every notification
of its actor, those of undecided candidates included; the owner of a policy is the
recipient of its requests. Abstractions: scores, wording and the digest behind a
trigger; the corpus a run reads is any of `Corpora`. The run of a trigger that is
recorded changes nothing, so a run of the model is one for a new trigger. A review
whose request dies after the promotion takes no further step, and its monitor stays
where it is.

`discovery_runs`: two policies, three documents in two sources, two rules, four
corpora (nothing, the demonstration's, one more document, one more rule), three
runs, an owner for each policy and one monitor whose creation goes on after the
promotion (737 059 states). Three runs are what it takes to supersede a candidate
and reactivate it.

- `MissesExplainStatus`: an undecided candidate's status and counter follow from
  the runs since it was last seen.
- `NoticesFollowReview`: one request was sent per appearance of a candidate, and it
  is unread until its recipient marks it, after which nothing sends it again; a
  decided candidate of the supplier policy has none unread. A proposed candidate may
  thus have no unread request, when its owner marked all of them.
- `LinksWithinEvidence`: the links are among the evidence the candidate lists,
  although the trigger looks at a link only when it is written.
- `DecisionIsFinal`: no later run or set-up changes a decision or the evidence it
  was taken on, and the promoted hypothesis rests on exactly that.
- `OnlyDecisionsRefuse`: the disagreement below has one cause. No run is refused
  for its links before somebody decided on a candidate of its policy.

`discovery_links` is a disagreement. `replaceObservationEvidenceLinks` links the
evidence of the run to the candidate, but the candidate's own evidence is not
refreshed once it is decided, and the trigger compares the two. A run that finds a
decided statement on new perceived evidence is rolled back, on every retry, and so
is every later run that sees that evidence; README.md:19 says of the workers that
they "retry failures and preserve immutable observations of each candidate".

## OntologyEvolution

A version is the set of names it defines; `Requires` says which names a name's
endpoints or target mention. Publications exclude each other by an advisory lock,
so what happens under it is one step, except that an approval is `AnalyseApproval`
and `PublishApproval` (or `RollBackApproval`), as discovery does not take the lock.
A proposal and a new policy read the current version in one step (`ReadBase`,
`ReadCurrentForPolicy`) and commit in another.

| State | Code |
| --- | --- |
| `versions` | `ontology_versions`; beside each, the policies whose creation was under way |
| `proposal`, `proposing` | `ontology_change_proposals`; what a proposer has read |
| `approving` | the approval that holds the lock, with its impact |
| `pin`, `creating` | a policy's `ontology_version_id`; the version its creation has read |
| `ran` | discovery runs: the version recorded, the one current, the approval open |
| `receipts` | `ontology_activation_runs` |

`ontology_versions`: three names (a type, a relationship that needs it and one that
does not), two proposals, two policies, three versions, two runs (908 031 states).
Two proposals of one base and the editor are what can publish in between; three
versions let a policy fall two behind.

- `NeverRebased`: what an approval published is its base with its changes, with
  nothing in between; docs/semantic-evolution.md says it "is never silently
  rebased".
- `ValidatedStaysValid`: a proposal on the current base still applies, so the
  throw in `applyOntologyChangeSet` is out of an approval's reach.
- `ReceiptsListCandidates`: a receipt lists every candidate formed before, but those
  whose run committed between the analysis and the commit.
- `RunsUnderCurrentOntology`: a run's version is behind only by what the editor
  published, which advances no policy, or by what was published while the policy
  was being created, whose row no approval could see.

## BrowserIdentity

One external identity. A session is named by the callback that made it, a link by
its number. Time is a clock of the server and the database; the lives are
constants of the code's order (login shorter than idle shorter than absolute).

| State | Code |
| --- | --- |
| `attempt`, `callback` | `oidc_login_attempts`; a callback request between its calls |
| `session` | `browser_sessions`; `held` says the cookie was delivered |
| `identity`, `script` | `external_identities`; the open transaction of a script |
| `request` | a request that has resolved its actor and not answered yet |

Each database function is one step, except where its snapshot and its commit can
be told apart: `create_browser_session` reads the link (`SnapshotLink`) before its
row is visible, and a script sees and locks sessions (`RevokeSessions`) before it
commits. The insert's foreign key waits for a relinking, since `user_id` is a key
column there, and not for a disabling.

`identity_sessions`: two attempts, two callbacks, one request, two members, lives
1, 2 and 3 on a clock up to 3, two scripts (2 514 664 states). Two callbacks repeat
one redirect; the clock passes every life.

- `OneSessionPerAttempt`: however often a redirect is repeated and whatever is
  deleted meanwhile; the attempt of a failed callback makes none.
- `LiveSessionsOfTheLink`: docs/browser-authentication.md says relinking and
  disabling revoke the existing sessions. A live session was made under the link
  that holds, unless its creation overlapped a script, which cannot see the row;
  the model marks these (`overtaken`).
- `UsedWithinLife`: every use is of a session nobody revoked, within the absolute
  life and within the idle life since the use before, however the idle expiry was
  extended; nothing revives a revoked session.

## SourceSync

The sources are external: an object's content is a value, its hash the value
itself, a cursor the number of changes the source has made. A page lists what
changed since the cursor and perhaps more, as the fixture connector does.

| State | Code |
| --- | --- |
| `live`, `rev`, `changed` | the source: its contents, its changes, the last change of each object |
| `cursor` | `sources.cursor`, `external_source_connections.cursor` |
| `row`, `artifact` | a connected object with its mapping; an external one with its observations |
| `history` | versions in the order of their announcement |
| `synthesised` | corpora that perception syncs gave to discovery |
| `sync`, `perception` | what a sync has read before its commit |

A connector sync is `runSourceSync` (the core resources' row locks, the cursor),
`ListPage` and `SyncCommits` or `SyncFails`: what its one transaction writes nobody
sees before its commit. `ensureCoreResources` rewrites rows first of all, and so a
second sync waits there (`CoreLocked`): this, and not the cursor's own row, keeps a
slower sync from moving the cursor back. A perception sync lists before it locks
anything, so these do overlap; only scripts run them, over constant adapters, so
no property is stated about their cursors.

`sync_pages`: two records of one source and an external artifact, two contents
with evidence and one without, two syncs of each kind, three changes (334 023
states). Three changes let a content return.

- `CursorCoversContent`: whatever the source changes during a sync and whichever
  syncs fail, a change behind the cursor is stored.
- `ChangesAnnouncedOnce`: no sync announces what is stored already; hash, version
  and documents are those of the history. A record that loses its evidence keeps
  its last documents, as `mapRecord` returns early there: the property says so.
- `TombstonesRetire`: the active observations are those of the versions since the
  last tombstone, none while the artifact is deleted; what is stored was
  synthesised.

## ProjectMemoryQueue

The jobs of one project. Content is a digest; formation of a digest in `Signals`
finds candidates. A capture run is unique per digest.

| State | Code |
| --- | --- |
| `content` | digest of what `projectArtifacts` returns now |
| `runs` | digests with a background capture run |
| `status`, `attempts`, `owner`, `lapsed`, `capture` | columns of `project_memory_jobs` |
| `process` | a worker's local variables: job, attempt number, digest read, whether its run is the first |

`runProjectMemoryWorkerOnce` is `claims` (both sweeps and the claim are one
transaction) or `sweepsWithoutClaim`, then `formationReads`, `formationCommits`,
and `completes` or `fails`. Settlement has `lease_owner` in its WHERE, so a worker
that lost its lease settles nothing, but every drain loop has the *same* owner
string: the fence separates a drain loop from a command, not two loops from one
another. The member's scan is one transaction, whose row is seen only when it
commits.

The sweep at `project-memory-service.ts:565` also buries a running job on its
last attempt whose lease is live: that attempt goes on, and its completion then
reaches no job. The model has this, and the properties hold with it: the work
is done, its capture run exists, and only the job says otherwise.

Nothing bounds crashes or lapses here; `max_attempts` does. Backoff is
abstracted: a retrying job may be claimed at any time.

### Runs

`memory_jobs`: a scheduled job, a member's scan, two drain loops under one owner and
a command that may die or stop for ever, two digests with one signal, one change of
content, two attempts (47 932 states, under the fairness below). Two loops with one
owner are the weak point of the fence; two attempts let a job be lost, retried and
buried under a live worker.

- `SettledStaysSettled`: a settled job keeps its outcome.
- `ImplementsCaptures`: the refinement. In `CaptureLedger` a content is captured
  once, an open job is given an outcome that names a capture, or is buried, and
  `completed` goes to one job of a content; there are no workers, leases, attempts
  or sweeps. A job is open from its row to its outcome, a sweep may bury several.
- `FencedOutcomes`: the inductive invariant, of which attempts within the limit are
  a part, and `OutcomesMatchRuns`: an outcome names an existing run, and one digest's
  candidates are claimed by one job at most.
- `JobsSettle`: every scheduled job settles. No bound on crashes is needed, as each
  claim costs an attempt.

## ProjectMemoryReview

A memory is identified by the hash of its statement in lower case. A review is
`reviewReads` (the guards, nothing locked) and `reviewCommits`, and other
transactions commit between; a kickoff pack reads, supersedes and commits, and
the trigger on `kickoff_pack_items` looks at each memory again. A correction
writes a replacement by the hash of the corrected statement: it may be the memory
itself (a change of case only) or one with a history, which it keeps.

What a review writes is dated with `now()`, the start of its transaction: the rows of
`organisational_memory_reviews` by their `created_at`, the memory by `reviewed_at`. The
page shows a memory with its last review by `created_at` (`IsShown`), which is the
order in which reviews began and not that of their commits. `clock` counts both,
`log` is the set of rows, and each carries with `committed`, which nothing retains,
the time of its commit. No two reviews begin at the same time in the model.

Abstractions: a formation keeps the `Limit` (four) candidates of highest quality; quality
is left out, so it keeps any `Limit` of those detected. A lead who loses the membership
between the read and the write of a review is not stopped, as neither the code nor a
trigger looks again. One member's packs.

`memory_history`: two statements, a limit of one, two artifacts, two reviews, two
packs, a change and a membership sync (1 096 652 states; two statements give
corrections onto each other and onto oneself and make the cut leave one out, two
artifacts a memory whose first attribution is not the only one).

- `ReviewLogExplainsStatus`: the review that a memory is dated with is retained and has
  its status for a verdict. The review shown may have another verdict, but only if a
  review that began before it committed after it. All reviews of one memory overlap:
  none is ever reviewed anew after a verdict could be seen. A memory without review is
  a candidate, or what the correction it is dated with wrote.
- `PrecedentWasReviewed`: what a pack delivered had been approved, or written by a
  correction.

The guard of a review reads the memory without `FOR UPDATE` and the update is by
id, so of two leads who read a candidate at once the second overturns the first.
Both verdicts are retained, and if the second began first the page shows the
overturned one beside the status: `ReviewLogExplainsStatus` allows exactly this.

docs/project-memory-workflow.md:50 says "Correction creates a new approved Memory
Resource". `CorrectionCreatesApproved` states this and does not hold:
`insertMemoryResource` (lines 326 to 332) returns where the statement has a memory,
whatever its status, so a correction onto a rejected memory leaves no approved one and
a correction that changes case only supersedes the memory by itself. No run of the
list checks it; `MCProjectMemoryReview_corrections.cfg` has TLC print the shortest case.

That chains of corrections keep the attribution (`MemoryIsAttributed`) and that
what was decided is not proposed again (`DecidedStaysDecided`) is proved.

## Fairness

`JobsSettle` of both queues assumes `FairSpec`: weak fairness of the drain loops'
own steps and of time (`LeaseLapses`), nothing else.
`scripts/run-operational-service.ts` calls the drains again every two seconds and
catches what an iteration throws, and the deployment restarts the process; a loop
that keeps being able to step therefore does. A lease's time passes whatever anyone
does. No fairness is asked of commands, requests, operators or the content of
sources, and none of a throw or a crash: these may happen or not. The safety
properties of the same runs do not depend on it. The other components promise no
end of their own: their steps are requests, scripts and syncs that somebody starts.

## What is proved

Every safety invariant, action property and refinement the runs check is a theorem,
for every value of the constants. The assumptions are those
the modules name (`PoliciesAssumption`, `BoundsAssumption`, `QueueAssumption`,
`DiscoveryAssumption`, `OntologyAssumption`, `IdentityAssumption`,
`SyncAssumption`, ...): sets that stand for different things do not overlap, limits
are natural numbers, the lives are in the code's order. Sets may be infinite. Each
proof module states the inductive invariant first, then that each action keeps each
part, then the theorems.

**The composition** (at the end of `HypothesisMonitorProofs`). `NoChangeMissedSilentlyHolds`
is put together from the theorems of its two parts. `PlaneIsMonitor`: every step of
the plane is a step of the monitor or none, so its inductive invariant holds of the
plane. `PlaneIsQueue`: likewise of the queue, whose proof module is instantiated with
the monitor's runs, so what its theorems say of jobs and workers is true here
(`PlaneQueueFacts`); that a commit adds exactly the queue's row is where the monitor's
invariant is needed. What neither part knows is `Routed`: events are recorded in
order, and a queued one has its job. At rest an event without a run then is accounted
for (`MissingAccounted`): a completed job or a processed event would have its run
(`DurableWork`), a failed event has an alerted job (`FailuresAlerted`), and
`OnlyLateRunsMislead` does the rest. With one worker no run is late, so
`SoleWorkerMissesNothing`: the checkpoint of an evaluated hypothesis at rest is
current, or an event without a run says why it is not.

**`ControlPlaneQueueProofs`.** `TypeCorrect`: `TypeOK`. `DurableWorkHolds`: the
inductive invariant, and from it `EvaluatedOnceHolds` and
`ProcessedMeansEvaluatedHolds`. `ProcessedMeansEvaluated` is not inductive by
itself: an event is published by the commit of a verdict formed in an earlier
step, by a worker that may since have lost its lease, over jobs that may since
have been failed or reopened. `DurableWork` adds what makes this safe: whoever
is past its evaluation has a run (`DoneMeansEvaluated`), so has every completed
job (`CompletedMeansEvaluated`), and a positive verdict is about jobs that all
have runs (`VerdictSound`). Runs are never taken back and no job is added to an
event after its own transaction (`JobsHaveEvents`), so each of these stays true
once it was formed, however stale the worker. `ImplementsLedgerHolds`: every
behaviour of the queue is one of `WorkLedger`: each action is a step of the ledger
or leaves it as it is, which the same invariant shows.

The second part of the module is about leases. `LeasesAccountedHolds` is its
inductive invariant, and from it follow `AttemptsAccountedHolds`,
`FailuresAlertedHolds`, `SoleJobPublishesHolds` and the action property
`ReopenedOnlyAfterOverrunHolds`.

- *Attempts.* The claim never looks at the limit, and a late worker may put a job
  that others hold or have settled back to `retrying`, so the number of claims is
  not simply one per failure. `AttemptBudget` keeps a balance per job: the claims
  so far, the workers on the job whose attempt number is below the limit (each
  may still fail once), the attempt numbers below the limit still to come, and
  one if the job is open to a claim, together never exceed `max_attempts` plus
  the lapses and crashes. A claim turns the opening and a future attempt into a
  claim and a running one; a failure below the limit turns the runner into an
  opening; a lapse or crash that opens a job is its own payment.
- *Reopening.* `SoleHolder`: while no lease has lapsed under a live holder, the
  worker on a job is alone on it and holds the newest lease, unless the
  hypothesis ended under it. A worker that settles a settled job contradicts that.
- *Publication.* `SoleVerdict`: for an event with one job the two NOT EXISTS are
  vacuous, in the snapshot as at the commit, as an event gets its jobs in its own
  transaction and no other.

`StepKinds` sums the sixteen actions up as nine kinds of step (a new event with
its jobs, a worker going on with its job, ...), and each conjunct is preserved
kind by kind.

**`HypothesisMonitorProofs`.** `MonitorInvariant`, in five parts besides the types.
`Chained` is the lock's work: one evaluator compares at a time, with the checkpoint
that is still there when it commits; hence `CheckpointsChainHolds` and
`DeltasExplainEachRun` (each run's deltas applied to its before give its after).
`DeltasExplainCheckpointHolds` folds over all runs, so it needs an induction; the
library's induction rules take an operator and cannot be instantiated, but
`WFMin` of `WellFoundedInduction` and the well-foundedness of `<` can be cited as
they are. From them comes `LeastNat`, a nonempty set of naturals has a least
element, and each induction is done on the least counterexample: `FoldExists` (the
function that `FoldLeft` chooses is there for every length) and `ReplayOfChain` (a
chain's deltas replayed give its last packet).
`Path` and `Shown` follow the hypothesis: `TransitionsChainHolds`,
`EpistemicMatchesCheckpointHolds`. `OnlyLateRunsMisleadHolds` needs `Fresh`: for
every process that holds a packet which is no longer current there is an event that
came with the current packet and has no run among those the process knew. A run
that commits without being late therefore leaves that event without a run, and the
system is not settled. `SoleEvaluatorStaysCurrent` is the other half: with one
evaluator no run is ever late, so a settled checkpoint is current, and the
disagreement of `monitor_overlap` needs the second worker.
`ImplementsEvaluationsHolds` maps each action to a step of
`EvaluationLedger` or to none, from the same invariant: what makes the commit one
step is that the packet compared with is still the newest checkpoint (`Chained`),
and what makes a staleness scan legal is that only an evaluated hypothesis falls
due (`Shown`).

**`HypothesisDiscoveryProofs`.** `DiscoveryInvariant` makes the properties inductive:
`Explained` has, beside `MissesExplainStatus`, that there is a last run which saw a
statement; `Noticed` states the notifications key by key, since a run's key must be
new to be unread, and only keys that were sent can be marked; `SetUp` says when the demonstration's own candidate and
notification exist, so that a later set-up asks for no review of what was decided;
`Grounded` ties the hypothesis to the evidence of its acceptance. From these
`MissesExplainStatusHolds`, `NoticesFollowReviewHolds`, `LinksWithinEvidenceHolds`, `OnlyDecisionsRefuseHolds` and
the action property `DecisionIsFinalHolds`.

**`OntologyEvolutionProofs`.** `EvolutionInvariant`: `Chain` (only the newest version is
current, and a publication changes no name of an older one), hence `Grounded` (what
a proposal was validated against stays as it was), `Published` (what it published
stays next to its base), `Receipted` (an approval under way knows every run but its
contemporaries) and `Pinned` (a policy is behind by the editor's versions or by
those of its creation). Each of the four properties follows from one of them.

**`BrowserIdentityProofs`.** `IdentityInvariant`: `Spent` (an attempt belongs to the one
callback that consumed it, a session to the attempt of its callback), `Linked`
(between its look and its commit a script has locked every live session that did
not appear after the look), `Lived` (the expiries follow from creation and last
use), `Existing`. From these `OneSessionPerAttemptHolds`,
`LiveSessionsOfTheLinkHolds` and the action property `UsedWithinLifeHolds`.

**`SourceSyncProofs`.** `SyncInvariant`: `Locked` (one connector sync at a time holds a
cursor, and it is still the stored one) and `Listed` (on a page that waits for its
commit is every object whose last change lies between the two cursors, as the
source holds it: an object that changed again lies behind the page's cursor).
`CursorCoversContentHolds` needs these and that hash and version agree, which
`ChangesAnnouncedOnceHolds` gives; `TombstonesRetireHolds` follows the history of one
artifact by one version more (`SinceTombstoneAppend`).

**`ProjectMemoryQueueProofs`.** `FencedOutcomesHold` and `TypeCorrect`: `TypeOK` and `FencedOutcomes`;
from it `AttemptsWithinLimitHolds`, `OutcomesMatchRunsHolds` and the action
property `SettledStaysSettledHolds`. Two facts carry it. Only a running job has
an owner (`OnlyRunningOwned`), so a settlement that passes its fence finds a
running job, although it need not be the attempt that claimed it; and an
exhausted job is buried in the transaction that would claim it, so an untried
job has no attempts (`UntriedUntilClaimed`) and the claim stays within the
limit. For the candidates, whoever formed a digest first and has not settled
yet is alone in this, and no completed job claims that digest
(`ClaimedOnce`): without it two settlements of one digest could each be right by
themselves. `ImplementsCapturesHolds` shows each step to be one of `CaptureLedger` or
none: a claim with its sweep is a `Bury` of the exhausted jobs or nothing, a
settlement that passes the fence finds an open job (`SettlesRunning`), and
`ClaimedOnce` gives the ledger's guard that nobody claimed the content before.

**`ProjectMemoryReviewProofs`.** `ReviewInvariant`: the status is the verdict of the
review committed last (`Explained`), as the row and the status are written together,
by id, whatever another review has made of the memory; no two reviews began at once
(`RowsDated`); and a review under way began before any review of its memory was
committed (`ReadsDated`), since the memory it read was a candidate. From these
`ReviewLogExplainsStatus` follows (`ExplainedIsShown`): if the row shown is not the one
committed last, it began later and committed earlier. `PrecedentWasReviewedHolds` follows
from the second look of the trigger; `MemoryIsAttributedHolds` needs that what a
review has read keeps its row (`ReadExists`); `DecidedStaysDecidedHolds` is an action
property.

**Model-checked only.** Both `JobsSettle`: liveness under fairness, and the ENABLED
it rests on, are beyond the prover. No module declares a RECURSIVE operator. Of the
violation runs' properties nothing can be proved, as they do not hold.

## Bounds and symmetry

Every bound is a constant: `MaxOverruns`, `MaxCrashes`, `MaxEvents`, `MaxThrows`,
`MaxStale`, `MaxChanges`, `MaxSyncs`, `MaxRuns`, `MaxMonitors`, `MaxVersions`, `MaxTime`,
`MaxLinks`, `MaxEdits`. `MaxAttempts` is the code's own limit. In `HypothesisMonitor` the sets
are bounded by `MaxEvents`, in `ProjectMemoryReview` by the requests there are, each
handled once. Symmetry is used over workers, requests, proposals,
policies, members and syncs where no definition distinguishes them, and in no run
that checks liveness.

`CHECK_DEADLOCK FALSE` is set where the model may stop: when all requests are
served and nothing falls due, when the versions, runs or the clock have reached
their bound, and in the runs that stop at a violation. `HypothesisMonitor` never
stops, since an operator may always run the initialisation again, neither alone nor
in `ControlPlane`, nor does `SourceSync`, since a sync may always run again.

## What is left

1. `SourceSync` in front of `ControlPlane`: that what a source holds is in the
   checkpoint at rest, up to what `NoChangeMissedSilently` allows. Its third part,
   `CursorCoversContent`, is proved separately.
2. The read side (retrieval, projections, row-level security), which has no state
   to interleave and would be checked against reference definitions over bounded
   inputs.
3. Rate limits and bearer tokens beside `BrowserIdentity`.
4. `JobsSettle` as theorems, with a prover that can reason about fairness.
