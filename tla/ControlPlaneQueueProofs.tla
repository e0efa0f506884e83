----------------------- MODULE ControlPlaneQueueProofs -----------------------
(***************************************************************************)
(* Proofs of ControlPlaneQueue's invariants and of its refinement of       *)
(* WorkLedger, for any policies, events, workers and limits.  The first    *)
(* part needs DurableWork alone: types, durable work, the refinement.  The *)
(* second adds the invariant about leases, attempts, announcements and     *)
(* settlement.                                                             *)
(***************************************************************************)
EXTENDS ControlPlaneQueue, FiniteSetTheorems, TLAPS

(***************************************************************************)
(* Type correctness.                                                       *)
(***************************************************************************)

LEMMA InitTypes == Init => TypeOK
  BY PoliciesAssumption, BoundsAssumption
  DEF Init, TypeOK, Idle, PolicyStatus, EventStatus, JobStatus

LEMMA InsertJobsTypes ==
  ASSUME TypeOK, NEW S, InsertJobs(S)
  PROVE  status' \in [Jobs -> JobStatus]
  BY DEF InsertJobs, TypeOK, JobStatus

LEMMA BusyWorker ==
  ASSUME TypeOK, NEW w \in Workers, worker[w] # Idle
  PROVE  worker[w] \in Busy
  BY DEF TypeOK

LEMMA AtBusy ==
  ASSUME TypeOK, NEW w \in Workers, NEW c \in BusyPc, At(w, c)
  PROVE  worker[w] # Idle /\ worker[w] \in Busy
  BY DEF TypeOK, At, Idle, BusyPc

LEMMA GotoTypes ==
  ASSUME TypeOK, NEW w \in Workers, worker[w] \in Busy, NEW c \in BusyPc, Goto(w, c)
  PROVE  worker' \in [Workers -> {Idle} \cup Busy]
  BY DEF TypeOK, Goto, Busy

LEMMA NextTypes == TypeOK /\ [Next]_vars => TypeOK'
  <1> SUFFICES ASSUME TypeOK, [Next]_vars PROVE TypeOK'
    OBVIOUS
  <1>1. ASSUME NEW e \in Events, recordKnowledgeChangeEvents(e) PROVE TypeOK'
    <2>1. PICK matching \in SUBSET {p \in Policies : policy[p] = "active"} :
            /\ event' = [event EXCEPT ![e] = IF matching = {} THEN "ignored" ELSE "queued"]
            /\ InsertJobs(matching \X {e})
      BY <1>1 DEF recordKnowledgeChangeEvents
    <2>2. event' \in [Events -> EventStatus]
      BY <2>1 DEF TypeOK, EventStatus
    <2>3. QED
      BY <1>1, <2>1, <2>2, InsertJobsTypes DEF recordKnowledgeChangeEvents, TypeOK
  <1>2. ASSUME NEW p \in Policies, NEW e \in Events, EnqueueFor(p, e) PROVE TypeOK'
    <2>1. event' \in [Events -> EventStatus]
      BY <1>2 DEF EnqueueFor, TypeOK, EventStatus
    <2>2. QED
      BY <1>2, <2>1, InsertJobsTypes DEF EnqueueFor, TypeOK
  <1>3. ASSUME NEW w \in Workers, claimJob(w) PROVE TypeOK'
    <2>1. PICK j \in Jobs :
            /\ status' = [status EXCEPT ![j] = "leased"]
            /\ attempts' = [attempts EXCEPT ![j] = @ + 1]
            /\ lapsed' = [lapsed EXCEPT ![j] = FALSE]
            /\ worker' = [worker EXCEPT ![w] =
                 [pc |-> "claimed", job |-> j, attempt |-> attempts[j] + 1,
                  settled |-> FALSE]]
      BY <1>3 DEF claimJob
    <2>2. attempts[j] + 1 \in Nat \ {0}
      BY DEF TypeOK
    <2>3. [pc |-> "claimed", job |-> j, attempt |-> attempts[j] + 1, settled |-> FALSE] \in Busy
      BY <2>2 DEF Busy, BusyPc
    <2>4. QED
      BY <1>3, <2>1, <2>2, <2>3 DEF claimJob, TypeOK, JobStatus
  <1>4. ASSUME NEW j \in Jobs, LeaseLapses(j) PROVE TypeOK'
    BY <1>4, BoundsAssumption DEF LeaseLapses, TypeOK
  <1>5. ASSUME NEW w \in Workers, Crash(w) PROVE TypeOK'
    BY <1>5, BoundsAssumption DEF Crash, TypeOK
  <1>6. ASSUME NEW w \in Workers, evaluateReadsConfiguration(w) PROVE TypeOK'
    <2>1. worker[w] \in Busy
      BY <1>6, AtBusy DEF evaluateReadsConfiguration, BusyPc
    <2>2. \E c \in BusyPc : Goto(w, c)
      BY <1>6 DEF evaluateReadsConfiguration, BusyPc
    <2>3. QED
      BY <1>6, <2>1, <2>2, GotoTypes DEF evaluateReadsConfiguration, UnchangedByReading, TypeOK
  <1>7. ASSUME NEW w \in Workers, evaluateCommitsRun(w) PROVE TypeOK'
    <2>1. worker[w] \in Busy /\ worker[w].job \in Jobs
      BY <1>7, AtBusy DEF evaluateCommitsRun, BusyPc, Busy
    <2>2. \E c \in BusyPc : Goto(w, c)
      BY <1>7 DEF evaluateCommitsRun, BusyPc
    <2>3. runs' \in [Jobs -> Nat]
      BY <1>7, <2>1 DEF evaluateCommitsRun, InsertRun, TypeOK
    <2>4. QED
      BY <1>7, <2>1, <2>2, <2>3, GotoTypes DEF evaluateCommitsRun, TypeOK
  <1>8. ASSUME NEW w \in Workers, executeDiscoveryPolicy(w) PROVE TypeOK'
    <2>1. worker[w] \in Busy /\ worker[w].job \in Jobs
      BY <1>8, AtBusy DEF executeDiscoveryPolicy, BusyPc, Busy
    <2>2. \E c \in BusyPc : Goto(w, c)
      BY <1>8 DEF executeDiscoveryPolicy, BusyPc
    <2>3. runs' \in [Jobs -> Nat]
      BY <1>8, <2>1 DEF executeDiscoveryPolicy, InsertRun, TypeOK
    <2>4. QED
      BY <1>8, <2>1, <2>2, <2>3, GotoTypes DEF executeDiscoveryPolicy, TypeOK
  <1>9. ASSUME NEW w \in Workers, WorkThrows(w) PROVE TypeOK'
    <2>1. worker[w] \in Busy
      BY <1>9, BusyWorker DEF WorkThrows, Idle
    <2>2. QED
      BY <1>9, <2>1, GotoTypes DEF WorkThrows, UnchangedByReading, TypeOK, BusyPc
  <1>10. ASSUME NEW w \in Workers, completeJobReads(w) PROVE TypeOK'
    <2>1. worker[w] \in Busy
      BY <1>10, AtBusy DEF completeJobReads, BusyPc
    <2>2. AllCompletedBut(worker[w].job) \in BOOLEAN
      BY DEF AllCompletedBut
    <2>3. worker' \in [Workers -> {Idle} \cup Busy]
      BY <1>10, <2>1, <2>2 DEF completeJobReads, TypeOK, Busy, BusyPc
    <2>4. QED
      BY <1>10, <2>3 DEF completeJobReads, UnchangedByReading, TypeOK
  <1>11. ASSUME NEW w \in Workers, completeJobCommits(w) PROVE TypeOK'
    <2>1. worker[w].job \in Jobs
      BY <1>11, AtBusy DEF completeJobCommits, BusyPc, Busy
    <2>2. EventOf(worker[w].job) \in Events
      BY <2>1 DEF Jobs, EventOf
    <2>3. QED
      BY <1>11, <2>1, <2>2 DEF completeJobCommits, TypeOK, JobStatus, EventStatus
  <1>12. ASSUME NEW w \in Workers, failJob(w) PROVE TypeOK'
    <2>1. worker[w].job \in Jobs
      BY <1>12, AtBusy DEF failJob, BusyPc, Busy
    <2>2. EventOf(worker[w].job) \in Events
      BY <2>1 DEF Jobs, EventOf
    <2>3. QED
      BY <1>12, <2>1, <2>2 DEF failJob, TypeOK, JobStatus, EventStatus
  <1>13. ASSUME NEW p \in Policies, pause(p) \/ resume(p) PROVE TypeOK'
    BY <1>13 DEF pause, resume, TypeOK, PolicyStatus
  <1>14. ASSUME NEW p \in Policies, endHypothesis(p) PROVE TypeOK'
    BY <1>14 DEF endHypothesis, TypeOK, PolicyStatus, JobStatus
  <1>15. CASE UNCHANGED vars
    BY <1>15 DEF vars, TypeOK
  <1>16. QED
    BY <1>1, <1>2, <1>3, <1>4, <1>5, <1>6, <1>7, <1>8, <1>9, <1>10, <1>11,
       <1>12, <1>13, <1>14, <1>15
    DEF Next, WorkerStep, enqueueDueSchedule, enqueueManualRun

\* Every variable of the queue keeps its type, for any sets of policies,
\* events and workers.
THEOREM TypeCorrect == Spec => []TypeOK
  <1>1. QED
    BY InitTypes, NextTypes, PTL DEF Spec

(***************************************************************************)
(* Durable work.                                                           *)
(***************************************************************************)

LEMMA InitDurable == Init => DurableWork
  BY DEF Init, DurableWork, JobsHaveEvents, WorkersHaveJobs, EvaluatedOnce,
         DoneMeansEvaluated, CompletedMeansEvaluated, VerdictSound,
         ProcessedMeansEvaluated, At, Idle

\* Recording a new event and its jobs disturbs no belief about older ones: the
\* event was absent, so it had no job, no worker and no verdict.
LEMMA NewEventDurable ==
  ASSUME TypeOK, DurableWork, NEW ps \in SUBSET Policies, NEW e \in Events,
         event[e] = "none", InsertJobs(ps \X {e}),
         NEW s \in {"queued", "ignored"}, event' = [event EXCEPT ![e] = s],
         (ps = {}) \/ (s = "queued"),
         UNCHANGED <<worker, runs>>
  PROVE  DurableWork'
  <1>1. \A j \in Jobs : EventOf(j) = e => status[j] = "none"
    BY DEF DurableWork, JobsHaveEvents
  <1>2. \A j \in Jobs : EventOf(j) # e => status'[j] = status[j]
    BY DEF InsertJobs, TypeOK, EventOf
  <1>3. \A j \in Jobs : status'[j] \in {status[j], "pending"}
    BY DEF InsertJobs, TypeOK
  <1>4. \A f \in Events : f # e => event'[f] = event[f] /\ JobsOf(f)' = JobsOf(f)
    BY <1>2 DEF TypeOK, JobsOf
  <1>5. event'[e] \notin {"none", "processed"}
    BY DEF TypeOK
  <1>6. JobsHaveEvents'
    BY <1>2, <1>4, <1>5 DEF DurableWork, JobsHaveEvents, Jobs, EventOf
  <1>7. WorkersHaveJobs'
    BY <1>3 DEF DurableWork, WorkersHaveJobs, TypeOK, Busy
  <1>8. CompletedMeansEvaluated'
    BY <1>3 DEF DurableWork, CompletedMeansEvaluated
  <1>9. VerdictSound'
    <2> SUFFICES ASSUME NEW w \in Workers, At(w, "settling"), worker[w].settled,
                        NEW j \in JobsOf(EventOf(worker[w].job))'
                 PROVE  runs[j] = 1
      BY DEF VerdictSound, At
    <2>1. worker[w] # Idle /\ worker[w].job \in Jobs
      BY AtBusy DEF BusyPc, Busy
    <2>2. EventOf(worker[w].job) \in Events /\ EventOf(worker[w].job) # e
      BY <1>1, <2>1 DEF DurableWork, WorkersHaveJobs, Jobs, EventOf
    <2>3. JobsOf(EventOf(worker[w].job))' = JobsOf(EventOf(worker[w].job))
      BY <1>4, <2>2 DEF JobsOf, EventOf
    <2>4. QED
      BY <2>3 DEF DurableWork, VerdictSound
  <1>10. ProcessedMeansEvaluated'
    BY <1>4, <1>5 DEF DurableWork, ProcessedMeansEvaluated
  <1>11. EvaluatedOnce' /\ DoneMeansEvaluated'
    BY DEF DurableWork, EvaluatedOnce, DoneMeansEvaluated, At
  <1>12. QED
    BY <1>6, <1>7, <1>8, <1>9, <1>10, <1>11 DEF DurableWork

\* Claiming starts a new belief-free worker on an existing job.
LEMMA ClaimDurable ==
  ASSUME TypeOK, DurableWork, NEW w \in Workers, claimJob(w)
  PROVE  DurableWork'
  <1>1. PICK j \in Jobs :
          /\ Claimable(j)
          /\ status' = [status EXCEPT ![j] = "leased"]
          /\ worker' = [worker EXCEPT ![w] =
               [pc |-> "claimed", job |-> j, attempt |-> attempts[j] + 1,
                settled |-> FALSE]]
    BY DEF claimJob
  <1>2. event' = event /\ runs' = runs
    BY DEF claimJob
  <1>3. status[j] \in {"pending", "retrying", "leased"} /\ status'[j] = "leased"
    BY <1>1 DEF Claimable, TypeOK
  <1>4. \A k \in Jobs : k # j => status'[k] = status[k]
    BY <1>1 DEF TypeOK
  <1>5. \A f \in Events : JobsOf(f)' = JobsOf(f)
    BY <1>3, <1>4 DEF JobsOf
  <1>6. worker'[w].pc = "claimed" /\ worker'[w].job = j
    BY <1>1 DEF TypeOK
  <1>7. \A v \in Workers : v # w => worker'[v] = worker[v]
    BY <1>1 DEF TypeOK
  <1>8. JobsHaveEvents'
    BY <1>2, <1>3, <1>4 DEF DurableWork, JobsHaveEvents
  <1>9. WorkersHaveJobs'
    BY <1>3, <1>4, <1>6, <1>7 DEF DurableWork, WorkersHaveJobs, TypeOK, Busy
  <1>10. EvaluatedOnce' /\ CompletedMeansEvaluated'
    BY <1>2, <1>3, <1>4 DEF DurableWork, EvaluatedOnce, CompletedMeansEvaluated
  <1>11. DoneMeansEvaluated'
    BY <1>2, <1>6, <1>7 DEF DurableWork, DoneMeansEvaluated, At
  <1>12. VerdictSound'
    <2> SUFFICES ASSUME NEW v \in Workers, At(v, "settling")', worker'[v].settled,
                        NEW k \in Jobs, status'[k] # "none",
                        EventOf(k) = EventOf(worker'[v].job)
                 PROVE  runs'[k] = 1
      BY DEF VerdictSound, JobsOf, EventOf
    <2>1. v # w /\ At(v, "settling") /\ worker'[v] = worker[v]
      BY <1>6, <1>7 DEF At
    <2>2. k \in JobsOf(EventOf(worker[v].job))
      BY <1>3, <1>4, <2>1 DEF JobsOf
    <2>3. QED
      BY <1>2, <2>1, <2>2 DEF DurableWork, VerdictSound
  <1>13. ProcessedMeansEvaluated'
    BY <1>2, <1>5 DEF DurableWork, ProcessedMeansEvaluated
  <1>14. QED
    BY <1>8, <1>9, <1>10, <1>11, <1>12, <1>13 DEF DurableWork

\* A step that leaves jobs and events alone, adds at most a missing run, and
\* moves one worker without letting it believe more than the runs show.
LEMMA WorkDurable ==
  ASSUME TypeOK, DurableWork, NEW w \in Workers,
         UNCHANGED <<event, status>>,
         \A k \in Jobs : runs'[k] \in {0, 1} /\ (runs[k] = 1 => runs'[k] = 1),
         \A v \in Workers \ {w} : worker'[v] = worker[v],
         worker[w] # Idle,
         worker'[w] = Idle \/ worker'[w].job = worker[w].job,
         At(w, "done")' \/ At(w, "settling")' => runs'[worker[w].job] = 1,
         At(w, "settling")' /\ worker'[w].settled =>
            \A k \in JobsOf(EventOf(worker[w].job)) : runs'[k] = 1
  PROVE  DurableWork'
  <1>1. \A f : JobsOf(f)' = JobsOf(f)
    BY DEF JobsOf
  <1>2. JobsHaveEvents'
    BY DEF DurableWork, JobsHaveEvents
  <1>3. WorkersHaveJobs'
    BY DEF DurableWork, WorkersHaveJobs
  <1>4. EvaluatedOnce'
    BY DEF EvaluatedOnce
  <1>5. CompletedMeansEvaluated'
    BY DEF DurableWork, CompletedMeansEvaluated
  <1>6. DoneMeansEvaluated'
    <2> SUFFICES ASSUME NEW v \in Workers, At(v, "done")' \/ At(v, "settling")'
                 PROVE  runs'[worker'[v].job] = 1
      BY DEF DoneMeansEvaluated
    <2>1. CASE v = w
      BY <2>1 DEF At, Idle
    <2>2. CASE v # w
      <3>1. worker'[v] = worker[v] /\ (At(v, "done") \/ At(v, "settling"))
        BY <2>2 DEF At
      <3>2. worker[v].job \in Jobs
        BY <3>1, AtBusy DEF BusyPc, Busy
      <3>3. QED
        BY <3>1, <3>2 DEF DurableWork, DoneMeansEvaluated
    <2>3. QED
      BY <2>1, <2>2
  <1>7. VerdictSound'
    <2> SUFFICES ASSUME NEW v \in Workers, At(v, "settling")', worker'[v].settled,
                        NEW k \in JobsOf(EventOf(worker'[v].job))
                 PROVE  runs'[k] = 1
      BY <1>1 DEF VerdictSound, JobsOf, EventOf
    <2>1. CASE v = w
      BY <2>1 DEF At, Idle
    <2>2. CASE v # w
      BY <2>2 DEF DurableWork, VerdictSound, At, JobsOf
    <2>3. QED
      BY <2>1, <2>2
  <1>8. ProcessedMeansEvaluated'
    BY <1>1 DEF DurableWork, ProcessedMeansEvaluated, JobsOf
  <1>9. QED
    BY <1>2, <1>3, <1>4, <1>5, <1>6, <1>7, <1>8 DEF DurableWork

\* A verdict is sound when it is formed: every other job of the event was
\* committed as completed, hence evaluated, and so is the worker's own.
LEMMA ReadsDurable ==
  ASSUME TypeOK, DurableWork, NEW w \in Workers, completeJobReads(w)
  PROVE  DurableWork'
  <1>1. worker[w] \in Busy /\ worker[w] # Idle /\ At(w, "done")
    BY AtBusy DEF completeJobReads, BusyPc
  <1>2. worker'[w].pc = "settling" /\ worker'[w].job = worker[w].job
        /\ worker'[w].settled = AllCompletedBut(worker[w].job)
    BY <1>1 DEF completeJobReads, TypeOK, Busy
  <1>3. \A v \in Workers \ {w} : worker'[v] = worker[v]
    BY DEF completeJobReads, TypeOK
  <1>4. runs[worker[w].job] = 1
    BY <1>1 DEF DurableWork, DoneMeansEvaluated
  <1>5. AllCompletedBut(worker[w].job) =>
          \A k \in JobsOf(EventOf(worker[w].job)) : runs[k] = 1
    BY <1>4 DEF AllCompletedBut, JobsOf, DurableWork, CompletedMeansEvaluated
  <1>6. UNCHANGED <<event, status, runs>>
    BY DEF completeJobReads, UnchangedByReading
  <1>7. \A k \in Jobs : runs[k] \in {0, 1}
    BY DEF TypeOK, DurableWork, EvaluatedOnce
  <1>8. QED
    BY <1>1, <1>2, <1>3, <1>4, <1>5, <1>6, <1>7, WorkDurable

\* Publishing is justified by the verdict, whatever happened since it formed.
LEMMA CommitsDurable ==
  ASSUME TypeOK, DurableWork, NEW w \in Workers, completeJobCommits(w)
  PROVE  DurableWork'
  <1> DEFINE j == worker[w].job
  <1>1. worker[w] # Idle /\ At(w, "settling") /\ j \in Jobs /\ EventOf(j) \in Events
    BY AtBusy DEF completeJobCommits, BusyPc, Busy, Jobs, EventOf
  <1>2. runs' = runs /\ worker' = [worker EXCEPT ![w] = Idle]
    BY DEF completeJobCommits
  <1>3. status' = [status EXCEPT ![j] = "completed"] /\ status[j] # "none" /\ runs[j] = 1
    BY <1>1 DEF completeJobCommits, DurableWork, WorkersHaveJobs, DoneMeansEvaluated
  <1>4. \A k \in Jobs : status'[k] = IF k = j THEN "completed" ELSE status[k]
    BY <1>1, <1>3 DEF TypeOK
  <1>5. \A f : JobsOf(f)' = JobsOf(f)
    BY <1>3, <1>4 DEF JobsOf
  <1>6. \A v \in Workers : v # w => worker'[v] = worker[v]
    BY <1>2 DEF TypeOK
  <1>7. worker'[w] = Idle
    BY <1>2 DEF TypeOK
  <1>8. \A f \in Events : 
          \/ event'[f] = event[f]
          \/ f = EventOf(j) /\ worker[w].settled /\ event'[f] = "processed"
    BY <1>1 DEF completeJobCommits, TypeOK
  <1>9. JobsHaveEvents'
    BY <1>3, <1>4, <1>8 DEF DurableWork, JobsHaveEvents, Jobs, EventOf
  <1>10. WorkersHaveJobs'
    BY <1>3, <1>4, <1>6, <1>7 DEF DurableWork, WorkersHaveJobs, TypeOK, Busy
  <1>11. EvaluatedOnce'
    BY <1>2 DEF DurableWork, EvaluatedOnce
  <1>12. CompletedMeansEvaluated'
    BY <1>2, <1>3, <1>4 DEF DurableWork, CompletedMeansEvaluated
  <1>13. DoneMeansEvaluated'
    BY <1>2, <1>6, <1>7 DEF DurableWork, DoneMeansEvaluated, At, Idle
  <1>14. VerdictSound'
    BY <1>2, <1>5, <1>6, <1>7 DEF DurableWork, VerdictSound, At, Idle, JobsOf, EventOf
  <1>15. ProcessedMeansEvaluated'
    <2> SUFFICES ASSUME NEW f \in Events, event'[f] = "processed"
                 PROVE  JobsOf(f) # {} /\ \A k \in JobsOf(f) : runs[k] = 1
      BY <1>2, <1>5 DEF ProcessedMeansEvaluated
    <2>1. CASE event[f] = "processed"
      BY <2>1 DEF DurableWork, ProcessedMeansEvaluated
    <2>2. CASE f = EventOf(j) /\ worker[w].settled
      <3>1. j \in JobsOf(f)
        BY <1>1, <1>3, <2>2 DEF JobsOf
      <3>2. QED
        BY <1>1, <2>2, <3>1 DEF DurableWork, VerdictSound
    <2>3. QED
      BY <1>8, <2>1, <2>2
  <1>16. QED
    BY <1>9, <1>10, <1>11, <1>12, <1>13, <1>14, <1>15 DEF DurableWork

\* Failing a job, or ending its hypothesis, reports nothing as done.
LEMMA FailureDurable ==
  ASSUME TypeOK, DurableWork, UNCHANGED runs,
         \A v \in Workers : worker'[v] \in {worker[v], Idle},
         \A k \in Jobs : \/ status'[k] = status[k]
                         \/ status[k] # "none" /\ status'[k] \in {"retrying", "dead-letter"},
         \A f \in Events : event'[f] \in {event[f], "failed"}
  PROVE  DurableWork'
  <1>1. \A f : JobsOf(f)' = JobsOf(f)
    BY DEF JobsOf
  <1>2. JobsHaveEvents'
    BY DEF DurableWork, JobsHaveEvents, Jobs, EventOf
  <1>3. WorkersHaveJobs'
    BY DEF DurableWork, WorkersHaveJobs, TypeOK, Busy
  <1>4. EvaluatedOnce' /\ CompletedMeansEvaluated'
    BY DEF DurableWork, EvaluatedOnce, CompletedMeansEvaluated
  <1>5. DoneMeansEvaluated'
    BY DEF DurableWork, DoneMeansEvaluated, At, Idle
  <1>6. VerdictSound'
    BY <1>1 DEF DurableWork, VerdictSound, At, Idle, JobsOf, EventOf
  <1>7. ProcessedMeansEvaluated'
    BY <1>1 DEF DurableWork, ProcessedMeansEvaluated
  <1>8. QED
    BY <1>2, <1>3, <1>4, <1>5, <1>6, <1>7 DEF DurableWork

LEMMA NextDurable == TypeOK /\ DurableWork /\ [Next]_vars => DurableWork'
  <1> SUFFICES ASSUME TypeOK, DurableWork, [Next]_vars PROVE DurableWork'
    OBVIOUS
  <1>0. \A k \in Jobs : runs[k] \in {0, 1}
    BY DEF TypeOK, DurableWork, EvaluatedOnce
  <1>1. ASSUME NEW e \in Events, recordKnowledgeChangeEvents(e) PROVE DurableWork'
    <2>1. PICK ps \in SUBSET {p \in Policies : policy[p] = "active"} :
            /\ event' = [event EXCEPT ![e] = IF ps = {} THEN "ignored" ELSE "queued"]
            /\ InsertJobs(ps \X {e})
      BY <1>1 DEF recordKnowledgeChangeEvents
    <2>2. PICK s \in {"queued", "ignored"} :
            event' = [event EXCEPT ![e] = s] /\ (ps = {} \/ s = "queued")
      BY <2>1
    <2>3. ps \in SUBSET Policies /\ event[e] = "none" /\ UNCHANGED <<worker, runs>>
      BY <1>1 DEF recordKnowledgeChangeEvents
    <2>4. QED
      BY <2>1, <2>2, <2>3, NewEventDurable
  <1>2. ASSUME NEW p \in Policies, NEW e \in Events, EnqueueFor(p, e) PROVE DurableWork'
    <2>1. InsertJobs({p} \X {e})
      <3>1. {<<p, e>>} = {p} \X {e}
        OBVIOUS
      <3>2. QED
        BY <1>2, <3>1 DEF EnqueueFor
    <2>2. QED
      BY <1>2, <2>1, NewEventDurable DEF EnqueueFor
  <1>3. ASSUME NEW w \in Workers, claimJob(w) PROVE DurableWork'
    BY <1>3, ClaimDurable
  <1>4. ASSUME NEW j \in Jobs, LeaseLapses(j) PROVE DurableWork'
    <2>1. UNCHANGED <<event, status, worker, runs>>
      BY <1>4 DEF LeaseLapses
    <2>2. QED
      BY <2>1, FailureDurable
  <1>5. ASSUME NEW w \in Workers, Crash(w) PROVE DurableWork'
    <2>1. UNCHANGED <<event, status, runs>> /\ worker' = [worker EXCEPT ![w] = Idle]
      BY <1>5 DEF Crash
    <2>2. \A v \in Workers : worker'[v] \in {worker[v], Idle}
      BY <2>1 DEF TypeOK
    <2>3. QED
      BY <2>1, <2>2, FailureDurable
  <1>6. ASSUME NEW w \in Workers, evaluateReadsConfiguration(w) PROVE DurableWork'
    <2>1. worker[w] \in Busy /\ worker[w] # Idle /\ worker[w].job \in Jobs
      BY <1>6, AtBusy DEF evaluateReadsConfiguration, BusyPc, Busy
    <2>2. UNCHANGED <<event, status, runs>>
      BY <1>6 DEF evaluateReadsConfiguration, UnchangedByReading
    <2>3. PICK c \in BusyPc : Goto(w, c) /\ c # "settling"
                              /\ (c = "done" => runs[worker[w].job] > 0)
      BY <1>6 DEF evaluateReadsConfiguration, BusyPc
    <2>4. worker'[w].pc = c /\ worker'[w].job = worker[w].job
          /\ \A v \in Workers \ {w} : worker'[v] = worker[v]
      BY <2>1, <2>3 DEF Goto, TypeOK, Busy
    <2>5. c = "done" => runs[worker[w].job] = 1
      BY <1>0, <2>1, <2>3
    <2>6. QED
      BY <1>0, <2>1, <2>2, <2>3, <2>4, <2>5, WorkDurable DEF At
  <1>7. ASSUME NEW w \in Workers, evaluateCommitsRun(w) \/ executeDiscoveryPolicy(w)
        PROVE  DurableWork'
    <2> DEFINE j == worker[w].job
    <2>1. worker[w] \in Busy /\ worker[w] # Idle /\ j \in Jobs
      BY <1>7, AtBusy DEF evaluateCommitsRun, executeDiscoveryPolicy, BusyPc, Busy
    <2>2. UNCHANGED <<event, status>>
      BY <1>7 DEF evaluateCommitsRun, executeDiscoveryPolicy
    <2>3. PICK c \in BusyPc :
            /\ Goto(w, c)
            /\ \/ c = "failing" /\ runs' = runs
               \/ c = "done" /\ runs[j] > 0 /\ runs' = runs
               \/ c = "done" /\ runs[j] = 0 /\ runs' = [runs EXCEPT ![j] = @ + 1]
      BY <1>7, <1>0, <2>1 DEF evaluateCommitsRun, executeDiscoveryPolicy, InsertRun, BusyPc
    <2>4. worker'[w].pc = c /\ worker'[w].job = j
          /\ \A v \in Workers \ {w} : worker'[v] = worker[v]
      BY <2>1, <2>3 DEF Goto, TypeOK, Busy
    <2>5. \A k \in Jobs : runs'[k] \in {0, 1} /\ (runs[k] = 1 => runs'[k] = 1)
      BY <1>0, <2>1, <2>3 DEF TypeOK
    <2>6. c = "done" => runs'[j] = 1
      BY <1>0, <2>1, <2>3 DEF TypeOK
    <2>7. QED
      BY <2>1, <2>2, <2>3, <2>4, <2>5, <2>6, WorkDurable DEF At
  <1>8. ASSUME NEW w \in Workers, WorkThrows(w) PROVE DurableWork'
    <2>1. worker[w] \in Busy /\ worker[w] # Idle
      BY <1>8, BusyWorker DEF WorkThrows, Idle
    <2>2. UNCHANGED <<event, status, runs>>
      BY <1>8 DEF WorkThrows, UnchangedByReading
    <2>3. worker'[w].pc = "failing" /\ worker'[w].job = worker[w].job
          /\ \A v \in Workers \ {w} : worker'[v] = worker[v]
      BY <1>8, <2>1 DEF WorkThrows, Goto, TypeOK, Busy
    <2>4. QED
      BY <1>0, <2>1, <2>2, <2>3, WorkDurable DEF At
  <1>9. ASSUME NEW w \in Workers, completeJobReads(w) PROVE DurableWork'
    BY <1>9, ReadsDurable
  <1>10. ASSUME NEW w \in Workers, completeJobCommits(w) PROVE DurableWork'
    BY <1>10, CommitsDurable
  <1>11. ASSUME NEW w \in Workers, failJob(w) PROVE DurableWork'
    <2>1. worker[w] # Idle /\ worker[w].job \in Jobs
      BY <1>11, AtBusy DEF failJob, BusyPc, Busy
    <2>2. status[worker[w].job] # "none"
      BY <2>1 DEF DurableWork, WorkersHaveJobs
    <2>3. UNCHANGED runs /\ \A v \in Workers : worker'[v] \in {worker[v], Idle}
      BY <1>11 DEF failJob, TypeOK
    <2>4. \A k \in Jobs : \/ status'[k] = status[k]
                          \/ status[k] # "none" /\ status'[k] \in {"retrying", "dead-letter"}
      BY <1>11, <2>1, <2>2 DEF failJob, TypeOK
    <2>5. \A f \in Events : event'[f] \in {event[f], "failed"}
      BY <1>11 DEF failJob, TypeOK
    <2>6. QED
      BY <2>3, <2>4, <2>5, FailureDurable
  <1>12. ASSUME NEW p \in Policies, pause(p) \/ resume(p) PROVE DurableWork'
    <2>1. UNCHANGED <<event, status, worker, runs>>
      BY <1>12 DEF pause, resume
    <2>2. QED
      BY <2>1, FailureDurable
  <1>13. ASSUME NEW p \in Policies, endHypothesis(p) PROVE DurableWork'
    <2>1. UNCHANGED <<event, worker, runs>>
      BY <1>13 DEF endHypothesis
    <2>2. \A k \in Jobs : \/ status'[k] = status[k]
                          \/ status[k] # "none" /\ status'[k] \in {"retrying", "dead-letter"}
      BY <1>13 DEF endHypothesis, TypeOK
    <2>3. QED
      BY <2>1, <2>2, FailureDurable
  <1>14. CASE UNCHANGED vars
    <2>1. UNCHANGED <<event, status, worker, runs>>
      BY <1>14 DEF vars
    <2>2. QED
      BY <2>1, FailureDurable
  <1>15. QED
    BY <1>1, <1>2, <1>3, <1>4, <1>5, <1>6, <1>7, <1>8, <1>9, <1>10, <1>11,
       <1>12, <1>13, <1>14
    DEF Next, WorkerStep, enqueueDueSchedule, enqueueManualRun

\* The beliefs of workers that may have lost their lease, and everything they
\* publish, stay true of the durable runs: DurableWork is inductive.
THEOREM DurableWorkHolds == Spec => []DurableWork
  <1>1. QED
    BY InitTypes, NextTypes, InitDurable, NextDurable, PTL DEF Spec

\* At most one run per policy and event, for any number of workers, crashes
\* and lapsed leases.
THEOREM EvaluatedOnceHolds == Spec => []EvaluatedOnce
  <1>1. DurableWork => EvaluatedOnce
    BY DEF DurableWork
  <1>2. QED
    BY <1>1, DurableWorkHolds, PTL

\* A published event has a run for every one of its jobs.
THEOREM ProcessedMeansEvaluatedHolds == Spec => []ProcessedMeansEvaluated
  <1>1. DurableWork => ProcessedMeansEvaluated
    BY DEF DurableWork
  <1>2. QED
    BY <1>1, DurableWorkHolds, PTL

(***************************************************************************)
(* The queue implements the ledger.                                        *)
(***************************************************************************)

Accepted == {e \in Events : event[e] # "none"}

Requested == {j \in Jobs : status[j] # "none"}

Published == {e \in Events : event[e] = "processed"}

LEMMA LedgerStutters ==
  ASSUME UNCHANGED <<Accepted, Requested, Published, runs>>
  PROVE  UNCHANGED Ledger!ledgerVars
  BY DEF Ledger!ledgerVars, Accepted, Requested, Published

LEMMA LedgerAccepts ==
  ASSUME TypeOK, NEW e \in Events, NEW ps \in SUBSET Policies, event[e] = "none",
         NEW s \in {"queued", "ignored"}, event' = [event EXCEPT ![e] = s],
         InsertJobs(ps \X {e}), UNCHANGED runs
  PROVE  Ledger!Next
  <1>1. e \notin Accepted /\ Accepted' = Accepted \cup {e}
    BY DEF TypeOK, Accepted
  <1>2. Requested' = Requested \cup (ps \X {e})
    <2>1. ps \X {e} \subseteq Jobs
      BY DEF Jobs
    <2>2. \A j \in Jobs : status'[j] = IF j \in ps \X {e} THEN "pending" ELSE status[j]
      BY DEF InsertJobs
    <2>3. QED
      BY <2>1, <2>2 DEF Requested
  <1>3. Published' = Published
    BY DEF TypeOK, Published
  <1>4. Ledger!Accept(e, ps)
    BY <1>1, <1>2, <1>3 DEF Ledger!Accept, Accepted, Requested, Published
  <1>5. QED
    BY <1>4 DEF Ledger!Next

LEMMA LedgerEvaluates ==
  ASSUME TypeOK, NEW j \in Jobs, status[j] # "none", runs[j] = 0,
         runs' = [runs EXCEPT ![j] = @ + 1], UNCHANGED <<event, status>>
  PROVE  Ledger!Next
  <1>1. runs' = [runs EXCEPT ![j] = 1]
    BY DEF TypeOK
  <1>2. Ledger!Evaluate(j)
    BY <1>1 DEF Ledger!Evaluate
  <1>3. QED
    BY <1>2 DEF Ledger!Next, Ledger!Jobs, Jobs

LEMMA LedgerCompletes ==
  ASSUME TypeOK, DurableWork, NEW w \in Workers, completeJobCommits(w)
  PROVE  Ledger!Next \/ UNCHANGED Ledger!ledgerVars
  <1> DEFINE j == worker[w].job
  <1>1. worker[w] # Idle /\ j \in Jobs /\ worker[w].settled \in BOOLEAN
    BY AtBusy DEF completeJobCommits, BusyPc, Busy
  <1>2. PICK e \in Events : /\ e = EventOf(j) /\ event[e] # "none"
                            /\ status[j] # "none" /\ UNCHANGED runs
    BY <1>1 DEF Jobs, EventOf, DurableWork, WorkersHaveJobs, JobsHaveEvents, completeJobCommits
  <1>3. Requested' = Requested
    BY <1>1, <1>2 DEF completeJobCommits, TypeOK, Requested
  <1>4. CASE worker[w].settled
    <2>1. Accepted' = Accepted /\ Published' = Published \cup {e}
      BY <1>2, <1>4 DEF completeJobCommits, TypeOK, Accepted, Published
    <2>2. \A k \in Requested : k[2] = e => runs[k] = 1
      BY <1>2, <1>4 DEF completeJobCommits, DurableWork, VerdictSound, JobsOf, EventOf, Requested
    <2>3. j \in Requested /\ j[2] = e
      BY <1>1, <1>2 DEF Requested, EventOf
    <2>4. Ledger!Publish(e)
      BY <1>2, <1>3, <2>1, <2>2, <2>3 DEF Ledger!Publish, Accepted, Requested, Published
    <2>5. QED
      BY <1>2, <2>4 DEF Ledger!Next
  <1>5. CASE ~worker[w].settled
    <2>1. UNCHANGED event
      BY <1>5 DEF completeJobCommits
    <2>2. QED
      BY <1>2, <1>3, <2>1, LedgerStutters DEF Accepted, Published
  <1>6. QED
    BY <1>4, <1>5

LEMMA LedgerFails ==
  ASSUME TypeOK, DurableWork, NEW w \in Workers, failJob(w)
  PROVE  Ledger!Next \/ UNCHANGED Ledger!ledgerVars
  <1> DEFINE j == worker[w].job
  <1>1. worker[w] # Idle /\ j \in Jobs
    BY AtBusy DEF failJob, BusyPc, Busy
  <1>2. PICK e \in Events : /\ e = EventOf(j) /\ event[e] # "none"
                            /\ status[j] # "none" /\ UNCHANGED runs
    BY <1>1 DEF Jobs, EventOf, DurableWork, WorkersHaveJobs, JobsHaveEvents, failJob
  <1>3. Requested' = Requested
    <2>1. \/ status' = [status EXCEPT ![j] = "dead-letter"]
          \/ status' = [status EXCEPT ![j] = "retrying"]
      BY DEF failJob
    <2>2. QED
      BY <1>1, <1>2, <2>1 DEF TypeOK, Requested
  <1>4. event' = event \/ event' = [event EXCEPT ![e] = "failed"]
    BY <1>2 DEF failJob
  <1>5. Accepted' = Accepted
    BY <1>2, <1>4 DEF TypeOK, Accepted
  <1>6. CASE Published' = Published
    BY <1>2, <1>3, <1>5, <1>6, LedgerStutters
  <1>7. CASE Published' # Published
    <2>1. event' = [event EXCEPT ![e] = "failed"] /\ event[e] = "processed"
      BY <1>2, <1>4, <1>7 DEF TypeOK, Published
    <2>2. e \in Published /\ Published' = Published \ {e}
      BY <1>2, <2>1 DEF TypeOK, Published
    <2>3. Ledger!Withdraw(e)
      BY <1>2, <1>3, <1>5, <2>2 DEF Ledger!Withdraw, Accepted, Requested, Published
    <2>4. QED
      BY <1>2, <2>3 DEF Ledger!Next
  <1>8. QED
    BY <1>6, <1>7

LEMMA NextImplements ==
  TypeOK /\ DurableWork /\ [Next]_vars => [Ledger!Next]_(Ledger!ledgerVars)
  <1> SUFFICES ASSUME TypeOK, DurableWork, [Next]_vars
               PROVE  Ledger!Next \/ UNCHANGED Ledger!ledgerVars
    OBVIOUS
  <1>1. ASSUME NEW e \in Events, recordKnowledgeChangeEvents(e) PROVE Ledger!Next
    <2>1. PICK ps \in SUBSET {p \in Policies : policy[p] = "active"} :
            /\ event' = [event EXCEPT ![e] = IF ps = {} THEN "ignored" ELSE "queued"]
            /\ InsertJobs(ps \X {e})
      BY <1>1 DEF recordKnowledgeChangeEvents
    <2>2. PICK s \in {"queued", "ignored"} : event' = [event EXCEPT ![e] = s]
      BY <2>1
    <2>3. ps \in SUBSET Policies /\ event[e] = "none" /\ UNCHANGED runs
      BY <1>1 DEF recordKnowledgeChangeEvents
    <2>4. QED
      BY <2>1, <2>2, <2>3, LedgerAccepts
  <1>2. ASSUME NEW p \in Policies, NEW e \in Events, EnqueueFor(p, e) PROVE Ledger!Next
    <2>1. {<<p, e>>} = {p} \X {e}
      OBVIOUS
    <2>2. InsertJobs({p} \X {e}) /\ event[e] = "none" /\ UNCHANGED runs
          /\ event' = [event EXCEPT ![e] = "queued"]
      BY <1>2, <2>1 DEF EnqueueFor
    <2>3. QED
      BY <2>2, LedgerAccepts
  <1>3. ASSUME NEW w \in Workers, claimJob(w) PROVE UNCHANGED Ledger!ledgerVars
    <2>1. PICK j \in Jobs : Claimable(j) /\ status' = [status EXCEPT ![j] = "leased"]
      BY <1>3 DEF claimJob
    <2>2. Requested' = Requested
      BY <2>1 DEF Claimable, TypeOK, Requested
    <2>3. UNCHANGED <<event, runs>>
      BY <1>3 DEF claimJob
    <2>4. QED
      BY <2>2, <2>3, LedgerStutters DEF Accepted, Published
  <1>4. ASSUME NEW w \in Workers, evaluateCommitsRun(w) \/ executeDiscoveryPolicy(w)
        PROVE  Ledger!Next \/ UNCHANGED Ledger!ledgerVars
    <2> DEFINE j == worker[w].job
    <2>1. worker[w] # Idle /\ j \in Jobs
      BY <1>4, AtBusy DEF evaluateCommitsRun, executeDiscoveryPolicy, BusyPc, Busy
    <2>2. status[j] # "none"
      BY <2>1 DEF DurableWork, WorkersHaveJobs
    <2>3. UNCHANGED <<event, status>>
      BY <1>4 DEF evaluateCommitsRun, executeDiscoveryPolicy
    <2>4. UNCHANGED runs \/ (runs[j] = 0 /\ runs' = [runs EXCEPT ![j] = @ + 1])
      BY <1>4 DEF evaluateCommitsRun, executeDiscoveryPolicy, InsertRun
    <2>5. QED
      BY <2>1, <2>2, <2>3, <2>4, LedgerEvaluates, LedgerStutters
      DEF Accepted, Requested, Published
  <1>5. ASSUME NEW w \in Workers, completeJobCommits(w)
        PROVE  Ledger!Next \/ UNCHANGED Ledger!ledgerVars
    BY <1>5, LedgerCompletes
  <1>6. ASSUME NEW w \in Workers, failJob(w)
        PROVE  Ledger!Next \/ UNCHANGED Ledger!ledgerVars
    BY <1>6, LedgerFails
  <1>7. ASSUME NEW p \in Policies, endHypothesis(p) PROVE UNCHANGED Ledger!ledgerVars
    <2>1. Requested' = Requested
      BY <1>7 DEF endHypothesis, TypeOK, Requested
    <2>2. UNCHANGED <<event, runs>>
      BY <1>7 DEF endHypothesis
    <2>3. QED
      BY <2>1, <2>2, LedgerStutters DEF Accepted, Published
  <1>8. ASSUME UNCHANGED <<event, status, runs>> PROVE UNCHANGED Ledger!ledgerVars
    BY <1>8, LedgerStutters DEF Accepted, Requested, Published
  <1>9. ASSUME NEW w \in Workers,
               \/ Crash(w) \/ WorkThrows(w)
               \/ evaluateReadsConfiguration(w) \/ completeJobReads(w)
        PROVE  UNCHANGED Ledger!ledgerVars
    BY <1>8, <1>9 DEF Crash, WorkThrows, evaluateReadsConfiguration, completeJobReads,
                      UnchangedByReading
  <1>10. ASSUME NEW j \in Jobs, LeaseLapses(j) PROVE UNCHANGED Ledger!ledgerVars
    BY <1>8, <1>10 DEF LeaseLapses
  <1>11. ASSUME NEW p \in Policies, pause(p) \/ resume(p) PROVE UNCHANGED Ledger!ledgerVars
    BY <1>8, <1>11 DEF pause, resume
  <1>12. CASE UNCHANGED vars
    BY <1>8, <1>12 DEF vars
  <1>13. QED
    BY <1>1, <1>2, <1>3, <1>4, <1>5, <1>6, <1>7, <1>9, <1>10, <1>11, <1>12
    DEF Next, WorkerStep, enqueueDueSchedule, enqueueManualRun

\* Whatever leases lapse, workers die, settle late or fail: every behaviour of
\* the queue is one of the ledger, in which no work is repeated and no event is
\* published ahead of it.
THEOREM ImplementsLedgerHolds == Spec => ImplementsLedger
  <1>1. Init => Ledger!Init
    BY DEF Init, Ledger!Init, Ledger!Jobs, Jobs
  <1>2. QED
    BY <1>1, NextImplements, TypeCorrect, DurableWorkHolds, PTL
    DEF Spec, ImplementsLedger, Ledger!Spec

(***************************************************************************)
(* What the steps do to workers and jobs.                                  *)
(***************************************************************************)

\* A busy worker moved on within its job.
Moves(w) ==
    /\ worker[w] # Idle
    /\ worker'[w] # Idle
    /\ worker'[w].job = worker[w].job
    /\ worker'[w].attempt = worker[w].attempt
    /\ \A v \in Workers \ {w} : worker'[v] = worker[v]

Leaves(w) == worker[w] # Idle /\ worker' = [worker EXCEPT ![w] = Idle]

LEMMA GotoMoves ==
  ASSUME TypeOK, NEW w \in Workers, worker[w] \in Busy, NEW c \in BusyPc, Goto(w, c)
  PROVE  Moves(w) /\ worker'[w].pc = c
  BY DEF TypeOK, Goto, Busy, Moves, Idle, BusyPc

LEMMA ReadsMoves ==
  ASSUME TypeOK, NEW w \in Workers, completeJobReads(w)
  PROVE  Moves(w) /\ worker'[w].settled = AllCompletedBut(worker[w].job)
  <1>1. worker[w] \in Busy /\ worker[w] # Idle
    BY AtBusy DEF completeJobReads, BusyPc
  <1>2. /\ worker'[w].pc = "settling" /\ worker'[w].job = worker[w].job
        /\ worker'[w].attempt = worker[w].attempt
        /\ worker'[w].settled = AllCompletedBut(worker[w].job)
    BY <1>1 DEF completeJobReads, TypeOK, Busy
  <1>3. \A v \in Workers \ {w} : worker'[v] = worker[v]
    BY DEF completeJobReads, TypeOK
  <1>4. worker'[w] # Idle
    BY <1>2 DEF Idle
  <1>5. QED
    BY <1>1, <1>2, <1>3, <1>4 DEF Moves

LEMMA HoldersStay ==
  ASSUME NEW w \in Workers, Moves(w) \/ UNCHANGED worker, NEW k \in Jobs
  PROVE  /\ RetryingHolders(k)' = RetryingHolders(k)
         /\ attempts'[k] = attempts[k] => Held(k)' = Held(k)
  BY DEF Moves, RetryingHolders, OnJob, Held

LEMMA HolderLeaves ==
  ASSUME TypeOK, NEW w \in Workers, Leaves(w), NEW k \in Jobs
  PROVE  /\ RetryingHolders(k)' = RetryingHolders(k) \ {w}
         /\ k # worker[w].job /\ attempts'[k] = attempts[k] => Held(k)' = Held(k)
  <1>1. worker'[w] = Idle /\ \A v \in Workers \ {w} : worker'[v] = worker[v]
    BY DEF TypeOK, Leaves
  <1>2. QED
    BY <1>1 DEF Leaves, RetryingHolders, OnJob, Held

\* An event that was absent arrives with its jobs.
NewEvent(e) ==
    /\ event[e] = "none" /\ event'[e] \in {"queued", "ignored"}
    /\ \A f \in Events \ {e} : event'[f] = event[f]
    /\ \A k \in Jobs :
        IF EventOf(k) = e THEN status[k] = "none" /\ status'[k] \in {"none", "pending"}
        ELSE status'[k] = status[k]
    /\ UNCHANGED <<ended, attempts, lapsed, worker, alerted, overruns, crashes>>

\* A worker goes on with its job; no job, event or lease changes.
WorkStep(w) ==
    /\ worker[w] \in Busy
    /\ Moves(w)
    /\ At(w, "settling")' => completeJobReads(w)
    /\ UNCHANGED <<ended, event, status, attempts, lapsed, alerted, overruns, crashes>>

Quiet == UNCHANGED <<ended, event, status, attempts, lapsed, worker, alerted, overruns, crashes>>

LEMMA ArrivalIsNewEvent ==
  ASSUME TypeOK, DurableWork, NEW e \in Events, NEW ps \in SUBSET Policies,
         event[e] = "none", InsertJobs(ps \X {e}),
         NEW s \in {"queued", "ignored"}, event' = [event EXCEPT ![e] = s],
         UNCHANGED <<ended, attempts, lapsed, worker, alerted, overruns, crashes>>
  PROVE  NewEvent(e)
  <1>1. \A k \in Jobs : EventOf(k) = e => status[k] = "none"
    BY DEF DurableWork, JobsHaveEvents
  <1>2. \A k \in Jobs : status'[k] = IF k \in ps \X {e} THEN "pending" ELSE status[k]
    BY DEF InsertJobs
  <1>3. \A k \in Jobs : k \in ps \X {e} => EventOf(k) = e
    BY DEF EventOf
  <1>4. event'[e] \in {"queued", "ignored"} /\ \A f \in Events \ {e} : event'[f] = event[f]
    BY DEF TypeOK
  <1>5. QED
    BY <1>1, <1>2, <1>3, <1>4 DEF NewEvent

LEMMA StepKinds ==
  ASSUME TypeOK, DurableWork, [Next]_vars
  PROVE  \/ \E e \in Events : NewEvent(e)
         \/ \E w \in Workers : \/ WorkStep(w) \/ claimJob(w) \/ Crash(w)
                               \/ completeJobCommits(w) \/ failJob(w)
         \/ \E j \in Jobs : LeaseLapses(j)
         \/ \E p \in Policies : endHypothesis(p)
         \/ Quiet
  <1>1. ASSUME NEW e \in Events, recordKnowledgeChangeEvents(e) PROVE NewEvent(e)
    <2>1. PICK ps \in SUBSET {p \in Policies : policy[p] = "active"} :
            /\ event' = [event EXCEPT ![e] = IF ps = {} THEN "ignored" ELSE "queued"]
            /\ InsertJobs(ps \X {e})
      BY <1>1 DEF recordKnowledgeChangeEvents
    <2>2. PICK s \in {"queued", "ignored"} : event' = [event EXCEPT ![e] = s]
      BY <2>1
    <2>3. /\ ps \in SUBSET Policies /\ event[e] = "none"
          /\ UNCHANGED <<ended, attempts, lapsed, worker, alerted, overruns, crashes>>
      BY <1>1 DEF recordKnowledgeChangeEvents
    <2>4. QED
      BY <2>1, <2>2, <2>3, ArrivalIsNewEvent
  <1>2. ASSUME NEW p \in Policies, NEW e \in Events, EnqueueFor(p, e) PROVE NewEvent(e)
    <2>1. {<<p, e>>} = {p} \X {e}
      OBVIOUS
    <2>2. /\ InsertJobs({p} \X {e}) /\ event[e] = "none"
          /\ event' = [event EXCEPT ![e] = "queued"]
          /\ UNCHANGED <<ended, attempts, lapsed, worker, alerted, overruns, crashes>>
      BY <1>2, <2>1 DEF EnqueueFor
    <2>3. QED
      BY <2>2, ArrivalIsNewEvent
  <1>3. ASSUME NEW w \in Workers,
               \/ evaluateReadsConfiguration(w) \/ evaluateCommitsRun(w)
               \/ executeDiscoveryPolicy(w) \/ WorkThrows(w)
        PROVE  WorkStep(w)
    <2>1. worker[w] \in Busy
      BY <1>3, BusyWorker DEF evaluateReadsConfiguration, evaluateCommitsRun,
                              executeDiscoveryPolicy, WorkThrows, At, Idle
    <2>2. PICK c \in BusyPc : Goto(w, c) /\ c # "settling"
      BY <1>3 DEF evaluateReadsConfiguration, evaluateCommitsRun,
                  executeDiscoveryPolicy, WorkThrows, BusyPc
    <2>3. UNCHANGED <<ended, event, status, attempts, lapsed, alerted, overruns, crashes>>
      BY <1>3 DEF evaluateReadsConfiguration, evaluateCommitsRun,
                  executeDiscoveryPolicy, WorkThrows, UnchangedByReading
    <2>4. QED
      BY <2>1, <2>2, <2>3, GotoMoves DEF WorkStep, At
  <1>4. ASSUME NEW w \in Workers, completeJobReads(w) PROVE WorkStep(w)
    <2>1. worker[w] \in Busy
      BY <1>4, AtBusy DEF completeJobReads, BusyPc
    <2>2. Moves(w)
      BY <1>4, ReadsMoves
    <2>3. QED
      BY <1>4, <2>1, <2>2 DEF WorkStep, completeJobReads, UnchangedByReading
  <1>5. ASSUME NEW p \in Policies, pause(p) \/ resume(p) PROVE Quiet
    BY <1>5 DEF pause, resume, Quiet
  <1>6. CASE UNCHANGED vars
    BY <1>6 DEF vars, Quiet
  <1>7. QED
    BY <1>1, <1>2, <1>3, <1>4, <1>5, <1>6
    DEF Next, WorkerStep, enqueueDueSchedule, enqueueManualRun

(***************************************************************************)
(* The budget of a job.                                                    *)
(***************************************************************************)

LEMMA BudgetNumbers ==
  ASSUME TypeOK, NEW k \in Jobs, Budgeted(k)
  PROVE  /\ Cardinality(RetryingHolders(k)) \in Nat
         /\ AttemptsToCome(k) \in Nat
         /\ attempts[k] \in Nat
         /\ overruns \in Nat /\ crashes \in Nat /\ MaxAttempts \in Nat \ {0}
  BY BoundsAssumption, FS_CardinalityType DEF TypeOK, Budgeted, AttemptsToCome

\* Nothing is spent: the job is not opened.
LEMMA BudgetKept ==
  ASSUME TypeOK, TypeOK', NEW k \in Jobs, Budgeted(k),
         RetryingHolders(k)' \subseteq RetryingHolders(k),
         attempts'[k] = attempts[k], Open(k)' => Open(k),
         overruns + crashes <= overruns' + crashes'
  PROVE  Budgeted(k)'
  <1>1. /\ IsFiniteSet(RetryingHolders(k)')
        /\ Cardinality(RetryingHolders(k)') <= Cardinality(RetryingHolders(k))
    BY FS_Subset DEF Budgeted
  <1>2. Cardinality(RetryingHolders(k)') \in Nat
    BY <1>1, FS_CardinalityType
  <1>3. AttemptsToCome(k)' = AttemptsToCome(k)
    BY DEF AttemptsToCome
  <1>4. overruns' \in Nat /\ crashes' \in Nat
    BY BoundsAssumption DEF TypeOK
  <1>5. QED
    BY <1>1, <1>2, <1>3, <1>4, BudgetNumbers DEF Budgeted

\* A lapse or a crash pays for opening the job.
LEMMA BudgetPaid ==
  ASSUME TypeOK, TypeOK', NEW k \in Jobs, Budgeted(k),
         RetryingHolders(k)' \subseteq RetryingHolders(k),
         attempts'[k] = attempts[k],
         overruns + crashes + 1 <= overruns' + crashes'
  PROVE  Budgeted(k)'
  <1>1. /\ IsFiniteSet(RetryingHolders(k)')
        /\ Cardinality(RetryingHolders(k)') <= Cardinality(RetryingHolders(k))
    BY FS_Subset DEF Budgeted
  <1>2. Cardinality(RetryingHolders(k)') \in Nat
    BY <1>1, FS_CardinalityType
  <1>3. AttemptsToCome(k)' = AttemptsToCome(k)
    BY DEF AttemptsToCome
  <1>4. overruns' \in Nat /\ crashes' \in Nat
    BY BoundsAssumption DEF TypeOK
  <1>5. QED
    BY <1>1, <1>2, <1>3, <1>4, BudgetNumbers DEF Budgeted

\* A failure below the limit pays for opening the job.
LEMMA BudgetFailed ==
  ASSUME TypeOK, TypeOK', NEW k \in Jobs, Budgeted(k), NEW w \in RetryingHolders(k),
         RetryingHolders(k)' = RetryingHolders(k) \ {w},
         attempts'[k] = attempts[k], UNCHANGED <<overruns, crashes>>
  PROVE  Budgeted(k)'
  <1>1. /\ IsFiniteSet(RetryingHolders(k)')
        /\ Cardinality(RetryingHolders(k)') = Cardinality(RetryingHolders(k)) - 1
    BY FS_RemoveElement DEF Budgeted
  <1>2. AttemptsToCome(k)' = AttemptsToCome(k)
    BY DEF AttemptsToCome
  <1>3. QED
    BY <1>1, <1>2, BudgetNumbers DEF Budgeted

\* A claim spends what opened the job; the new attempt may fail in its turn if
\* it was still to come.
LEMMA BudgetClaimed ==
  ASSUME TypeOK, NEW k \in Jobs, Budgeted(k), Open(k), ~Open(k)',
         NEW w \in Workers, w \notin RetryingHolders(k),
         RetryingHolders(k)' = IF attempts[k] + 1 < MaxAttempts
                               THEN RetryingHolders(k) \cup {w} ELSE RetryingHolders(k),
         attempts'[k] = attempts[k] + 1, UNCHANGED <<overruns, crashes>>
  PROVE  Budgeted(k)'
  <1>1. CASE attempts[k] + 1 < MaxAttempts
    <2>1. /\ IsFiniteSet(RetryingHolders(k)')
          /\ Cardinality(RetryingHolders(k)') = Cardinality(RetryingHolders(k)) + 1
      BY <1>1, FS_AddElement DEF Budgeted
    <2>2. AttemptsToCome(k)' = AttemptsToCome(k) - 1
      BY <1>1, BudgetNumbers DEF AttemptsToCome
    <2>3. QED
      BY <2>1, <2>2, BudgetNumbers DEF Budgeted
  <1>2. CASE ~(attempts[k] + 1 < MaxAttempts)
    <2>1. RetryingHolders(k)' = RetryingHolders(k)
      BY <1>2
    <2>2. AttemptsToCome(k)' = 0 /\ AttemptsToCome(k) = 0
      BY <1>2, BudgetNumbers DEF AttemptsToCome
    <2>3. QED
      BY <2>1, <2>2, BudgetNumbers DEF Budgeted
  <1>3. QED
    BY <1>1, <1>2

LEMMA InitBudget == Init => AttemptBudget
  <1> SUFFICES ASSUME Init, NEW k \in Jobs PROVE Budgeted(k)
    BY DEF AttemptBudget
  <1>1. RetryingHolders(k) = {}
    BY DEF Init, RetryingHolders, OnJob
  <1>2. IsFiniteSet(RetryingHolders(k)) /\ Cardinality(RetryingHolders(k)) = 0
    BY <1>1, FS_EmptySet
  <1>3. QED
    BY <1>2, BoundsAssumption DEF Init, Budgeted, AttemptsToCome

LEMMA ClaimBudget ==
  ASSUME TypeOK, TypeOK', AttemptBudget, NEW w \in Workers, claimJob(w), NEW k \in Jobs
  PROVE  Budgeted(k)'
  <1>1. PICK j \in Jobs :
          /\ Claimable(j)
          /\ status' = [status EXCEPT ![j] = "leased"]
          /\ attempts' = [attempts EXCEPT ![j] = @ + 1]
          /\ lapsed' = [lapsed EXCEPT ![j] = FALSE]
          /\ worker' = [worker EXCEPT ![w] =
               [pc |-> "claimed", job |-> j, attempt |-> attempts[j] + 1,
                settled |-> FALSE]]
    BY DEF claimJob
  <1>2. worker[w] = Idle /\ UNCHANGED <<overruns, crashes>>
    BY DEF claimJob
  <1>3. /\ worker'[w] # Idle /\ worker'[w].job = j /\ worker'[w].attempt = attempts[j] + 1
        /\ \A v \in Workers \ {w} : worker'[v] = worker[v]
    BY <1>1 DEF TypeOK, Idle
  <1>4. Budgeted(k) /\ overruns \in Nat /\ crashes \in Nat
    BY BoundsAssumption DEF TypeOK, AttemptBudget
  <1>5. CASE k = j
    <2>1. Open(k)
      BY <1>1, <1>5 DEF Claimable, Open
    <2>2. attempts'[k] = attempts[k] + 1 /\ status'[k] = "leased" /\ ~lapsed'[k]
      BY <1>1, <1>5 DEF TypeOK
    <2>3. ~Open(k)'
      BY <1>3, <1>5, <2>2 DEF Open, Held, OnJob
    <2>4. w \notin RetryingHolders(k)
      BY <1>2 DEF RetryingHolders, OnJob
    <2>5. RetryingHolders(k)' = IF attempts[k] + 1 < MaxAttempts
                                THEN RetryingHolders(k) \cup {w} ELSE RetryingHolders(k)
      BY <1>2, <1>3, <1>5 DEF RetryingHolders, OnJob
    <2>6. QED
      BY <1>2, <1>4, <2>1, <2>2, <2>3, <2>4, <2>5, BudgetClaimed
  <1>6. CASE k # j
    <2>1. attempts'[k] = attempts[k] /\ status'[k] = status[k] /\ lapsed'[k] = lapsed[k]
      BY <1>1, <1>6 DEF TypeOK
    <2>2. RetryingHolders(k)' = RetryingHolders(k) /\ Held(k)' = Held(k)
      BY <1>2, <1>3, <1>6, <2>1 DEF RetryingHolders, Held, OnJob
    <2>3. QED
      BY <1>2, <1>4, <2>1, <2>2, BudgetKept DEF Open
  <1>7. QED
    BY <1>5, <1>6

LEMMA FailBudget ==
  ASSUME TypeOK, TypeOK', AttemptBudget, NEW w \in Workers, failJob(w), NEW k \in Jobs
  PROVE  Budgeted(k)'
  <1> DEFINE j == worker[w].job
  <1>1. worker[w] \in Busy /\ worker[w] # Idle /\ j \in Jobs /\ worker[w].attempt \in Nat
    BY AtBusy DEF failJob, BusyPc, Busy
  <1>2. Leaves(w) /\ UNCHANGED <<attempts, lapsed, overruns, crashes>>
    BY <1>1 DEF failJob, Leaves
  <1>3. Budgeted(k) /\ overruns \in Nat /\ crashes \in Nat
    BY BoundsAssumption DEF TypeOK, AttemptBudget
  <1>4. /\ RetryingHolders(k)' = RetryingHolders(k) \ {w}
        /\ k # j => Held(k)' = Held(k)
    BY <1>2, HolderLeaves
  <1>5. CASE k # j
    <2>1. status'[k] = status[k]
      BY <1>1, <1>5 DEF failJob, TypeOK
    <2>2. QED
      BY <1>2, <1>3, <1>4, <1>5, <2>1, BudgetKept DEF Open
  <1>6. CASE k = j /\ Terminal(w)
    <2>1. status'[k] = "dead-letter"
      BY <1>1, <1>6 DEF failJob, TypeOK
    <2>2. QED
      BY <1>2, <1>3, <1>4, <2>1, BudgetKept DEF Open
  <1>7. CASE k = j /\ ~Terminal(w)
    <2>1. w \in RetryingHolders(k)
      BY <1>1, <1>7, BoundsAssumption DEF Terminal, RetryingHolders, OnJob
    <2>2. QED
      BY <1>2, <1>3, <1>4, <2>1, BudgetFailed
  <1>8. QED
    BY <1>5, <1>6, <1>7

LEMMA NextBudget ==
  TypeOK /\ DurableWork /\ AttemptBudget /\ [Next]_vars => AttemptBudget'
  <1> SUFFICES ASSUME TypeOK, DurableWork, AttemptBudget, [Next]_vars, NEW k \in Jobs
               PROVE  Budgeted(k)'
    BY DEF AttemptBudget
  <1>a. TypeOK' /\ Budgeted(k)
    BY NextTypes DEF AttemptBudget
  <1>b. overruns \in Nat /\ crashes \in Nat
    BY BoundsAssumption DEF TypeOK
  <1>1. ASSUME NEW e \in Events, NewEvent(e) PROVE Budgeted(k)'
    <2>1. RetryingHolders(k)' = RetryingHolders(k) /\ Held(k)' = Held(k)
      BY <1>1 DEF NewEvent, RetryingHolders, Held, OnJob
    <2>2. Open(k)' => Open(k)
      BY <1>1, <2>1 DEF NewEvent, Open
    <2>3. QED
      BY <1>1, <1>a, <1>b, <2>1, <2>2, BudgetKept DEF NewEvent
  <1>2. ASSUME NEW w \in Workers, WorkStep(w) PROVE Budgeted(k)'
    <2>1. UNCHANGED <<status, attempts, lapsed, overruns, crashes>>
      BY <1>2 DEF WorkStep
    <2>2. RetryingHolders(k)' = RetryingHolders(k) /\ Held(k)' = Held(k)
      BY <1>2, <2>1, HoldersStay DEF WorkStep
    <2>3. QED
      BY <1>a, <1>b, <2>1, <2>2, BudgetKept DEF Open
  <1>3. ASSUME NEW w \in Workers, claimJob(w) PROVE Budgeted(k)'
    BY <1>3, <1>a, ClaimBudget
  <1>4. ASSUME NEW w \in Workers, Crash(w) PROVE Budgeted(k)'
    <2>1. Leaves(w) /\ UNCHANGED <<attempts, overruns>> /\ crashes' = crashes + 1
      BY <1>4 DEF Crash, Leaves
    <2>2. RetryingHolders(k)' \subseteq RetryingHolders(k)
      BY <2>1, HolderLeaves
    <2>3. QED
      BY <1>a, <1>b, <2>1, <2>2, BudgetPaid
  <1>5. ASSUME NEW w \in Workers, completeJobCommits(w) PROVE Budgeted(k)'
    <2>1. worker[w] # Idle /\ worker[w].job \in Jobs
      BY <1>5, AtBusy DEF completeJobCommits, BusyPc, Busy
    <2>2. Leaves(w) /\ UNCHANGED <<attempts, lapsed, overruns, crashes>>
      BY <1>5, <2>1 DEF completeJobCommits, Leaves
    <2>3. IF k = worker[w].job THEN status'[k] = "completed" ELSE status'[k] = status[k]
      BY <1>5, <2>1 DEF completeJobCommits, TypeOK
    <2>4. /\ RetryingHolders(k)' \subseteq RetryingHolders(k)
          /\ k # worker[w].job => Held(k)' = Held(k)
      BY <2>2, HolderLeaves
    <2>5. Open(k)' => Open(k)
      BY <2>2, <2>3, <2>4 DEF Open
    <2>6. QED
      BY <1>a, <1>b, <2>2, <2>4, <2>5, BudgetKept
  <1>6. ASSUME NEW w \in Workers, failJob(w) PROVE Budgeted(k)'
    BY <1>6, <1>a, FailBudget
  <1>7. ASSUME NEW j \in Jobs, LeaseLapses(j) PROVE Budgeted(k)'
    <2>1. UNCHANGED <<status, attempts, worker, crashes>> /\ status[j] = "leased"
          /\ lapsed' = [lapsed EXCEPT ![j] = TRUE]
      BY <1>7 DEF LeaseLapses
    <2>2. RetryingHolders(k)' = RetryingHolders(k) /\ Held(k)' = Held(k)
      BY <2>1 DEF RetryingHolders, Held, OnJob
    <2>3. CASE Held(j)
      <3>1. overruns' = overruns + 1
        BY <1>7, <2>3 DEF LeaseLapses
      <3>2. QED
        BY <1>a, <1>b, <2>1, <2>2, <3>1, BudgetPaid
    <2>4. CASE ~Held(j)
      <3>1. UNCHANGED overruns
        BY <1>7, <2>4 DEF LeaseLapses
      <3>2. Open(k)' => Open(k)
        BY <2>1, <2>2, <2>4 DEF Open, TypeOK
      <3>3. QED
        BY <1>a, <1>b, <2>1, <2>2, <3>1, <3>2, BudgetKept
    <2>5. QED
      BY <2>3, <2>4
  <1>8. ASSUME NEW p \in Policies, endHypothesis(p) PROVE Budgeted(k)'
    <2>1. UNCHANGED <<attempts, lapsed, worker, overruns, crashes>>
          /\ status'[k] \in {status[k], "dead-letter"}
      BY <1>8 DEF endHypothesis
    <2>2. RetryingHolders(k)' = RetryingHolders(k) /\ Held(k)' = Held(k)
      BY <2>1 DEF RetryingHolders, Held, OnJob
    <2>3. QED
      BY <1>a, <1>b, <2>1, <2>2, BudgetKept DEF Open
  <1>9. CASE Quiet
    BY <1>9, <1>a, <1>b, BudgetKept DEF Quiet, RetryingHolders, Open, Held, OnJob
  <1>10. QED
    BY <1>1, <1>2, <1>3, <1>4, <1>5, <1>6, <1>7, <1>8, <1>9, StepKinds

(***************************************************************************)
(* Who holds a lease that did not lapse under its holder.                  *)
(***************************************************************************)

HoldsAlone(w) ==
    worker[w] # Idle =>
        LET j == worker[w].job
        IN  PolicyOf(j) \notin ended =>
                /\ status[j] = "leased" /\ ~lapsed[j]
                /\ worker[w].attempt = attempts[j]
                /\ \A v \in Workers : OnJob(v, j) => v = w

LEMMA NextSoleHolder ==
  TypeOK /\ DurableWork /\ SoleHolder /\ [Next]_vars => SoleHolder'
  <1> SUFFICES ASSUME TypeOK, DurableWork, SoleHolder, [Next]_vars, overruns' = 0,
                      NEW u \in Workers
               PROVE  HoldsAlone(u)'
    BY DEF SoleHolder, HoldsAlone
  <1>a. ASSUME overruns = 0 PROVE \A v \in Workers : HoldsAlone(v)
    BY <1>a DEF SoleHolder, HoldsAlone
  <1>1. ASSUME NEW e \in Events, NewEvent(e) PROVE HoldsAlone(u)'
    <2>1. HoldsAlone(u)
      BY <1>1, <1>a DEF NewEvent
    <2>2. worker[u] # Idle => worker[u].job \in Jobs /\ status[worker[u].job] # "none"
      BY BusyWorker DEF DurableWork, WorkersHaveJobs, Busy
    <2>3. QED
      BY <1>1, <2>1, <2>2 DEF NewEvent, HoldsAlone, OnJob
  <1>2. ASSUME NEW w \in Workers, WorkStep(w) PROVE HoldsAlone(u)'
    <2>1. HoldsAlone(u)
      BY <1>2, <1>a DEF WorkStep
    <2>2. QED
      BY <1>2, <2>1 DEF WorkStep, Moves, HoldsAlone, OnJob
  <1>3. ASSUME NEW w \in Workers, claimJob(w) PROVE HoldsAlone(u)'
    <2>1. PICK j \in Jobs :
            /\ Claimable(j)
            /\ status' = [status EXCEPT ![j] = "leased"]
            /\ attempts' = [attempts EXCEPT ![j] = @ + 1]
            /\ lapsed' = [lapsed EXCEPT ![j] = FALSE]
            /\ worker' = [worker EXCEPT ![w] =
                 [pc |-> "claimed", job |-> j, attempt |-> attempts[j] + 1,
                  settled |-> FALSE]]
      BY <1>3 DEF claimJob
    <2>2. worker[w] = Idle /\ UNCHANGED <<overruns, ended>>
      BY <1>3 DEF claimJob
    <2>3. \A v \in Workers : HoldsAlone(v)
      BY <1>a, <2>2
    <2>4. /\ worker'[w] # Idle /\ worker'[w].job = j /\ worker'[w].attempt = attempts[j] + 1
          /\ \A v \in Workers \ {w} : worker'[v] = worker[v]
      BY <2>1 DEF TypeOK, Idle
    <2>5. \A k \in Jobs \ {j} : /\ status'[k] = status[k] /\ lapsed'[k] = lapsed[k]
                                /\ attempts'[k] = attempts[k]
      BY <2>1 DEF TypeOK
    <2>6. status'[j] = "leased" /\ ~lapsed'[j] /\ attempts'[j] = attempts[j] + 1
      BY <2>1 DEF TypeOK
    <2>7. PolicyOf(j) \notin ended => \A v \in Workers : ~OnJob(v, j)
      BY <2>1, <2>3 DEF Claimable, HoldsAlone, OnJob
    <2>8. CASE u = w
      BY <2>2, <2>4, <2>6, <2>7, <2>8 DEF HoldsAlone, OnJob
    <2>9. CASE u # w
      <3>1. worker'[u] = worker[u] /\ (worker[u] # Idle => worker[u].job \in Jobs)
        BY <2>4, <2>9, BusyWorker DEF Busy
      <3>2. worker[u] # Idle /\ worker[u].job = j => PolicyOf(j) \in ended
        BY <2>7 DEF OnJob
      <3>3. QED
        BY <2>2, <2>3, <2>4, <2>5, <3>1, <3>2 DEF HoldsAlone, OnJob
    <2>10. QED
      BY <2>8, <2>9
  <1>4. ASSUME NEW w \in Workers, Crash(w) PROVE HoldsAlone(u)'
    <2>1. UNCHANGED <<ended, status, attempts, lapsed, overruns>>
          /\ \A v \in Workers : worker'[v] \in {worker[v], Idle}
      BY <1>4 DEF Crash, TypeOK
    <2>2. HoldsAlone(u)
      BY <1>a, <2>1
    <2>3. QED
      BY <2>1, <2>2 DEF HoldsAlone, OnJob
  <1>5. ASSUME NEW w \in Workers, completeJobCommits(w) \/ failJob(w) PROVE HoldsAlone(u)'
    <2> DEFINE j == worker[w].job
    <2>1. worker[w] # Idle /\ j \in Jobs
      BY <1>5, AtBusy DEF completeJobCommits, failJob, BusyPc, Busy
    <2>2. UNCHANGED <<ended, attempts, lapsed, overruns>>
          /\ worker'[w] = Idle /\ \A v \in Workers \ {w} : worker'[v] = worker[v]
      BY <1>5 DEF completeJobCommits, failJob, TypeOK
    <2>3. \A k \in Jobs \ {j} : status'[k] = status[k]
      BY <1>5 DEF completeJobCommits, failJob, TypeOK
    <2>4. \A v \in Workers : HoldsAlone(v)
      BY <1>a, <2>2
    <2>5. CASE u = w
      BY <2>2, <2>5 DEF HoldsAlone
    <2>6. CASE u # w
      <3>1. worker'[u] = worker[u] /\ (worker[u] # Idle => worker[u].job \in Jobs)
        BY <2>2, <2>6, BusyWorker DEF Busy
      <3>2. worker[u] # Idle /\ worker[u].job = j => PolicyOf(j) \in ended
        BY <2>1, <2>4, <2>6 DEF HoldsAlone, OnJob
      <3>3. QED
        BY <2>2, <2>3, <2>4, <3>1, <3>2 DEF HoldsAlone, OnJob
    <2>7. QED
      BY <2>5, <2>6
  <1>6. ASSUME NEW j \in Jobs, LeaseLapses(j) PROVE HoldsAlone(u)'
    <2>1. UNCHANGED <<ended, status, attempts, worker>>
          /\ \A k \in Jobs \ {j} : lapsed'[k] = lapsed[k]
      BY <1>6 DEF LeaseLapses, TypeOK
    <2>2. overruns = 0 /\ ~Held(j)
      BY <1>6, BoundsAssumption DEF LeaseLapses, TypeOK
    <2>3. HoldsAlone(u)
      BY <1>a, <2>2
    <2>4. worker[u] # Idle => worker[u].job \in Jobs
      BY BusyWorker DEF Busy
    <2>5. worker[u] # Idle /\ worker[u].job = j => PolicyOf(j) \in ended
      BY <2>2, <2>3 DEF HoldsAlone, Held, OnJob
    <2>6. QED
      BY <2>1, <2>3, <2>4, <2>5 DEF HoldsAlone, OnJob
  <1>7. ASSUME NEW p \in Policies, endHypothesis(p) PROVE HoldsAlone(u)'
    <2>1. UNCHANGED <<attempts, lapsed, worker, overruns>> /\ ended' = ended \cup {p}
          /\ \A k \in Jobs : PolicyOf(k) # p => status'[k] = status[k]
      BY <1>7 DEF endHypothesis
    <2>2. HoldsAlone(u)
      BY <1>a, <2>1
    <2>3. worker[u] # Idle => worker[u].job \in Jobs
      BY BusyWorker DEF Busy
    <2>4. QED
      BY <2>1, <2>2, <2>3 DEF HoldsAlone, OnJob
  <1>8. CASE Quiet
    BY <1>8, <1>a DEF Quiet, HoldsAlone, OnJob
  <1>9. QED
    BY <1>1, <1>2, <1>3, <1>4, <1>5, <1>6, <1>7, <1>8, StepKinds

(***************************************************************************)
(* What is announced: failures, and events with a single job.              *)
(***************************************************************************)

LEMMA AlertsKept ==
  ASSUME FailuresAlerted, ended \subseteq ended', alerted \subseteq alerted',
         \A k \in Jobs : status[k] # "none" => status'[k] # "none",
         \A f \in Events : event'[f] = "failed" =>
            \/ event[f] = "failed"
            \/ \E k \in Jobs : EventOf(k) = f /\ status'[k] # "none" /\ k \in alerted',
         \A k \in Jobs : status'[k] = "dead-letter" =>
            status[k] = "dead-letter" \/ k \in alerted' \/ PolicyOf(k) \in ended'
  PROVE  FailuresAlerted'
  BY DEF FailuresAlerted, JobsOf

LEMMA NextAlerted ==
  TypeOK /\ DurableWork /\ FailuresAlerted /\ [Next]_vars => FailuresAlerted'
  <1> SUFFICES ASSUME TypeOK, DurableWork, FailuresAlerted, [Next]_vars
               PROVE  FailuresAlerted'
    OBVIOUS
  <1>1. ASSUME NEW e \in Events, NewEvent(e) PROVE FailuresAlerted'
    <2>1. \A f \in Events : event'[f] = "failed" => event[f] = "failed"
      BY <1>1 DEF NewEvent
    <2>2. UNCHANGED <<ended, alerted>>
          /\ \A k \in Jobs : status'[k] = status[k]
                             \/ (status[k] = "none" /\ status'[k] = "pending")
      BY <1>1 DEF NewEvent
    <2>3. QED
      BY <2>1, <2>2, AlertsKept
  <1>2. ASSUME NEW w \in Workers, WorkStep(w) PROVE FailuresAlerted'
    BY <1>2, AlertsKept DEF WorkStep
  <1>3. ASSUME NEW w \in Workers, claimJob(w) PROVE FailuresAlerted'
    <2>1. \A k \in Jobs : status'[k] \in {status[k], "leased"}
      BY <1>3 DEF claimJob, TypeOK
    <2>2. UNCHANGED <<ended, event, alerted>>
      BY <1>3 DEF claimJob
    <2>3. QED
      BY <2>1, <2>2, AlertsKept
  <1>4. ASSUME NEW w \in Workers, Crash(w) PROVE FailuresAlerted'
    BY <1>4, AlertsKept DEF Crash
  <1>5. ASSUME NEW w \in Workers, completeJobCommits(w) PROVE FailuresAlerted'
    <2>1. /\ \A k \in Jobs : status'[k] \in {status[k], "completed"}
          /\ \A f \in Events : event'[f] \in {event[f], "processed"}
      BY <1>5 DEF completeJobCommits, TypeOK
    <2>2. UNCHANGED <<ended, alerted>>
      BY <1>5 DEF completeJobCommits
    <2>3. QED
      BY <2>1, <2>2, AlertsKept
  <1>6. ASSUME NEW w \in Workers, failJob(w) PROVE FailuresAlerted'
    <2> DEFINE j == worker[w].job
    <2>1. j \in Jobs
      BY <1>6, AtBusy DEF failJob, BusyPc, Busy
    <2>2. ended' = ended /\ alerted \subseteq alerted'
      BY <1>6 DEF failJob
    <2>3. CASE Terminal(w)
      <3>1. j \in alerted' /\ status'[j] = "dead-letter"
            /\ \A k \in Jobs \ {j} : status'[k] = status[k]
        BY <1>6, <2>1, <2>3 DEF failJob, TypeOK
      <3>2. \A f \in Events : event'[f] # event[f] => f = EventOf(j)
        BY <1>6 DEF failJob, TypeOK
      <3>3. QED
        BY <2>1, <2>2, <3>1, <3>2, AlertsKept
    <2>4. CASE ~Terminal(w)
      <3>1. UNCHANGED event /\ \A k \in Jobs : status'[k] \in {status[k], "retrying"}
        BY <1>6, <2>4 DEF failJob, TypeOK
      <3>2. QED
        BY <2>2, <3>1, AlertsKept
    <2>5. QED
      BY <2>3, <2>4
  <1>7. ASSUME NEW j \in Jobs, LeaseLapses(j) PROVE FailuresAlerted'
    BY <1>7, AlertsKept DEF LeaseLapses
  <1>8. ASSUME NEW p \in Policies, endHypothesis(p) PROVE FailuresAlerted'
    <2>1. /\ UNCHANGED <<event, alerted>> /\ ended' = ended \cup {p}
          /\ \A k \in Jobs : status'[k] = status[k]
                             \/ (PolicyOf(k) = p /\ status'[k] = "dead-letter")
      BY <1>8 DEF endHypothesis
    <2>2. QED
      BY <2>1, AlertsKept
  <1>9. CASE Quiet
    BY <1>9, AlertsKept DEF Quiet
  <1>10. QED
    BY <1>1, <1>2, <1>3, <1>4, <1>5, <1>6, <1>7, <1>8, <1>9, StepKinds

\* Which jobs an event has is settled when it arrives.
LEMMA JobsStay ==
  ASSUME NEW f \in Events,
         \A k \in Jobs : EventOf(k) = f => ((status'[k] = "none") <=> (status[k] = "none"))
  PROVE  JobsOf(f)' = JobsOf(f)
  BY DEF JobsOf

SolePublished == SoleVerdict /\ SoleJobPublishes

\* No job is completed, no verdict formed and no event reset.
LEMMA SoleKept ==
  ASSUME TypeOK, DurableWork, SolePublished,
         \A k \in Jobs : status[k] # "none" => JobsOf(EventOf(k))' = JobsOf(EventOf(k)),
         \A k \in Jobs : status'[k] = "completed" => status[k] = "completed",
         \A k \in Jobs : event[EventOf(k)] \in {"processed", "failed"} =>
                         event'[EventOf(k)] \in {"processed", "failed"},
         \A v \in Workers : At(v, "settling")' => worker'[v] = worker[v]
  PROVE  SolePublished'
  <1>1. SoleVerdict'
    <2> SUFFICES ASSUME NEW v \in Workers, At(v, "settling")',
                        (JobsOf(EventOf(worker[v].job)) = {worker[v].job})'
                 PROVE  worker'[v].settled
      BY DEF SoleVerdict
    <2>1. worker'[v] = worker[v] /\ At(v, "settling")
      BY DEF At
    <2>2. worker[v].job \in Jobs /\ status[worker[v].job] # "none"
      BY <2>1, AtBusy DEF BusyPc, Busy, DurableWork, WorkersHaveJobs
    <2>3. QED
      BY <2>1, <2>2 DEF SolePublished, SoleVerdict, JobsOf, EventOf
  <1>2. SoleJobPublishes'
    BY DEF SolePublished, SoleJobPublishes
  <1>3. QED
    BY <1>1, <1>2 DEF SolePublished

LEMMA SoleReads ==
  ASSUME TypeOK, DurableWork, SolePublished, NEW w \in Workers, WorkStep(w)
  PROVE  SolePublished'
  <1>1. UNCHANGED <<event, status>> /\ worker[w] \in Busy
        /\ \A v \in Workers \ {w} : worker'[v] = worker[v]
    BY DEF WorkStep, Moves
  <1>2. \A f \in Events : JobsOf(f)' = JobsOf(f)
    BY <1>1, JobsStay
  <1>3. \A k \in Jobs : EventOf(k) \in Events
    BY DEF Jobs, EventOf
  <1>4. SoleJobPublishes'
    BY <1>1, <1>2, <1>3 DEF SolePublished, SoleJobPublishes
  <1>5. SoleVerdict'
    <2> SUFFICES ASSUME NEW v \in Workers, At(v, "settling")',
                        (JobsOf(EventOf(worker[v].job)) = {worker[v].job})'
                 PROVE  worker'[v].settled
      BY DEF SoleVerdict
    <2>1. CASE v = w
      <3>1. completeJobReads(w)
        BY <2>1 DEF WorkStep
      <3>2. worker'[w].job = worker[w].job
            /\ worker'[w].settled = AllCompletedBut(worker[w].job)
        BY <3>1, ReadsMoves DEF Moves
      <3>3. worker[w].job \in Jobs
        BY <1>1 DEF Busy
      <3>4. JobsOf(EventOf(worker[w].job)) = {worker[w].job}
        BY <1>2, <1>3, <2>1, <3>2, <3>3 DEF JobsOf, EventOf
      <3>5. AllCompletedBut(worker[w].job)
        BY <3>4 DEF AllCompletedBut
      <3>6. QED
        BY <2>1, <3>2, <3>5
    <2>2. CASE v # w
      <3>1. worker'[v] = worker[v] /\ At(v, "settling")
        BY <1>1, <2>2 DEF At
      <3>2. worker[v].job \in Jobs
        BY <3>1, AtBusy DEF BusyPc, Busy
      <3>3. QED
        BY <1>2, <1>3, <3>1, <3>2 DEF SolePublished, SoleVerdict, JobsOf, EventOf
    <2>3. QED
      BY <2>1, <2>2
  <1>6. QED
    BY <1>4, <1>5 DEF SolePublished

LEMMA SoleCommits ==
  ASSUME TypeOK, DurableWork, SolePublished, NEW w \in Workers, completeJobCommits(w)
  PROVE  SolePublished'
  <1> DEFINE j == worker[w].job
  <1>1. worker[w] # Idle /\ j \in Jobs /\ At(w, "settling")
    BY AtBusy DEF completeJobCommits, BusyPc, Busy
  <1>2. /\ status[j] # "none" /\ status'[j] = "completed"
        /\ \A k \in Jobs \ {j} : status'[k] = status[k]
    BY <1>1 DEF completeJobCommits, TypeOK, DurableWork, WorkersHaveJobs
  <1>3. \A f \in Events : JobsOf(f)' = JobsOf(f)
    BY <1>2, JobsStay
  <1>4. \A k \in Jobs : EventOf(k) \in Events
    BY DEF Jobs, EventOf
  <1>5. worker'[w] = Idle /\ \A v \in Workers \ {w} : worker'[v] = worker[v]
    BY DEF completeJobCommits, TypeOK
  <1>6. /\ \A f \in Events : event'[f] \in {event[f], "processed"}
        /\ worker[w].settled => event'[EventOf(j)] = "processed"
    BY <1>1, <1>4 DEF completeJobCommits, TypeOK
  <1>7. SoleVerdict'
    <2> SUFFICES ASSUME NEW v \in Workers, At(v, "settling")',
                        (JobsOf(EventOf(worker[v].job)) = {worker[v].job})'
                 PROVE  worker'[v].settled
      BY DEF SoleVerdict
    <2>1. worker'[v] = worker[v] /\ At(v, "settling")
      BY <1>5 DEF At, Idle
    <2>2. worker[v].job \in Jobs
      BY <2>1, AtBusy DEF BusyPc, Busy
    <2>3. QED
      BY <1>3, <1>4, <2>1, <2>2 DEF SolePublished, SoleVerdict, JobsOf, EventOf
  <1>8. SoleJobPublishes'
    <2> SUFFICES ASSUME NEW k \in Jobs, JobsOf(EventOf(k)) = {k}, status'[k] = "completed"
                 PROVE  event'[EventOf(k)] \in {"processed", "failed"}
      BY <1>3, <1>4 DEF SoleJobPublishes
    <2>1. CASE k = j
      BY <1>1, <1>6, <2>1 DEF SolePublished, SoleVerdict
    <2>2. CASE k # j
      BY <1>2, <1>4, <1>6, <2>2 DEF SolePublished, SoleJobPublishes
    <2>3. QED
      BY <2>1, <2>2
  <1>9. QED
    BY <1>7, <1>8 DEF SolePublished

LEMMA NextSolePublished ==
  TypeOK /\ DurableWork /\ SolePublished /\ [Next]_vars => SolePublished'
  <1> SUFFICES ASSUME TypeOK, DurableWork, SolePublished, [Next]_vars PROVE SolePublished'
    OBVIOUS
  <1>a. \A k \in Jobs : EventOf(k) \in Events
    BY DEF Jobs, EventOf
  <1>1. ASSUME NEW e \in Events, NewEvent(e) PROVE SolePublished'
    <2>1. \A k \in Jobs : status[k] # "none" => EventOf(k) # e
      BY <1>1 DEF NewEvent
    <2>2. \A f \in Events \ {e} : JobsOf(f)' = JobsOf(f)
      BY <1>1, JobsStay DEF NewEvent
    <2>3. \A k \in Jobs : status'[k] = "completed" => status[k] = "completed"
      BY <1>1 DEF NewEvent
    <2>4. \A f \in Events : event[f] \in {"processed", "failed"} => event'[f] = event[f]
      BY <1>1 DEF NewEvent
    <2>5. UNCHANGED worker
      BY <1>1 DEF NewEvent
    <2>6. QED
      BY <1>a, <2>1, <2>2, <2>3, <2>4, <2>5, SoleKept DEF At
  <1>2. ASSUME NEW w \in Workers, WorkStep(w) PROVE SolePublished'
    BY <1>2, SoleReads
  <1>3. ASSUME NEW w \in Workers, claimJob(w) PROVE SolePublished'
    <2>1. PICK j \in Jobs : Claimable(j) /\ status' = [status EXCEPT ![j] = "leased"]
      BY <1>3 DEF claimJob
    <2>2. \A k \in Jobs : /\ (status'[k] = "none") <=> (status[k] = "none")
                          /\ status'[k] = "completed" => status[k] = "completed"
      BY <2>1 DEF Claimable, TypeOK
    <2>3. \A v \in Workers : At(v, "settling")' => worker'[v] = worker[v]
      BY <1>3 DEF claimJob, TypeOK, At
    <2>4. UNCHANGED event
      BY <1>3 DEF claimJob
    <2>5. \A f \in Events : JobsOf(f)' = JobsOf(f)
      BY <2>2, JobsStay
    <2>6. QED
      BY <1>a, <2>2, <2>3, <2>4, <2>5, SoleKept
  <1>4. ASSUME NEW w \in Workers, Crash(w) PROVE SolePublished'
    <2>1. UNCHANGED <<event, status>>
          /\ \A v \in Workers : At(v, "settling")' => worker'[v] = worker[v]
      BY <1>4 DEF Crash, TypeOK, At, Idle
    <2>2. \A f \in Events : JobsOf(f)' = JobsOf(f)
      BY <2>1, JobsStay
    <2>3. QED
      BY <1>a, <2>1, <2>2, SoleKept
  <1>5. ASSUME NEW w \in Workers, completeJobCommits(w) PROVE SolePublished'
    BY <1>5, SoleCommits
  <1>6. ASSUME NEW w \in Workers, failJob(w) PROVE SolePublished'
    <2>1. worker[w].job \in Jobs /\ status[worker[w].job] # "none"
      BY <1>6, AtBusy DEF failJob, BusyPc, Busy, DurableWork, WorkersHaveJobs
    <2>2. \A k \in Jobs : \/ status'[k] = status[k]
                          \/ status[k] # "none" /\ status'[k] \in {"retrying", "dead-letter"}
      BY <1>6, <2>1 DEF failJob, TypeOK
    <2>3. \A f \in Events : event'[f] \in {event[f], "failed"}
      BY <1>6 DEF failJob, TypeOK
    <2>4. \A v \in Workers : At(v, "settling")' => worker'[v] = worker[v]
      BY <1>6 DEF failJob, TypeOK, At, Idle
    <2>5. \A f \in Events : JobsOf(f)' = JobsOf(f)
      BY <2>2, JobsStay
    <2>6. QED
      BY <1>a, <2>2, <2>3, <2>4, <2>5, SoleKept
  <1>7. ASSUME NEW p \in Policies, endHypothesis(p) PROVE SolePublished'
    <2>1. UNCHANGED <<event, worker>>
      BY <1>7 DEF endHypothesis
    <2>2. \A k \in Jobs : \/ status'[k] = status[k]
                          \/ status[k] # "none" /\ status'[k] = "dead-letter"
      BY <1>7 DEF endHypothesis
    <2>3. \A f \in Events : JobsOf(f)' = JobsOf(f)
      BY <2>2, JobsStay
    <2>4. QED
      BY <1>a, <2>1, <2>2, <2>3, SoleKept
  <1>8. ASSUME UNCHANGED <<event, status, worker>> PROVE SolePublished'
    <2>1. \A f \in Events : JobsOf(f)' = JobsOf(f)
      BY <1>8, JobsStay
    <2>2. QED
      BY <1>8, <1>a, <2>1, SoleKept
  <1>9. ASSUME NEW j \in Jobs, LeaseLapses(j) PROVE SolePublished'
    BY <1>8, <1>9 DEF LeaseLapses
  <1>10. CASE Quiet
    BY <1>8, <1>10 DEF Quiet
  <1>11. QED
    BY <1>1, <1>2, <1>3, <1>4, <1>5, <1>6, <1>7, <1>9, <1>10, StepKinds

(***************************************************************************)
(* The theorems.                                                           *)
(***************************************************************************)

LEMMA InitLeases == Init => LeasesAccounted
  <1> SUFFICES ASSUME Init PROVE LeasesAccounted
    OBVIOUS
  <1>1. SoleHolder /\ SoleVerdict
    BY DEF Init, SoleHolder, SoleVerdict, At, Idle
  <1>2. FailuresAlerted /\ SoleJobPublishes
    BY DEF Init, FailuresAlerted, SoleJobPublishes, Jobs, EventOf
  <1>3. QED
    BY <1>1, <1>2, InitBudget DEF LeasesAccounted

LEMMA NextLeases ==
  TypeOK /\ DurableWork /\ LeasesAccounted /\ [Next]_vars => LeasesAccounted'
  BY NextSoleHolder, NextBudget, NextAlerted, NextSolePublished
  DEF LeasesAccounted, SolePublished

\* For any number of workers, overruns and crashes, each lease is held alone
\* until it lapses, each claim is paid for, each failure is announced, and an
\* event with one job is published: LeasesAccounted is inductive.
THEOREM LeasesAccountedHolds == Spec => []LeasesAccounted
  BY TypeCorrect, DurableWorkHolds, InitLeases, NextLeases, PTL DEF Spec

\* claimJob does not compare attempts with max_attempts; still a job is
\* claimed at most max_attempts times and once more for each lapse and crash.
THEOREM AttemptsAccountedHolds == Spec => []AttemptsAccounted
  <1>1. TypeOK /\ LeasesAccounted => AttemptsAccounted
    <2> SUFFICES ASSUME TypeOK, LeasesAccounted, NEW k \in Jobs
                 PROVE  attempts[k] <= MaxAttempts + overruns + crashes
      BY DEF AttemptsAccounted
    <2>1. Budgeted(k)
      BY DEF LeasesAccounted, AttemptBudget
    <2>2. QED
      BY <2>1, BudgetNumbers DEF Budgeted
  <1>2. QED
    BY <1>1, TypeCorrect, LeasesAccountedHolds, PTL

\* Nothing fails silently, also when late workers and the end of a hypothesis
\* meet.
THEOREM FailuresAlertedHolds == Spec => []FailuresAlerted
  <1>1. LeasesAccounted => FailuresAlerted
    BY DEF LeasesAccounted
  <1>2. QED
    BY <1>1, LeasesAccountedHolds, PTL

\* The publication of an event is missed only if it has several jobs.
THEOREM SoleJobPublishesHolds == Spec => []SoleJobPublishes
  <1>1. LeasesAccounted => SoleJobPublishes
    BY DEF LeasesAccounted
  <1>2. QED
    BY <1>1, LeasesAccountedHolds, PTL

LEMMA NextReopens ==
  ASSUME TypeOK, DurableWork, SoleHolder, [Next]_vars, NEW k \in Jobs,
         Settled(status[k]), ~Settled(status'[k])
  PROVE  overruns > 0 \/ PolicyOf(k) \in ended
  <1>1. ASSUME NEW e \in Events, NewEvent(e) PROVE FALSE
    BY <1>1 DEF NewEvent, Settled
  <1>2. ASSUME NEW w \in Workers, WorkStep(w) PROVE FALSE
    BY <1>2 DEF WorkStep
  <1>3. ASSUME NEW w \in Workers, claimJob(w) PROVE FALSE
    BY <1>3 DEF claimJob, Claimable, TypeOK, Settled
  <1>4. ASSUME NEW w \in Workers, Crash(w) PROVE FALSE
    BY <1>4 DEF Crash
  <1>5. ASSUME NEW w \in Workers, completeJobCommits(w) PROVE FALSE
    BY <1>5 DEF completeJobCommits, TypeOK, Settled
  <1>6. ASSUME NEW w \in Workers, failJob(w)
        PROVE  overruns > 0 \/ PolicyOf(k) \in ended
    <2>1. worker[w] # Idle
      BY <1>6, AtBusy DEF failJob, BusyPc
    <2>2. k = worker[w].job
      BY <1>6 DEF failJob, TypeOK
    <2>3. overruns = 0 => PolicyOf(k) \in ended
      BY <2>1, <2>2 DEF SoleHolder, Settled
    <2>4. QED
      BY <2>3, BoundsAssumption DEF TypeOK
  <1>7. ASSUME NEW j \in Jobs, LeaseLapses(j) PROVE FALSE
    BY <1>7 DEF LeaseLapses
  <1>8. ASSUME NEW p \in Policies, endHypothesis(p) PROVE FALSE
    BY <1>8 DEF endHypothesis, Settled
  <1>9. CASE Quiet
    BY <1>9 DEF Quiet
  <1>10. QED
    BY <1>1, <1>2, <1>3, <1>4, <1>5, <1>6, <1>7, <1>8, <1>9, StepKinds

\* A settled job is reopened only by a worker that overran its lease, or after
\* its hypothesis ended under a lease; never through crashes alone.
THEOREM ReopenedOnlyAfterOverrunHolds == Spec => ReopenedOnlyAfterOverrun
  <1>1. TypeOK /\ DurableWork /\ LeasesAccounted /\ [Next]_vars
        => [\A j \in Jobs : Settled(status[j]) /\ ~Settled(status'[j]) =>
                overruns > 0 \/ PolicyOf(j) \in ended]_vars
    BY NextReopens DEF LeasesAccounted
  <1>2. QED
    BY <1>1, TypeCorrect, DurableWorkHolds, LeasesAccountedHolds, PTL
    DEF Spec, ReopenedOnlyAfterOverrun

=============================================================================
