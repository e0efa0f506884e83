---------------------- MODULE ProjectMemoryQueueProofs ----------------------
EXTENDS ProjectMemoryQueue, TLAPS

LEMMA InitTypes == Init => TypeOK
  BY QueueAssumption
  DEF Init, TypeOK, JobStatus, Owners, Idle, ProcessStates, Steps

LEMMA InitFenced == Init => FencedOutcomes
  <1> SUFFICES ASSUME Init PROVE FencedOutcomes
    OBVIOUS
  <1>1. \A w \in Processes : process[w].pc = "idle"
    BY DEF Init, Idle
  <1>2. \A j \in Jobs : status[j] = "none" /\ attempts[j] = 0 /\ owner[j] = "null"
    BY DEF Init
  <1>3. AttemptsWithinLimit /\ UntriedUntilClaimed /\ OnlyRunningOwned
    BY <1>2, QueueAssumption DEF AttemptsWithinLimit, UntriedUntilClaimed, OnlyRunningOwned
  <1>4. BusyWithJob /\ ScansUnseen /\ ClaimedOnce
    BY <1>1 DEF BusyWithJob, ScansUnseen, ClaimedOnce, FormedFirst, At, Processes
  <1>5. OutcomesMatchRuns
    BY <1>2 DEF OutcomesMatchRuns
  <1>6. QED
    BY <1>3, <1>4, <1>5 DEF FencedOutcomes

-----------------------------------------------------------------------------
(* Facts used for several actions *)

\* Nobody settles for an owner that is "null".
LEMMA WorkersOwn ==
  ASSUME NEW w \in Workers
  PROVE  WorkerId(w) \in Owners \ {"null"} /\ w \notin Requested
  BY QueueAssumption DEF Workers, WorkerId, Owners

\* The sweep leaves a job's status alone, retries it or buries it.
LEMMA SweptTypes ==
  ASSUME TypeOK, NEW j \in Jobs
  PROVE  /\ SweptStatus(j) \in JobStatus
         /\ SweptStatus(j) \in {status[j], "retrying", "dead-letter"}
         /\ SweptStatus(j) # status[j] => status[j] \in {"running", "retrying"}
  BY DEF SweptStatus, Expired, Exhausted, TypeOK, JobStatus

\* A job the sweep leaves claimable has an attempt left.
LEMMA ClaimableUntried ==
  ASSUME TypeOK, FencedOutcomes, NEW j \in Jobs, Claimable(j)
  PROVE  /\ attempts[j] + 1 \in 1..MaxAttempts
         /\ status[j] \in {"pending", "retrying", "running"}
  BY QueueAssumption
  DEF Claimable, Exhausted, Expired, TypeOK, FencedOutcomes, UntriedUntilClaimed

\* A process that moves on keeps the type of its state.
LEMMA GotoTypes ==
  ASSUME TypeOK, NEW w \in Processes, NEW c \in Steps, Goto(w, c)
  PROVE  /\ process' \in [Processes -> ProcessStates]
         /\ process'[w] = [process[w] EXCEPT !.pc = c]
         /\ \A v \in Processes : v # w => process'[v] = process[v]
  BY DEF Goto, TypeOK, ProcessStates

LEMMA FinishTypes ==
  ASSUME TypeOK, NEW w \in Processes, Finish(w)
  PROVE  /\ process' \in [Processes -> ProcessStates]
         /\ process'[w] = Idle
         /\ \A v \in Processes : v # w => process'[v] = process[v]
  BY QueueAssumption DEF Finish, TypeOK, ProcessStates, Idle, Steps

-----------------------------------------------------------------------------
(* Steps that touch no job *)

\* A step that leaves runs and jobs alone and forms nothing first.
LEMMA MovesFenced ==
  ASSUME TypeOK, FencedOutcomes, UNCHANGED <<runs, jobVars>>,
         \A w \in Processes :
            \/ process'[w] \in {process[w], Idle}
            \/ /\ process'[w].job = process[w].job /\ process'[w].job \in Jobs
               /\ w \notin Requested
               /\ \/ process'[w].pc = "failed"
                  \/ process'[w].pc = "reading" /\ process'[w].digest \in Digests
            \/ /\ w \in Requested /\ process'[w].pc = "reading" /\ process'[w].job = w
               /\ process'[w].digest \in Digests /\ status[w] = "none"
  PROVE  FencedOutcomes'
  <1>1. /\ AttemptsWithinLimit' /\ UntriedUntilClaimed' /\ OnlyRunningOwned'
        /\ OutcomesMatchRuns'
    BY DEF FencedOutcomes, AttemptsWithinLimit, UntriedUntilClaimed, OnlyRunningOwned,
           OutcomesMatchRuns, jobVars
  <1>2. BusyWithJob'
    BY DEF FencedOutcomes, BusyWithJob, At, Idle, Processes, Jobs
  <1>3. ScansUnseen'
    BY DEF FencedOutcomes, ScansUnseen, At, Idle, Processes, jobVars
  <1>4. \A w \in Processes : At(w, "formed")' => process'[w] = process[w]
    BY DEF At, Idle
  <1>5. ClaimedOnce'
    BY <1>4 DEF FencedOutcomes, ClaimedOnce, FormedFirst, At, jobVars
  <1>6. QED
    BY <1>1, <1>2, <1>3, <1>5 DEF FencedOutcomes

-----------------------------------------------------------------------------
(* Steps of a worker *)

LEMMA EnqueueFenced ==
  ASSUME TypeOK, FencedOutcomes, NEW j \in Jobs, enqueueDueProjectMemorySchedules(j)
  PROVE  TypeOK' /\ FencedOutcomes'
  <1>1. j \notin Requested /\ status[j] = "none"
    BY QueueAssumption DEF enqueueDueProjectMemorySchedules
  <1>2. /\ status' = [status EXCEPT ![j] = "pending"]
        /\ UNCHANGED <<content, changes, runs, attempts, owner, lapsed, capture, process>>
    BY DEF enqueueDueProjectMemorySchedules
  <1>3. \A k \in Jobs : status'[k] = IF k = j THEN "pending" ELSE status[k]
    BY <1>2 DEF TypeOK
  <1>4. TypeOK'
    BY <1>2 DEF TypeOK, JobStatus
  <1>5. AttemptsWithinLimit' /\ UntriedUntilClaimed' /\ OnlyRunningOwned'
    BY <1>1, <1>2, <1>3
    DEF FencedOutcomes, AttemptsWithinLimit, UntriedUntilClaimed, OnlyRunningOwned
  <1>6. BusyWithJob' /\ ScansUnseen'
    BY <1>1, <1>2, <1>3 DEF FencedOutcomes, BusyWithJob, ScansUnseen, At, Jobs
  <1>7. ClaimedOnce' /\ OutcomesMatchRuns'
    BY <1>2, <1>3 DEF FencedOutcomes, ClaimedOnce, FormedFirst, OutcomesMatchRuns, At
  <1>8. QED
    BY <1>4, <1>5, <1>6, <1>7 DEF FencedOutcomes

LEMMA SweepFenced ==
  ASSUME TypeOK, FencedOutcomes, NEW w \in Workers, sweepsWithoutClaim(w)
  PROVE  TypeOK' /\ FencedOutcomes'
  <1>1. /\ UNCHANGED <<content, changes, runs, attempts, capture, process>>
        /\ status' = [j \in Jobs |-> SweptStatus(j)]
        /\ owner' = [j \in Jobs |-> IF j \in Released THEN "null" ELSE owner[j]]
        /\ lapsed' = [j \in Jobs |-> lapsed[j] /\ j \notin Released]
    BY DEF sweepsWithoutClaim
  <1>2. status' \in [Jobs -> JobStatus]
    BY <1>1, SweptTypes
  <1>3. owner' \in [Jobs -> Owners]
    BY <1>1 DEF TypeOK, Owners
  <1>4. lapsed' \in [Jobs -> BOOLEAN]
    BY <1>1 DEF TypeOK
  <1>5. TypeOK'
    BY <1>1, <1>2, <1>3, <1>4 DEF TypeOK
  <1>6. \A j \in Jobs : /\ status'[j] \in {status[j], "retrying", "dead-letter"}
                        /\ status'[j] # status[j] => status[j] \in {"running", "retrying"}
    BY <1>1, SweptTypes
  <1>7. \A j \in Jobs : owner'[j] # "null" => owner'[j] = owner[j] /\ status'[j] = status[j]
    BY <1>1 DEF Released, SweptStatus
  <1>8. AttemptsWithinLimit' /\ UntriedUntilClaimed' /\ OnlyRunningOwned'
    BY <1>1, <1>6, <1>7
    DEF FencedOutcomes, AttemptsWithinLimit, UntriedUntilClaimed, OnlyRunningOwned
  <1>9. BusyWithJob' /\ ScansUnseen'
    <2>1. BusyWithJob'
      BY <1>1 DEF FencedOutcomes, BusyWithJob, At
    <2>2. \A r \in Requested : status[r] = "none" => status'[r] = "none"
      BY <1>6 DEF Jobs
    <2>3. ScansUnseen'
      BY <1>1, <2>2 DEF FencedOutcomes, ScansUnseen, At
    <2>4. QED
      BY <2>1, <2>3
  <1>10. ClaimedOnce' /\ OutcomesMatchRuns'
    BY <1>1, <1>6 DEF FencedOutcomes, ClaimedOnce, FormedFirst, OutcomesMatchRuns, At
  <1>11. QED
    BY <1>5, <1>8, <1>9, <1>10 DEF FencedOutcomes

LEMMA ClaimFenced ==
  ASSUME TypeOK, FencedOutcomes, NEW w \in Workers, claims(w)
  PROVE  TypeOK' /\ FencedOutcomes'
  <1>1. PICK j \in Jobs :
          /\ Claimable(j)
          /\ status' = [i \in Jobs |-> IF i = j THEN "running" ELSE SweptStatus(i)]
          /\ attempts' = [attempts EXCEPT ![j] = @ + 1]
          /\ owner' = [i \in Jobs |-> IF i = j THEN WorkerId(w)
                                      ELSE IF i \in Released THEN "null" ELSE owner[i]]
          /\ lapsed' = [i \in Jobs |-> lapsed[i] /\ i # j /\ i \notin Released]
          /\ process' = [process EXCEPT ![w] =
                [pc |-> "claimed", job |-> j, tries |-> attempts[j] + 1,
                 digest |-> "none", first |-> FALSE]]
    BY DEF claims
  <1>2. UNCHANGED <<content, changes, runs, capture>>
    BY DEF claims
  <1>3. attempts[j] + 1 \in 1..MaxAttempts /\ status[j] \in {"pending", "retrying", "running"}
    BY <1>1, ClaimableUntried
  <1>4. WorkerId(w) \in Owners \ {"null"} /\ w \notin Requested /\ w \in Processes
    BY WorkersOwn DEF Processes
  <1>5. status' \in [Jobs -> JobStatus]
    BY <1>1, SweptTypes DEF JobStatus
  <1>6. owner' \in [Jobs -> Owners]
    BY <1>1, <1>4 DEF TypeOK, Owners
  <1>7. lapsed' \in [Jobs -> BOOLEAN]
    BY <1>1 DEF TypeOK
  <1>8. attempts' \in [Jobs -> Nat]
    BY <1>1 DEF TypeOK
  <1>9. process' \in [Processes -> ProcessStates]
    <2>1. attempts[j] + 1 \in 0..MaxAttempts
      BY <1>3
    <2>2. [pc |-> "claimed", job |-> j, tries |-> attempts[j] + 1,
           digest |-> "none", first |-> FALSE] \in ProcessStates
      BY <2>1 DEF ProcessStates, Steps
    <2>3. QED
      BY <1>1, <2>2 DEF TypeOK
  <1>10. TypeOK'
    BY <1>2, <1>5, <1>6, <1>7, <1>8, <1>9 DEF TypeOK
  <1>11. \A i \in Jobs : i # j =>
           /\ status'[i] \in {status[i], "retrying", "dead-letter"}
           /\ status'[i] # status[i] => status[i] \in {"running", "retrying"}
           /\ owner'[i] # "null" => owner'[i] = owner[i] /\ status'[i] = status[i]
           /\ attempts'[i] = attempts[i]
    BY <1>1, SweptTypes DEF TypeOK, Released, SweptStatus
  <1>12. status'[j] = "running" /\ attempts'[j] = attempts[j] + 1
    BY <1>1 DEF TypeOK
  <1>13. AttemptsWithinLimit' /\ UntriedUntilClaimed' /\ OnlyRunningOwned'
    <2>1. AttemptsWithinLimit'
      BY <1>3, <1>11, <1>12, QueueAssumption DEF FencedOutcomes, AttemptsWithinLimit
    <2>2. UntriedUntilClaimed' /\ OnlyRunningOwned'
      BY <1>11, <1>12 DEF FencedOutcomes, UntriedUntilClaimed, OnlyRunningOwned
    <2>3. QED
      BY <2>1, <2>2
  <1>14. process'[w].pc = "claimed" /\ process'[w].job = j
    BY <1>1, <1>4 DEF TypeOK, Idle
  <1>15. \A v \in Processes : v # w => process'[v] = process[v]
    BY <1>1 DEF TypeOK
  <1>16. BusyWithJob' /\ ScansUnseen'
    BY <1>3, <1>4, <1>11, <1>14, <1>15
    DEF FencedOutcomes, BusyWithJob, ScansUnseen, At, Processes, Jobs
  <1>17. ClaimedOnce' /\ OutcomesMatchRuns'
    BY <1>2, <1>11, <1>12, <1>14, <1>15
    DEF FencedOutcomes, ClaimedOnce, FormedFirst, OutcomesMatchRuns, At
  <1>18. QED
    BY <1>10, <1>13, <1>16, <1>17 DEF FencedOutcomes

LEMMA ReadsFenced ==
  ASSUME TypeOK, FencedOutcomes, NEW w \in Workers, formationReads(w)
  PROVE  TypeOK' /\ FencedOutcomes'
  <1>1. w \in Processes /\ w \notin Requested
    BY WorkersOwn DEF Processes
  <1>2. process' = [process EXCEPT ![w] = [process[w] EXCEPT !.pc = "reading",
            !.digest = content, !.first = content \notin runs]]
    BY <1>1 DEF formationReads, TypeOK
  <1>3. process[w] \in ProcessStates /\ process[w].job \in Jobs /\ content \in Digests
    BY <1>1 DEF formationReads, FencedOutcomes, BusyWithJob, At, TypeOK
  <1>4. [process[w] EXCEPT !.pc = "reading", !.digest = content,
                           !.first = content \notin runs] \in ProcessStates
    BY <1>3 DEF ProcessStates, Steps
  <1>5. TypeOK'
    BY <1>2, <1>4 DEF formationReads, TypeOK, jobVars
  <1>6. /\ process'[w].pc = "reading" /\ process'[w].job = process[w].job
        /\ process'[w].digest = content
    BY <1>1, <1>2, <1>3 DEF TypeOK, ProcessStates
  <1>7. \A v \in Processes : v # w => process'[v] = process[v]
    BY <1>2 DEF TypeOK
  <1>8. QED
    BY <1>1, <1>3, <1>5, <1>6, <1>7, MovesFenced DEF formationReads

LEMMA ThrowsFenced ==
  ASSUME TypeOK, FencedOutcomes, NEW w \in Workers, ~At(w, "idle"), Goto(w, "failed"),
         UNCHANGED <<content, changes, runs, jobVars>>
  PROVE  TypeOK' /\ FencedOutcomes'
  <1>1. w \in Processes /\ w \notin Requested
    BY WorkersOwn DEF Processes
  <1>2. /\ process' \in [Processes -> ProcessStates]
        /\ process'[w] = [process[w] EXCEPT !.pc = "failed"]
        /\ \A v \in Processes : v # w => process'[v] = process[v]
    BY <1>1, GotoTypes DEF Steps
  <1>3. process[w] \in ProcessStates /\ process[w].job \in Jobs
    BY <1>1 DEF FencedOutcomes, BusyWithJob, TypeOK
  <1>4. process'[w].pc = "failed" /\ process'[w].job = process[w].job
    BY <1>2, <1>3 DEF ProcessStates
  <1>5. TypeOK'
    BY <1>2 DEF TypeOK, jobVars
  <1>6. QED
    BY <1>1, <1>2, <1>3, <1>4, <1>5, MovesFenced

\* The first formation of a digest finds no run of it, so no settled job and no
\* other worker can claim its candidates.
LEMMA FormsFenced ==
  ASSUME TypeOK, FencedOutcomes, NEW w \in Workers, formationCommits(w)
  PROVE  TypeOK' /\ FencedOutcomes'
  <1> DEFINE d == process[w].digest
  <1>1. w \in Processes /\ w \notin Requested /\ At(w, "reading")
    BY WorkersOwn DEF Processes, formationCommits
  <1>2. process[w] \in ProcessStates /\ process[w].job \in Jobs /\ d \in Digests
    BY <1>1 DEF FencedOutcomes, BusyWithJob, At, TypeOK
  <1>3. CASE process[w].first /\ d \in runs
    <2>1. Goto(w, "failed") /\ UNCHANGED <<content, changes, runs, jobVars>>
      BY <1>3 DEF formationCommits
    <2>2. QED
      BY <1>1, <2>1, ThrowsFenced DEF At
  <1>4. CASE ~(process[w].first /\ d \in runs)
    <2>1. /\ Goto(w, "formed") /\ runs' = runs \cup {d}
          /\ UNCHANGED <<content, changes, jobVars>>
      BY <1>4 DEF formationCommits
    <2>2. /\ process' \in [Processes -> ProcessStates]
          /\ process'[w] = [process[w] EXCEPT !.pc = "formed"]
          /\ \A v \in Processes : v # w => process'[v] = process[v]
      BY <1>1, <2>1, GotoTypes DEF Steps
    <2>3. /\ process'[w].pc = "formed" /\ process'[w].job = process[w].job
          /\ process'[w].digest = d /\ process'[w].first = process[w].first
      BY <1>2, <2>2 DEF ProcessStates
    <2>4. TypeOK'
      BY <1>2, <2>1, <2>2 DEF TypeOK, jobVars
    <2>5. AttemptsWithinLimit' /\ UntriedUntilClaimed' /\ OnlyRunningOwned'
      BY <2>1
      DEF FencedOutcomes, AttemptsWithinLimit, UntriedUntilClaimed, OnlyRunningOwned, jobVars
    <2>6. BusyWithJob' /\ ScansUnseen'
      <3>1. BusyWithJob'
        BY <1>2, <2>2, <2>3 DEF FencedOutcomes, BusyWithJob, At
      <3>2. ScansUnseen'
        BY <1>1, <2>1, <2>2 DEF FencedOutcomes, ScansUnseen, At, Processes, jobVars
      <3>3. QED
        BY <3>1, <3>2
    <2>7. OutcomesMatchRuns'
      BY <2>1 DEF FencedOutcomes, OutcomesMatchRuns, jobVars
    <2>8. process[w].first =>
            /\ \A v \in Processes : At(v, "formed") => process[v].digest # d
            /\ \A j \in Jobs : status[j] = "completed" => capture[j] # d
      BY <1>4 DEF FencedOutcomes, ClaimedOnce, OutcomesMatchRuns
    <2>9. ClaimedOnce'
      <3>1. \A v \in Processes : At(v, "formed")' =>
              process'[v].digest \in runs' /\ (v = w \/ process'[v] = process[v])
        BY <2>1, <2>2, <2>3 DEF FencedOutcomes, ClaimedOnce, At
      <3>2. \A v \in Processes : v # w =>
              (FormedFirst(v)' <=> FormedFirst(v)) /\ process'[v].digest = process[v].digest
        BY <2>2 DEF FormedFirst, At
      <3>3. FormedFirst(w)' => process[w].first
        BY <2>3 DEF FormedFirst
      <3>4. process'[w].digest = d /\ UNCHANGED <<status, capture>>
        BY <2>1, <2>3 DEF jobVars
      <3>5. \A v \in Processes : FormedFirst(v) => At(v, "formed")
        BY DEF FormedFirst
      <3>6. \A u, v \in Processes :
              FormedFirst(u)' /\ FormedFirst(v)' /\ process'[u].digest = process'[v].digest
                => u = v
        BY <2>8, <3>2, <3>3, <3>4, <3>5 DEF FencedOutcomes, ClaimedOnce
      <3>7. \A v \in Processes, j \in Jobs :
              ~(FormedFirst(v)' /\ status'[j] = "completed" /\ capture'[j] = process'[v].digest)
        BY <2>8, <3>2, <3>3, <3>4 DEF FencedOutcomes, ClaimedOnce
      <3>8. QED
        BY <3>1, <3>6, <3>7 DEF ClaimedOnce, At
    <2>10. QED
      BY <2>4, <2>5, <2>6, <2>7, <2>9 DEF FencedOutcomes
  <1>5. QED
    BY <1>3, <1>4

\* Settling an owned job, as completed only for the digest the worker was the
\* first to form; a worker that lost its lease changes no job.
LEMMA SettleFenced ==
  ASSUME TypeOK, FencedOutcomes, NEW w \in Workers, ~At(w, "idle"),
         NEW outcome \in {"completed", "no-signal", "retrying", "dead-letter"},
         NEW digest \in Digests \cup {"none"},
         outcome \in {"completed", "no-signal"} => digest \in runs,
         outcome = "completed" =>
            FormedFirst(w) /\ digest = process[w].digest /\ digest \in Signals,
         Settle(w, outcome, digest), Finish(w),
         UNCHANGED <<content, changes, runs, attempts>>
  PROVE  TypeOK' /\ FencedOutcomes'
  <1> DEFINE j == process[w].job
  <1>1. w \in Processes /\ w \notin Requested /\ j \in Jobs
    BY WorkersOwn DEF Processes, FencedOutcomes, BusyWithJob
  <1>2. /\ process' \in [Processes -> ProcessStates]
        /\ process'[w] = Idle
        /\ \A v \in Processes : v # w => process'[v] = process[v]
    BY <1>1, FinishTypes
  <1>3. CASE owner[j] # WorkerId(w)
    <2>1. UNCHANGED <<runs, jobVars>>
      BY <1>3 DEF Settle, jobVars
    <2>2. TypeOK'
      BY <1>2, <2>1 DEF TypeOK, jobVars
    <2>3. QED
      BY <1>2, <2>1, <2>2, MovesFenced
  <1>4. CASE owner[j] = WorkerId(w)
    <2>1. /\ status' = [status EXCEPT ![j] = outcome]
          /\ capture' = [capture EXCEPT ![j] = digest]
          /\ owner' = [owner EXCEPT ![j] = "null"]
          /\ lapsed' = [lapsed EXCEPT ![j] = FALSE]
      BY <1>4 DEF Settle
    <2>2. status[j] = "running"
      BY <1>1, <1>4, WorkersOwn DEF FencedOutcomes, OnlyRunningOwned
    <2>3. TypeOK'
      BY <1>1, <1>2, <2>1 DEF TypeOK, JobStatus, Owners
    <2>4. \A i \in Jobs :
            /\ status'[i] = IF i = j THEN outcome ELSE status[i]
            /\ capture'[i] = IF i = j THEN digest ELSE capture[i]
            /\ owner'[i] = IF i = j THEN "null" ELSE owner[i]
      BY <2>1 DEF TypeOK
    <2>5. AttemptsWithinLimit' /\ UntriedUntilClaimed' /\ OnlyRunningOwned'
      BY <2>4 DEF FencedOutcomes, AttemptsWithinLimit, UntriedUntilClaimed, OnlyRunningOwned
    <2>6. BusyWithJob'
      BY <1>2 DEF FencedOutcomes, BusyWithJob, At, Idle
    <2>7. ScansUnseen'
      BY <1>1, <1>2, <2>2, <2>4 DEF FencedOutcomes, ScansUnseen, At, Idle, Processes, Jobs
    <2>8. \A v \in Processes : At(v, "formed")' => v # w /\ process'[v] = process[v]
      BY <1>2 DEF At, Idle
    <2>9. ClaimedOnce'
      BY <1>1, <2>4, <2>8 DEF FencedOutcomes, ClaimedOnce, FormedFirst, At
    <2>10. OutcomesMatchRuns'
      BY <1>1, <2>4 DEF FencedOutcomes, ClaimedOnce, OutcomesMatchRuns
    <2>11. QED
      BY <2>3, <2>5, <2>6, <2>7, <2>9, <2>10 DEF FencedOutcomes
  <1>5. QED
    BY <1>3, <1>4

LEMMA CompletesFenced ==
  ASSUME TypeOK, FencedOutcomes, NEW w \in Workers, completes(w)
  PROVE  TypeOK' /\ FencedOutcomes'
  <1> DEFINE outcome == Outcome(process[w].digest, process[w].first)
  <1>1. w \in Processes /\ At(w, "formed") /\ ~At(w, "idle")
    BY DEF completes, Processes, At
  <1>2. process[w].digest \in Digests /\ process[w].digest \in runs
    BY <1>1 DEF FencedOutcomes, BusyWithJob, ClaimedOnce
  <1>3. /\ outcome \in {"completed", "no-signal"}
        /\ outcome = "completed" => FormedFirst(w) /\ process[w].digest \in Signals
    BY <1>1 DEF Outcome, FormedFirst
  <1>4. QED
    BY <1>1, <1>2, <1>3, SettleFenced DEF completes

LEMMA FailsFenced ==
  ASSUME TypeOK, FencedOutcomes, NEW w \in Workers, fails(w)
  PROVE  TypeOK' /\ FencedOutcomes'
  <1>1. w \in Processes /\ ~At(w, "idle")
    BY DEF fails, Processes, At
  <1>2. capture[process[w].job] \in Digests \cup {"none"}
    BY <1>1 DEF FencedOutcomes, BusyWithJob, TypeOK
  <1>3. QED
    BY <1>1, <1>2, SettleFenced DEF fails

-----------------------------------------------------------------------------
(* Steps of a member's request *)

LEMMA ScanReadsFenced ==
  ASSUME TypeOK, FencedOutcomes, NEW r \in Requested, requestsScan(r)
  PROVE  TypeOK' /\ FencedOutcomes'
  <1>1. r \in Processes /\ r \in Jobs /\ content \in Digests /\ status[r] = "none"
    BY DEF requestsScan, Processes, Jobs, TypeOK
  <1>2. process' = [process EXCEPT ![r] =
            [pc |-> "reading", job |-> r, tries |-> 0, digest |-> content,
             first |-> content \notin runs]]
    BY DEF requestsScan
  <1>3. [pc |-> "reading", job |-> r, tries |-> 0, digest |-> content,
         first |-> content \notin runs] \in ProcessStates
    <2>1. (content \notin runs) \in BOOLEAN /\ 0 \in 0..MaxAttempts
      BY QueueAssumption
    <2>2. QED
      BY <1>1, <2>1 DEF ProcessStates, Steps
  <1>4. TypeOK'
    BY <1>2, <1>3 DEF requestsScan, TypeOK, jobVars
  <1>5. process'[r].pc = "reading" /\ process'[r].job = r /\ process'[r].digest = content
    BY <1>1, <1>2 DEF TypeOK, Idle
  <1>6. \A v \in Processes : v # r => process'[v] = process[v]
    BY <1>2 DEF TypeOK
  <1>7. QED
    BY <1>1, <1>4, <1>5, <1>6, MovesFenced DEF requestsScan

LEMMA ScanCommitsFenced ==
  ASSUME TypeOK, FencedOutcomes, NEW r \in Requested, scanCommits(r)
  PROVE  TypeOK' /\ FencedOutcomes'
  <1> DEFINE d == process[r].digest
             outcome == Outcome(d, process[r].first)
  <1>1. r \in Processes /\ r \in Jobs /\ At(r, "reading")
    BY DEF scanCommits, Processes, Jobs
  <1>2. d \in Digests /\ status[r] = "none" /\ owner[r] = "null"
    BY <1>1 DEF FencedOutcomes, BusyWithJob, ScansUnseen, OnlyRunningOwned, At
  <1>3. /\ ~(process[r].first /\ d \in runs)
        /\ runs' = runs \cup {d}
        /\ status' = [status EXCEPT ![r] = outcome]
        /\ capture' = [capture EXCEPT ![r] = d]
        /\ attempts' = [attempts EXCEPT ![r] = 1]
        /\ Finish(r)
        /\ UNCHANGED <<content, changes, owner, lapsed>>
    BY DEF scanCommits
  <1>4. /\ outcome \in {"completed", "no-signal"}
        /\ outcome = "completed" => process[r].first /\ d \in Signals
    BY DEF Outcome
  <1>5. /\ process' \in [Processes -> ProcessStates]
        /\ process'[r] = Idle
        /\ \A v \in Processes : v # r => process'[v] = process[v]
    BY <1>1, <1>3, FinishTypes
  <1>6. TypeOK'
    BY <1>1, <1>2, <1>3, <1>4, <1>5 DEF TypeOK, JobStatus
  <1>7. \A i \in Jobs :
          /\ status'[i] = IF i = r THEN outcome ELSE status[i]
          /\ capture'[i] = IF i = r THEN d ELSE capture[i]
          /\ attempts'[i] = IF i = r THEN 1 ELSE attempts[i]
    BY <1>3 DEF TypeOK
  <1>8. AttemptsWithinLimit'
    BY <1>7, QueueAssumption DEF FencedOutcomes, AttemptsWithinLimit
  <1>9. UntriedUntilClaimed' /\ OnlyRunningOwned'
    BY <1>2, <1>3, <1>4, <1>7 DEF FencedOutcomes, UntriedUntilClaimed, OnlyRunningOwned
  <1>10. BusyWithJob' /\ ScansUnseen'
    BY <1>5, <1>7 DEF FencedOutcomes, BusyWithJob, ScansUnseen, At, Idle, Processes, Jobs
  <1>11. \A v \in Processes : At(v, "formed")' => v # r /\ process'[v] = process[v]
    BY <1>5 DEF At, Idle
  <1>12. process[r].first =>
           /\ \A v \in Processes : At(v, "formed") => process[v].digest # d
           /\ \A j \in Jobs : status[j] = "completed" => capture[j] # d
    BY <1>3 DEF FencedOutcomes, ClaimedOnce, OutcomesMatchRuns
  <1>13. ClaimedOnce'
    BY <1>3, <1>4, <1>7, <1>11, <1>12 DEF FencedOutcomes, ClaimedOnce, FormedFirst, At
  <1>14. OutcomesMatchRuns'
    BY <1>3, <1>4, <1>7, <1>12 DEF FencedOutcomes, OutcomesMatchRuns
  <1>15. QED
    BY <1>6, <1>8, <1>9, <1>10, <1>13, <1>14 DEF FencedOutcomes

-----------------------------------------------------------------------------

LEMMA AbandonFenced ==
  ASSUME TypeOK, FencedOutcomes, NEW w \in Processes, Finish(w),
         UNCHANGED <<content, changes, runs, jobVars>>
  PROVE  TypeOK' /\ FencedOutcomes'
  <1>1. /\ process' \in [Processes -> ProcessStates]
        /\ process'[w] = Idle
        /\ \A v \in Processes : v # w => process'[v] = process[v]
    BY FinishTypes
  <1>2. TypeOK'
    BY <1>1 DEF TypeOK, jobVars
  <1>3. QED
    BY <1>1, <1>2, MovesFenced

LEMMA NextFenced == TypeOK /\ FencedOutcomes /\ [Next]_vars => TypeOK' /\ FencedOutcomes'
  <1> SUFFICES ASSUME TypeOK, FencedOutcomes, [Next]_vars PROVE TypeOK' /\ FencedOutcomes'
    OBVIOUS
  <1>1. ASSUME ContentChanges PROVE TypeOK' /\ FencedOutcomes'
    <2>1. TypeOK'
      BY <1>1, QueueAssumption DEF ContentChanges, TypeOK, jobVars
    <2>2. QED
      BY <1>1, <2>1, MovesFenced DEF ContentChanges
  <1>2. ASSUME NEW j \in Jobs, enqueueDueProjectMemorySchedules(j)
        PROVE  TypeOK' /\ FencedOutcomes'
    BY <1>2, EnqueueFenced
  <1>3. ASSUME NEW j \in Jobs, LeaseLapses(j) PROVE TypeOK' /\ FencedOutcomes'
    <2>1. TypeOK'
      BY <1>3 DEF LeaseLapses, TypeOK
    <2>2. FencedOutcomes'
      BY <1>3
      DEF LeaseLapses, FencedOutcomes, AttemptsWithinLimit, UntriedUntilClaimed,
          OnlyRunningOwned, BusyWithJob, ScansUnseen, ClaimedOnce, FormedFirst,
          OutcomesMatchRuns, At
    <2>3. QED
      BY <2>1, <2>2
  <1>4. ASSUME NEW w \in Workers, WorkerStep(w) PROVE TypeOK' /\ FencedOutcomes'
    BY <1>4, SweepFenced, ClaimFenced, ReadsFenced, FormsFenced, CompletesFenced, FailsFenced
    DEF WorkerStep
  <1>5. ASSUME NEW w \in Workers, formationThrows(w) PROVE TypeOK' /\ FencedOutcomes'
    BY <1>5, ThrowsFenced DEF formationThrows, At
  <1>6. ASSUME NEW w \in Workers, Crash(w) PROVE TypeOK' /\ FencedOutcomes'
    BY <1>6, AbandonFenced DEF Crash, Processes
  <1>7. ASSUME NEW r \in Requested, requestsScan(r) \/ scanCommits(r) \/ scanAborts(r)
        PROVE  TypeOK' /\ FencedOutcomes'
    BY <1>7, ScanReadsFenced, ScanCommitsFenced, AbandonFenced DEF scanAborts, Processes
  <1>8. CASE UNCHANGED vars
    <2>1. TypeOK'
      BY <1>8 DEF vars, TypeOK, jobVars
    <2>2. UNCHANGED <<runs, jobVars, process>>
      BY <1>8 DEF vars, jobVars
    <2>3. QED
      BY <2>1, <2>2, MovesFenced
  <1>9. QED
    BY <1>1, <1>2, <1>3, <1>4, <1>5, <1>6, <1>7, <1>8 DEF Next

-----------------------------------------------------------------------------
(* The theorems *)

\* Type correctness, and the fence: leases, attempts, captures and first
\* formations of digests agree, for any jobs, workers, digests and limits.
THEOREM FencedOutcomesHold == Spec => [](TypeOK /\ FencedOutcomes)
  <1>1. QED
    BY InitTypes, InitFenced, NextFenced, PTL DEF Spec

\* Every variable keeps its type: the jobs, workers, scans and capture runs.
THEOREM TypeCorrect == Spec => []TypeOK
  <1>1. QED
    BY FencedOutcomesHold, PTL

\* max_attempts bounds the claims of a job, with no bound on crashes.
THEOREM AttemptsWithinLimitHolds == Spec => []AttemptsWithinLimit
  <1>1. FencedOutcomes => AttemptsWithinLimit
    BY DEF FencedOutcomes
  <1>2. QED
    BY <1>1, FencedOutcomesHold, PTL

\* What a settled job reports is true of the capture runs, and no two jobs
\* claim the candidates of one digest.
THEOREM OutcomesMatchRunsHolds == Spec => []OutcomesMatchRuns
  <1>1. FencedOutcomes => OutcomesMatchRuns
    BY DEF FencedOutcomes
  <1>2. QED
    BY <1>1, FencedOutcomesHold, PTL

LEMMA NextSettled ==
  ASSUME TypeOK, FencedOutcomes, [Next]_vars, NEW j \in Jobs, Settled(status[j])
  PROVE  status'[j] = status[j] /\ capture'[j] = capture[j]
  <1>1. owner[j] = "null" /\ status[j] \notin {"none", "pending", "retrying", "running"}
    BY DEF Settled, FencedOutcomes, OnlyRunningOwned
  <1>2. j \notin Exhausted /\ j \notin Expired /\ ~Claimable(j)
    BY <1>1 DEF Exhausted, Expired, Claimable
  <1>3. ASSUME NEW w \in Workers, claims(w) PROVE status'[j] = status[j] /\ UNCHANGED capture
    BY <1>2, <1>3 DEF claims, SweptStatus
  <1>4. ASSUME NEW w \in Workers, sweepsWithoutClaim(w)
        PROVE  status'[j] = status[j] /\ UNCHANGED capture
    BY <1>2, <1>4 DEF sweepsWithoutClaim, SweptStatus
  <1>5. ASSUME NEW w \in Workers, NEW o, NEW d, Settle(w, o, d)
        PROVE  status'[j] = status[j] /\ capture'[j] = capture[j]
    BY <1>1, <1>5, WorkersOwn DEF Settle, TypeOK
  <1>6. ASSUME NEW r \in Requested, scanCommits(r)
        PROVE  status'[j] = status[j] /\ capture'[j] = capture[j]
    <2>1. status[r] = "none"
      BY <1>6 DEF scanCommits, FencedOutcomes, ScansUnseen, At
    <2>2. QED
      BY <1>1, <1>6, <2>1 DEF scanCommits, TypeOK
  <1>7. ASSUME NEW i \in Jobs, enqueueDueProjectMemorySchedules(i)
        PROVE  status'[j] = status[j] /\ capture'[j] = capture[j]
    BY <1>1, <1>7 DEF enqueueDueProjectMemorySchedules, TypeOK
  <1>8. QED
    BY <1>3, <1>4, <1>5, <1>6, <1>7
    DEF Next, WorkerStep, vars, jobVars, ContentChanges, LeaseLapses, formationReads,
        formationCommits, formationThrows, completes, fails, Crash, requestsScan, scanAborts

\* Settling is final, whoever comes late.
THEOREM SettledStaysSettledHolds == Spec => SettledStaysSettled
  <1>1. TypeOK /\ FencedOutcomes /\ [Next]_vars =>
          [\A j \in Jobs : Settled(status[j]) =>
              status'[j] = status[j] /\ capture'[j] = capture[j]]_vars
    BY NextSettled
  <1>2. QED
    BY <1>1, FencedOutcomesHold, PTL DEF Spec, SettledStaysSettled

-----------------------------------------------------------------------------
(* The jobs implement the ledger *)

Open(s) == s \in {"pending", "running", "retrying"}

OutcomeOf(s) == IF Open(s) THEN "open" ELSE s

Outcomes == [j \in Jobs |-> OutcomeOf(status[j])]

LEMMA LedgerStutters ==
  ASSUME UNCHANGED <<Outcomes, capture, runs>>
  PROVE  UNCHANGED Ledger!ledgerVars
  BY DEF Ledger!ledgerVars, Outcomes, OutcomeOf, Open

\* A sweep, with or without a claim, keeps open jobs open or buries them.
LEMMA LedgerBuries ==
  ASSUME UNCHANGED <<capture, runs>>,
         NEW bs \in SUBSET Jobs,
         \A j \in Jobs : IF j \in bs THEN Open(status[j]) /\ status'[j] = "dead-letter"
                         ELSE OutcomeOf(status'[j]) = OutcomeOf(status[j])
  PROVE  Ledger!Next \/ UNCHANGED Ledger!ledgerVars
  <1>1. Outcomes' = [j \in Jobs |-> IF j \in bs THEN "dead-letter" ELSE Outcomes[j]]
    BY DEF Outcomes, OutcomeOf, Open
  <1>2. CASE bs = {}
    <2>1. Outcomes' = Outcomes
      BY <1>1, <1>2 DEF Outcomes
    <2>2. QED
      BY <2>1, LedgerStutters
  <1>3. CASE bs # {}
    <2>1. \A j \in bs : Outcomes[j] = "open"
      BY DEF Outcomes, OutcomeOf
    <2>2. Ledger!Bury(bs)
      BY <1>1, <1>3, <2>1 DEF Ledger!Bury, Outcomes, OutcomeOf, Open
    <2>3. QED
      BY <2>2 DEF Ledger!Next
  <1>4. QED
    BY <1>2, <1>3

\* An outcome that is given, in the ledger's terms.
LEMMA LedgerGives ==
  ASSUME TypeOK, NEW j \in Jobs, NEW d \in Digests, NEW o \in {"completed", "no-signal"},
         o = "completed" => d \in Signals,
         o = "completed" => \A i \in Jobs : ~(status[i] = "completed" /\ capture[i] = d),
         status' = [status EXCEPT ![j] = o], capture' = [capture EXCEPT ![j] = d]
  PROVE  Ledger!Give(j, d, o)
  <1>1. Outcomes' = [Outcomes EXCEPT ![j] = o]
    BY DEF TypeOK, Outcomes, OutcomeOf, Open
  <1>2. \A i \in Jobs : Outcomes[i] = "completed" => status[i] = "completed"
    BY DEF Outcomes, OutcomeOf, Open
  <1>3. o = "completed" => Ledger!Unclaimed(d)
    BY <1>2 DEF Ledger!Unclaimed, Outcomes, OutcomeOf, Open
  <1>4. QED
    BY <1>1, <1>3 DEF Ledger!Give, Outcomes, OutcomeOf, Open

LEMMA LedgerSweeps ==
  ASSUME TypeOK, FencedOutcomes, NEW w \in Workers, sweepsWithoutClaim(w) \/ claims(w)
  PROVE  Ledger!Next \/ UNCHANGED Ledger!ledgerVars
  <1>1. UNCHANGED <<capture, runs>>
    BY DEF sweepsWithoutClaim, claims
  <1>2. \A j \in Jobs : IF j \in Exhausted THEN Open(status[j]) /\ SweptStatus(j) = "dead-letter"
                        ELSE OutcomeOf(SweptStatus(j)) = OutcomeOf(status[j])
    BY DEF SweptStatus, Exhausted, Expired, OutcomeOf, Open
  <1>3. Exhausted \in SUBSET Jobs
    BY DEF Exhausted
  <1>4. CASE sweepsWithoutClaim(w)
    <2>1. \A j \in Jobs : status'[j] = SweptStatus(j)
      BY <1>4 DEF sweepsWithoutClaim
    <2>2. QED
      BY <1>1, <1>2, <1>3, <2>1, LedgerBuries
  <1>5. CASE claims(w)
    <2>1. PICK k \in Jobs :
            Claimable(k) /\ status' = [i \in Jobs |-> IF i = k THEN "running" ELSE SweptStatus(i)]
      BY <1>5 DEF claims
    <2>2. k \notin Exhausted
      BY <2>1, QueueAssumption DEF Claimable, Exhausted, Expired, TypeOK
    <2>3. OutcomeOf(status'[k]) = OutcomeOf(status[k])
      BY <2>1, ClaimableUntried DEF OutcomeOf, Open
    <2>4. \A j \in Jobs : IF j \in Exhausted THEN Open(status[j]) /\ status'[j] = "dead-letter"
                          ELSE OutcomeOf(status'[j]) = OutcomeOf(status[j])
      BY <1>2, <2>1, <2>2, <2>3
    <2>5. QED
      BY <1>1, <1>3, <2>4, LedgerBuries
  <1>6. QED
    BY <1>4, <1>5

LEMMA LedgerForms ==
  ASSUME TypeOK, FencedOutcomes, NEW w \in Workers, formationCommits(w)
  PROVE  Ledger!Next \/ UNCHANGED Ledger!ledgerVars
  <1>1. PICK d \in Digests : d = process[w].digest
    BY DEF formationCommits, FencedOutcomes, BusyWithJob, At, Processes
  <1>2. UNCHANGED <<status, capture>> /\ (runs' = runs \/ runs' = runs \cup {d})
    BY <1>1 DEF formationCommits, jobVars
  <1>3. UNCHANGED <<Outcomes, capture>>
    BY <1>2 DEF Outcomes
  <1>4. CASE runs' = runs
    BY <1>3, <1>4, LedgerStutters
  <1>5. CASE runs' # runs
    <2>1. d \notin runs /\ runs' = runs \cup {d}
      BY <1>2, <1>5
    <2>2. Ledger!Capture(d)
      BY <1>3, <2>1 DEF Ledger!Capture, Outcomes, OutcomeOf, Open
    <2>3. QED
      BY <2>2 DEF Ledger!Next
  <1>6. QED
    BY <1>4, <1>5

\* A settlement that passes its fence finds a running job.
LEMMA SettlesRunning ==
  ASSUME FencedOutcomes, NEW w \in Workers, ~At(w, "idle"),
         owner[process[w].job] = WorkerId(w)
  PROVE  process[w].job \in Jobs /\ status[process[w].job] = "running"
  BY WorkersOwn DEF FencedOutcomes, BusyWithJob, OnlyRunningOwned, Processes

LEMMA LedgerCompletes ==
  ASSUME TypeOK, FencedOutcomes, NEW w \in Workers, completes(w)
  PROVE  Ledger!Next \/ UNCHANGED Ledger!ledgerVars
  <1>1. /\ At(w, "formed") /\ ~At(w, "idle") /\ w \in Processes /\ UNCHANGED runs
        /\ Settle(w, Outcome(process[w].digest, process[w].first), process[w].digest)
    BY DEF completes, At, Processes
  <1>2. CASE owner[process[w].job] # WorkerId(w)
    BY <1>1, <1>2, LedgerStutters DEF Settle, Outcomes
  <1>3. CASE owner[process[w].job] = WorkerId(w)
    <2>1. PICK j \in Jobs : j = process[w].job /\ status[j] = "running"
      BY <1>1, <1>3, SettlesRunning
    <2>2. PICK d \in Digests : d = process[w].digest /\ d \in runs
      BY <1>1 DEF FencedOutcomes, BusyWithJob, ClaimedOnce
    <2>3. PICK o \in {"completed", "no-signal"} : o = Outcome(d, process[w].first)
      BY DEF Outcome
    <2>4. status' = [status EXCEPT ![j] = o] /\ capture' = [capture EXCEPT ![j] = d]
      BY <1>1, <1>3, <2>1, <2>2, <2>3 DEF Settle
    <2>5. o = "completed" => d \in Signals /\ FormedFirst(w)
      BY <1>1, <2>3 DEF Outcome, FormedFirst
    <2>6. o = "completed" => \A i \in Jobs : ~(status[i] = "completed" /\ capture[i] = d)
      BY <1>1, <2>2, <2>5 DEF FencedOutcomes, ClaimedOnce
    <2>7. Ledger!Give(j, d, o)
      BY <2>4, <2>5, <2>6, LedgerGives
    <2>8. Outcomes[j] = "open"
      BY <2>1 DEF Outcomes, OutcomeOf, Open
    <2>9. Ledger!Report(j, d, o)
      BY <1>1, <2>2, <2>7, <2>8 DEF Ledger!Report, Outcomes, OutcomeOf, Open
    <2>10. QED
      BY <2>9 DEF Ledger!Next
  <1>4. QED
    BY <1>2, <1>3

LEMMA LedgerFails ==
  ASSUME TypeOK, FencedOutcomes, NEW w \in Workers, fails(w)
  PROVE  Ledger!Next \/ UNCHANGED Ledger!ledgerVars
  <1>1. ~At(w, "idle") /\ UNCHANGED runs
    BY DEF fails, At
  <1>2. CASE owner[process[w].job] # WorkerId(w)
    BY <1>1, <1>2, LedgerStutters DEF fails, Settle, Outcomes
  <1>3. CASE owner[process[w].job] = WorkerId(w)
    <2>1. PICK j \in Jobs : j = process[w].job /\ status[j] = "running"
      BY <1>1, <1>3, SettlesRunning
    <2>2. PICK o \in {"dead-letter", "retrying"} :
            status' = [status EXCEPT ![j] = o] /\ capture' = [capture EXCEPT ![j] = capture[j]]
      BY <1>3, <2>1 DEF fails, Settle
    <2>3. UNCHANGED capture
      BY <2>2 DEF TypeOK
    <2>4. \A i \in Jobs : status'[i] = IF i = j THEN o ELSE status[i]
      BY <2>2 DEF TypeOK
    <2>5. PICK bs \in SUBSET Jobs : bs = IF o = "dead-letter" THEN {j} ELSE {}
      OBVIOUS
    <2>6. \A i \in Jobs : IF i \in bs THEN Open(status[i]) /\ status'[i] = "dead-letter"
                          ELSE OutcomeOf(status'[i]) = OutcomeOf(status[i])
      BY <2>1, <2>4, <2>5 DEF OutcomeOf, Open
    <2>7. QED
      BY <1>1, <2>3, <2>6, LedgerBuries
  <1>4. QED
    BY <1>2, <1>3

LEMMA LedgerScans ==
  ASSUME TypeOK, FencedOutcomes, NEW r \in Requested, scanCommits(r)
  PROVE  Ledger!Next
  <1>1. r \in Processes /\ r \in Jobs /\ At(r, "reading")
    BY DEF scanCommits, Processes, Jobs
  <1>2. PICK d \in Digests : d = process[r].digest /\ status[r] = "none"
    BY <1>1 DEF FencedOutcomes, BusyWithJob, ScansUnseen, At
  <1>3. PICK o \in {"completed", "no-signal"} : o = Outcome(d, process[r].first)
    BY DEF Outcome
  <1>4. /\ ~(process[r].first /\ d \in runs) /\ runs' = runs \cup {d}
        /\ status' = [status EXCEPT ![r] = o] /\ capture' = [capture EXCEPT ![r] = d]
    BY <1>2, <1>3 DEF scanCommits
  <1>5. o = "completed" => d \in Signals /\ d \notin runs
    BY <1>3, <1>4 DEF Outcome
  <1>6. o = "completed" => \A i \in Jobs : ~(status[i] = "completed" /\ capture[i] = d)
    BY <1>5 DEF FencedOutcomes, OutcomesMatchRuns
  <1>7. Ledger!Give(r, d, o)
    BY <1>1, <1>4, <1>5, <1>6, LedgerGives
  <1>8. Outcomes[r] = "none"
    BY <1>1, <1>2 DEF Outcomes, OutcomeOf, Open
  <1>9. Ledger!Scan(r, d, o)
    BY <1>4, <1>5, <1>7, <1>8 DEF Ledger!Scan, Outcomes, OutcomeOf, Open
  <1>10. QED
    BY <1>1, <1>9 DEF Ledger!Next

LEMMA LedgerAsks ==
  ASSUME TypeOK, NEW j \in Jobs, enqueueDueProjectMemorySchedules(j)
  PROVE  Ledger!Next
  <1>1. Outcomes[j] = "none" /\ Outcomes' = [Outcomes EXCEPT ![j] = "open"]
    BY DEF enqueueDueProjectMemorySchedules, TypeOK, Outcomes, OutcomeOf, Open
  <1>2. Ledger!Ask(j)
    BY <1>1 DEF enqueueDueProjectMemorySchedules, Ledger!Ask, Outcomes, OutcomeOf, Open
  <1>3. QED
    BY <1>2 DEF Ledger!Next

LEMMA NextImplements ==
  TypeOK /\ FencedOutcomes /\ [Next]_vars => [Ledger!Next]_(Ledger!ledgerVars)
  <1> SUFFICES ASSUME TypeOK, FencedOutcomes, [Next]_vars
               PROVE  Ledger!Next \/ UNCHANGED Ledger!ledgerVars
    OBVIOUS
  <1>1. ASSUME UNCHANGED <<status, capture, runs>> PROVE UNCHANGED Ledger!ledgerVars
    BY <1>1, LedgerStutters DEF Outcomes
  <1>2. ASSUME NEW w \in Workers, formationReads(w) \/ formationThrows(w) \/ Crash(w)
        PROVE  UNCHANGED Ledger!ledgerVars
    BY <1>1, <1>2 DEF formationReads, formationThrows, Crash, jobVars
  <1>3. ASSUME NEW r \in Requested, requestsScan(r) \/ scanAborts(r)
        PROVE  UNCHANGED Ledger!ledgerVars
    BY <1>1, <1>3 DEF requestsScan, scanAborts, jobVars
  <1>4. ASSUME NEW j \in Jobs, LeaseLapses(j) PROVE UNCHANGED Ledger!ledgerVars
    BY <1>1, <1>4 DEF LeaseLapses
  <1>5. CASE ContentChanges \/ UNCHANGED vars
    BY <1>1, <1>5 DEF ContentChanges, vars, jobVars
  <1>6. QED
    BY <1>2, <1>3, <1>4, <1>5, LedgerSweeps, LedgerForms, LedgerCompletes, LedgerFails,
       LedgerScans, LedgerAsks
    DEF Next, WorkerStep

\* Every behaviour of the jobs is one of CaptureLedger: whatever dies, overruns
\* or is buried at work, each job is given one outcome and each content's
\* candidates go to one job.
THEOREM ImplementsCapturesHolds == Spec => ImplementsCaptures
  <1>1. Init => Ledger!Init
    BY DEF Init, Ledger!Init
  <1>2. QED
    BY <1>1, NextImplements, FencedOutcomesHold, PTL DEF Spec, ImplementsCaptures, Ledger!Spec

=============================================================================
