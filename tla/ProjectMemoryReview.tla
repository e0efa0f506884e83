------------------------ MODULE ProjectMemoryReview -------------------------
(***************************************************************************)
(* The memories of one project: formed as candidates from its content,     *)
(* approved, rejected or corrected by project leads, and delivered to      *)
(* members as kickoff precedent.                                           *)
(*                                                                         *)
(* A memory is identified by the hash of its statement in lower case, so   *)
(* two wordings that differ in case are one memory.  A review reads the    *)
(* memory without locking it and writes it later in the same transaction;  *)
(* other transactions may commit in between.  What a review writes is      *)
(* dated with now(), the start of its transaction, so the retained rows    *)
(* are in the order in which the reviews began and not in that of their    *)
(* commits.                                                                *)
(***************************************************************************)
EXTENDS Naturals, Sequences, FiniteSets

CONSTANTS
    Hashes,         \* statement hashes
    Limit,          \* candidates a formation keeps: 4
    Artifacts,      \* content resources of the project
    Reviews,        \* requests to reviewProjectMemory
    Kickoffs,       \* requests of one member to generateProjectKickoffPack
    MaxChanges,     \* bound: changes of the project's content
    MaxSyncs        \* bound: syncs of the host product's memberships

ASSUME ReviewAssumption ==
    /\ Reviews \cap Kickoffs = {}
    /\ MaxChanges \in Nat /\ MaxSyncs \in Nat

Says == Hashes \cup {"nothing"}
Digests == [Artifacts -> Says]

VARIABLES
    content,        \* content[a]: the statement artifact a makes, or "nothing"
    changes,        \* changes so far
    runs,           \* digests with a background capture run
    lifecycle,      \* organisational_memories.lifecycle_status, "none" without a row
    replacedBy,     \* superseded_by_memory_id, or "null"
    evidence,       \* evidence[h]: artifacts attached to the memory
    clock,          \* the time: beginnings and commits of reviews so far
    reviewedAt,     \* organisational_memories.reviewed_at, 0 if never
    log,            \* organisational_memory_reviews
    leads,          \* requests whose actor is an active project lead
    syncs,          \* membership syncs so far
    packs,          \* the member's kickoff_packs in commit order
    request         \* what each request is doing

vars == <<content, changes, runs, lifecycle, replacedBy, evidence, clock, reviewedAt,
          log, leads, syncs, packs, request>>

Lifecycle == {"none", "candidate", "active", "superseded", "rejected"}

\* created is created_at; committed is history, nothing retains it.
LogRows ==
    [memory: Hashes, decision: {"approved", "rejected", "corrected"},
     replacement: Hashes \cup {"null"}, created: Nat, committed: Nat]

Waiting == [pc |-> "waiting"]

TypeOK ==
    /\ content \in Digests
    /\ changes \in 0..MaxChanges
    /\ runs \subseteq Digests
    /\ lifecycle \in [Hashes -> Lifecycle]
    /\ replacedBy \in [Hashes -> Hashes \cup {"null"}]
    /\ evidence \in [Hashes -> SUBSET Artifacts]
    /\ clock \in Nat
    /\ reviewedAt \in [Hashes -> Nat]
    /\ log \subseteq LogRows
    /\ leads \subseteq Reviews
    /\ syncs \in 0..MaxSyncs
    /\ \A q \in Reviews \cup Kickoffs :
        request[q].pc \in {"waiting", "read", "superseding", "done"}

Init ==
    /\ content \in Digests
    /\ changes = 0
    /\ runs = {}
    /\ lifecycle = [h \in Hashes |-> "none"]
    /\ replacedBy = [h \in Hashes |-> "null"]
    /\ evidence = [h \in Hashes |-> {}]
    /\ clock = 0
    /\ reviewedAt = [h \in Hashes |-> 0]
    /\ log = {}
    /\ leads = Reviews
    /\ syncs = 0
    /\ packs = <<>>
    /\ request = [q \in Reviews \cup Kickoffs |-> Waiting]

memoryVars == <<lifecycle, replacedBy, evidence, reviewedAt>>
reviewVars == <<clock, log>>

-----------------------------------------------------------------------------
(* The host product *)

ContentChanges ==
    /\ changes < MaxChanges
    /\ changes' = changes + 1
    /\ \E a \in Artifacts, s \in Says : content' = [content EXCEPT ![a] = s]
    /\ UNCHANGED <<runs, memoryVars, reviewVars, leads, syncs, packs, request>>

\* Every membership is removed and those of the snapshot are written back.
syncHostProject ==
    /\ syncs < MaxSyncs
    /\ syncs' = syncs + 1
    /\ leads' \in SUBSET Reviews
    /\ UNCHANGED <<content, changes, runs, memoryVars, reviewVars, packs, request>>

-----------------------------------------------------------------------------
(* Formation *)

\* One candidate for every statement, attributed to one artifact that makes it.
Detected ==
    {[hash |-> content[a], artifact |-> CHOOSE b \in Artifacts : content[b] = content[a]] :
        a \in {b \in Artifacts : content[b] # "nothing"}}

\* Those of the highest quality, up to the limit; quality is left out, so any.
formProjectMemoryCandidates ==
    {kept \in SUBSET Detected :
        IF Cardinality(Detected) <= Limit THEN kept = Detected
        ELSE Cardinality(kept) = Limit}

\* A statement that has a memory, whatever became of it, keeps it and only
\* gains the evidence.
insertFormedCandidate(formed) ==
    /\ lifecycle' = [h \in Hashes |->
            IF lifecycle[h] = "none" /\ \E f \in formed : f.hash = h
            THEN "candidate" ELSE lifecycle[h]]
    /\ evidence' = [h \in Hashes |->
            evidence[h] \cup {f.artifact : f \in {g \in formed : g.hash = h}}]
    /\ UNCHANGED <<replacedBy, reviewedAt>>

executeBackgroundFormation ==
    /\ content \notin runs
    /\ runs' = runs \cup {content}
    /\ \E formed \in formProjectMemoryCandidates : insertFormedCandidate(formed)
    /\ UNCHANGED <<content, changes, reviewVars, leads, syncs, packs, request>>

-----------------------------------------------------------------------------
(* reviewProjectMemory *)

\* The transaction begins, and with it its now(); the guards, on a memory that
\* is not locked.
reviewReads(q) ==
    /\ q \in Reviews
    /\ request[q] = Waiting
    /\ q \in leads
    /\ clock' = clock + 1
    /\ \E h \in Hashes :
        /\ lifecycle[h] = "candidate"
        /\ request' = [request EXCEPT ![q] =
                [pc |-> "read", memory |-> h, now |-> clock + 1]]
    /\ UNCHANGED <<content, changes, runs, memoryVars, log, leads, syncs, packs>>

Done(q) == request' = [request EXCEPT ![q] = [pc |-> "done"]]

Record(h, decision, replacement, now) ==
    log' = log \cup {[memory |-> h, decision |-> decision, replacement |-> replacement,
                      created |-> now, committed |-> clock + 1]}

\* Mutant: the two status columns are mixed up.
approveByReviewStatus(h, now) ==
    /\ lifecycle' = [lifecycle EXCEPT ![h] = "approved"]
    /\ reviewedAt' = [reviewedAt EXCEPT ![h] = now]
    /\ Record(h, "approved", "null", now)
    /\ UNCHANGED <<replacedBy, evidence>>

\* Mutant: the update asks for a candidate, and nobody looks whether it found one.
approveIfCandidate(h, now) ==
    /\ IF lifecycle[h] = "candidate"
       THEN /\ lifecycle' = [lifecycle EXCEPT ![h] = "active"]
            /\ reviewedAt' = [reviewedAt EXCEPT ![h] = now]
       ELSE UNCHANGED <<lifecycle, reviewedAt>>
    /\ Record(h, "approved", "null", now)
    /\ UNCHANGED <<replacedBy, evidence>>

approve(h, now) ==
    /\ lifecycle' = [lifecycle EXCEPT ![h] = "active"]
    /\ reviewedAt' = [reviewedAt EXCEPT ![h] = now]
    /\ Record(h, "approved", "null", now)
    /\ UNCHANGED <<replacedBy, evidence>>

reject(h, now) ==
    /\ lifecycle' = [lifecycle EXCEPT ![h] = "rejected"]
    /\ reviewedAt' = [reviewedAt EXCEPT ![h] = now]
    /\ Record(h, "rejected", "null", now)
    /\ UNCHANGED <<replacedBy, evidence>>

\* The corrected statement differs from the memory's, but may differ in case
\* only, and then the replacement is the memory itself; and a statement that
\* has a memory already keeps that memory as it is.
correct(h, new, now) ==
    LET written == {h} \cup IF lifecycle[new] = "none" THEN {new} ELSE {}
    IN  /\ lifecycle' = [x \in Hashes |->
                IF x = h THEN "superseded"
                ELSE IF x \in written THEN "active" ELSE lifecycle[x]]
        /\ reviewedAt' = [x \in Hashes |-> IF x \in written THEN now ELSE reviewedAt[x]]
        /\ replacedBy' = [replacedBy EXCEPT ![h] = new]
        /\ evidence' = [evidence EXCEPT ![new] = @ \cup evidence[h]]
        /\ Record(h, "corrected", new, now)

reviewCommits(q) ==
    /\ q \in Reviews
    /\ request[q].pc = "read"
    /\ LET h == request[q].memory
           now == request[q].now
       IN  \/ approve(h, now)
           \/ reject(h, now)
           \/ \E new \in Hashes : correct(h, new, now)
    /\ clock' = clock + 1
    /\ Done(q)
    /\ UNCHANGED <<content, changes, runs, leads, syncs, packs>>

-----------------------------------------------------------------------------
(* generateProjectKickoffPack *)

\* Mutant: candidates are delivered with the approved.
DeliverableUnreviewed == {h \in Hashes : lifecycle[h] \in {"candidate", "active"}}

Deliverable == {h \in Hashes : lifecycle[h] = "active"}

kickoffReads(k) ==
    /\ k \in Kickoffs
    /\ request[k] = Waiting
    /\ request' = [request EXCEPT ![k] = [pc |-> "read", items |-> Deliverable]]
    /\ UNCHANGED <<content, changes, runs, memoryVars, reviewVars, leads, syncs, packs>>

\* The update that supersedes sees the packs committed before it.
kickoffSupersedes(k) ==
    /\ k \in Kickoffs
    /\ request[k].pc = "read"
    /\ request' = [request EXCEPT ![k] =
            [pc |-> "superseding", items |-> request[k].items, old |-> DOMAIN packs]]
    /\ UNCHANGED <<content, changes, runs, memoryVars, reviewVars, leads, syncs, packs>>

\* The trigger on kickoff_pack_items reads each memory again; one that is no
\* longer active and approved aborts the pack.
kickoffCommits(k) ==
    /\ k \in Kickoffs
    /\ request[k].pc = "superseding"
    /\ IF request[k].items \subseteq Deliverable
       THEN packs' = Append(
                [i \in DOMAIN packs |->
                    [packs[i] EXCEPT !.ready = @ /\ i \notin request[k].old]],
                [items |-> request[k].items, ready |-> TRUE])
       ELSE UNCHANGED packs
    /\ Done(k)
    /\ UNCHANGED <<content, changes, runs, memoryVars, reviewVars, leads, syncs>>

-----------------------------------------------------------------------------

Next ==
    \/ ContentChanges
    \/ syncHostProject
    \/ executeBackgroundFormation
    \/ \E q \in Reviews : reviewReads(q) \/ reviewCommits(q)
    \/ \E k \in Kickoffs :
        kickoffReads(k) \/ kickoffSupersedes(k) \/ kickoffCommits(k)

Spec == Init /\ [][Next]_vars

-----------------------------------------------------------------------------
(* Properties *)

ReviewsOf(h) == {r \in log : r.memory = h}

Corrections(h) == {r \in log : r.replacement = h}

Verdict(decision) ==
    CASE decision = "approved" -> "active"
      [] decision = "rejected" -> "rejected"
      [] decision = "corrected" -> "superseded"

\* The project page shows r with its memory: the last review by created_at.
IsShown(r) == \A s \in ReviewsOf(r.memory) : s.created <= r.created

\* The retained rows explain every memory.  Without a review it is a candidate or
\* what a correction wrote; with one, the review that the memory is dated with
\* is retained, and its verdict is the status.  The review shown has another
\* verdict only if a review that began before it committed after it; and all
\* reviews of one memory overlap, so none is ever reviewed anew after a verdict
\* could be seen.
ReviewLogExplainsStatus ==
    \A h \in Hashes :
        IF ReviewsOf(h) = {}
        THEN \/ lifecycle[h] \in {"none", "candidate"}
             \/ /\ lifecycle[h] = "active"
                /\ \E r \in Corrections(h) : r.created = reviewedAt[h]
        ELSE /\ \E r \in ReviewsOf(h) :
                    r.created = reviewedAt[h] /\ lifecycle[h] = Verdict(r.decision)
             /\ \A shown \in ReviewsOf(h) : IsShown(shown) =>
                    \/ lifecycle[h] = Verdict(shown.decision)
                    \/ \E r \in ReviewsOf(h) :
                        r.created < shown.created /\ shown.committed < r.committed
             /\ \A r, s \in ReviewsOf(h) : r.created < s.committed

\* What a pack delivered had been approved, or written by a correction, by a
\* lead, although packs are assembled while reviews go on.
PrecedentWasReviewed ==
    \A p \in DOMAIN packs : \A h \in packs[p].items :
        \/ \E r \in ReviewsOf(h) : r.decision = "approved"
        \/ Corrections(h) # {}

\* docs/project-memory-workflow.md:50 of the repository says that "Correction
\* creates a new approved Memory Resource".  It does where the corrected
\* statement has no memory; no run checks this, MCProjectMemoryReview_corrections
\* has TLC print a correction onto a memory that is there.
CorrectionCreatesApproved ==
    [][\A r \in log' \ log : r.decision = "corrected" =>
        lifecycle[r.replacement] = "none" /\ lifecycle'[r.replacement] = "active"]_vars

=============================================================================
