--------------------- MODULE ProjectMemoryReviewProofs ---------------------
(***************************************************************************)
(* Proofs of ProjectMemoryReview's invariants, for any statements,         *)
(* artifacts, requests and bounds.                                         *)
(*                                                                         *)
(* The status of a memory is only ever explained by its reviews together:  *)
(* a review writes it by id, whatever another review has made of the       *)
(* memory since it was read, and a correction may write two memories or    *)
(* one twice.  Rows are retained in the order in which reviews began and   *)
(* the status follows that of their commits, so the invariant has both: no *)
(* two reviews began at once, the status is that of the one committed last *)
(* (Explained), and none is committed that a review under way began after  *)
(* (ReadsDated).                                                           *)
(***************************************************************************)
EXTENDS ProjectMemoryReview, TLAPS

PackRows == [items: SUBSET Hashes, ready: BOOLEAN]

Typed ==
    /\ request = [q \in Reviews \cup Kickoffs |-> request[q]]
    /\ packs \in Seq(PackRows)

\* What a review has read has a row.
ReadExists ==
    \A q \in Reviews : request[q].pc = "read" =>
        request[q].memory \in Hashes /\ lifecycle[request[q].memory] # "none"

\* Nothing retained is from the future, and no two reviews began at once.
RowsDated ==
    \A r \in log :
        /\ r.created <= clock /\ r.committed <= clock
        /\ \A s \in log : s.created = r.created => s = r

\* A review under way began once no other did, and before any review of its
\* memory was committed.
ReadsDated ==
    \A q \in Reviews : request[q].pc = "read" =>
        /\ request[q].now \in Nat /\ request[q].now <= clock
        /\ \A r \in log :
            /\ r.created # request[q].now
            /\ r.memory = request[q].memory => request[q].now < r.committed
        /\ \A p \in Reviews \ {q} :
                request[p].pc = "read" => request[p].now # request[q].now

\* A memory with reviews has the verdict and the date of the last committed, and
\* all of them overlap.
Explains(h, last) ==
    /\ last.created = reviewedAt[h] /\ lifecycle[h] = Verdict(last.decision)
    /\ \A s \in ReviewsOf(h) \ {last} : s.committed < last.committed

Explained ==
    \A h \in Hashes :
        /\ ReviewsOf(h) = {} =>
            \/ lifecycle[h] \in {"none", "candidate"}
            \/ /\ lifecycle[h] = "active"
               /\ \E r \in Corrections(h) : r.created = reviewedAt[h]
        /\ ReviewsOf(h) # {} => \E last \in ReviewsOf(h) : Explains(h, last)
        /\ \A r, s \in ReviewsOf(h) : r.created < s.committed

\* Chains of corrections and later formations keep the attribution: a memory
\* rests on evidence.
MemoryIsAttributed ==
    \A h \in Hashes : lifecycle[h] # "none" => evidence[h] # {}

\* What was decided is never proposed again, nor deleted.
DecidedStaysDecided ==
    [][\A h \in Hashes :
        lifecycle[h] \notin {"none", "candidate"} =>
            lifecycle'[h] \notin {"none", "candidate"}]_vars

IInv ==
    /\ TypeOK /\ Typed /\ ReadExists
    /\ RowsDated /\ ReadsDated /\ Explained
    /\ PrecedentWasReviewed
    /\ MemoryIsAttributed

WasReviewed(h) ==
    \/ \E r \in ReviewsOf(h) : r.decision = "approved"
    \/ Corrections(h) # {}

-----------------------------------------------------------------------------

LEMMA VerdictKinds ==
    /\ Verdict("approved") = "active"
    /\ Verdict("rejected") = "rejected"
    /\ Verdict("corrected") = "superseded"
    BY DEF Verdict

LEMMA RowTypes ==
    ASSUME TypeOK, NEW r \in log
    PROVE  /\ r.memory \in Hashes /\ r.decision \in {"approved", "rejected", "corrected"}
           /\ r.created \in Nat /\ r.committed \in Nat
<1>1. r \in LogRows
    BY DEF TypeOK
<1> QED
    BY <1>1 DEF LogRows

\* A memory that was reviewed has been decided.
LEMMA ReviewedIsDecided ==
    ASSUME IInv, NEW h \in Hashes, ReviewsOf(h) # {}
    PROVE  lifecycle[h] \in {"active", "rejected", "superseded"}
<1>1. PICK r \in ReviewsOf(h) : lifecycle[h] = Verdict(r.decision)
    BY DEF IInv, Explained, Explains
<1>2. r.decision \in {"approved", "rejected", "corrected"}
    BY <1>1, RowTypes DEF IInv, ReviewsOf
<1> QED
    BY <1>1, <1>2, VerdictKinds

\* What is deliverable was reviewed.
LEMMA DeliverableWasReviewed ==
    ASSUME IInv, NEW h \in Deliverable
    PROVE  h \in Hashes /\ WasReviewed(h)
<1>1. h \in Hashes /\ lifecycle[h] = "active"
    BY DEF Deliverable
<1>2. CASE ReviewsOf(h) = {}
    BY <1>1, <1>2 DEF IInv, Explained, WasReviewed
<1>3. CASE ReviewsOf(h) # {}
  <2>1. PICK r \in ReviewsOf(h) : lifecycle[h] = Verdict(r.decision)
    BY <1>1, <1>3 DEF IInv, Explained, Explains
  <2>2. r.decision \in {"approved", "rejected", "corrected"}
    BY <2>1, RowTypes DEF IInv, ReviewsOf
  <2>3. r.decision = "approved"
    BY <1>1, <2>1, <2>2, VerdictKinds
  <2> QED
    BY <1>1, <2>3 DEF WasReviewed
<1> QED
    BY <1>2, <1>3

\* The review shown has the verdict of the last committed, or it began after
\* that one and committed before it.
LEMMA ExplainedIsShown ==
    ASSUME IInv
    PROVE  ReviewLogExplainsStatus
<1>1. ASSUME NEW h \in Hashes, ReviewsOf(h) # {}
      PROVE  /\ \E r \in ReviewsOf(h) :
                    r.created = reviewedAt[h] /\ lifecycle[h] = Verdict(r.decision)
             /\ \A shown \in ReviewsOf(h) : IsShown(shown) =>
                    \/ lifecycle[h] = Verdict(shown.decision)
                    \/ \E r \in ReviewsOf(h) :
                        r.created < shown.created /\ shown.committed < r.committed
  <2>1. PICK last \in ReviewsOf(h) : Explains(h, last)
    BY <1>1 DEF IInv, Explained
  <2>2. ASSUME NEW shown \in ReviewsOf(h), IsShown(shown), shown # last
        PROVE  last.created < shown.created /\ shown.committed < last.committed
    <3>1. shown \in log /\ last \in log /\ shown.memory = h
      BY DEF ReviewsOf
    <3>2. last.created <= shown.created
      BY <2>2, <3>1 DEF IsShown
    <3>3. last.created # shown.created
      BY <2>2, <3>1 DEF IInv, RowsDated
    <3>4. last.created \in Nat /\ shown.created \in Nat
      BY <3>1, RowTypes DEF IInv
    <3>5. shown.committed < last.committed
      BY <2>1, <2>2 DEF Explains
    <3> QED
      BY <3>2, <3>3, <3>4, <3>5
  <2> QED
    BY <2>1, <2>2 DEF Explains
<1>2. \A h \in Hashes : \A r, s \in ReviewsOf(h) : r.created < s.committed
    BY DEF IInv, Explained
<1>3. \A h \in Hashes : ReviewsOf(h) = {} =>
            \/ lifecycle[h] \in {"none", "candidate"}
            \/ /\ lifecycle[h] = "active"
               /\ \E r \in Corrections(h) : r.created = reviewedAt[h]
    BY DEF IInv, Explained
<1> QED
    BY <1>1, <1>2, <1>3 DEF ReviewLogExplainsStatus

\* A step that writes no memory and no review explains what was explained.
LEMMA MemoriesKept ==
    ASSUME IInv, UNCHANGED <<lifecycle, evidence, reviewedAt, log>>
    PROVE  Explained' /\ MemoryIsAttributed'
<1>1. MemoryIsAttributed'
    BY DEF IInv, MemoryIsAttributed
<1>2. \A h \in Hashes : ReviewsOf(h)' = ReviewsOf(h) /\ Corrections(h)' = Corrections(h)
    BY DEF ReviewsOf, Corrections
<1>3. \A h \in Hashes : \A last : Explains(h, last)' = Explains(h, last)
    BY <1>2 DEF Explains
<1>4. Explained
    BY DEF IInv
<1>5. Explained'
    BY <1>2, <1>3, <1>4 DEF Explained
<1> QED
    BY <1>1, <1>5

\* A step of nobody's review leaves the dates and what was read.
LEMMA DatesKept ==
    ASSUME IInv, UNCHANGED <<clock, log>>,
           \A q \in Reviews : request'[q] = request[q]
    PROVE  RowsDated' /\ ReadsDated'
    BY DEF IInv, RowsDated, ReadsDated

LEMMA PacksKept ==
    ASSUME IInv, UNCHANGED <<log, packs>>
    PROVE  PrecedentWasReviewed'
    BY DEF IInv, PrecedentWasReviewed, ReviewsOf, Corrections

-----------------------------------------------------------------------------

LEMMA HostStep ==
    ASSUME IInv, ContentChanges \/ syncHostProject
    PROVE  IInv'
<1>1. UNCHANGED <<runs, lifecycle, replacedBy, evidence, reviewedAt, clock, log, packs,
                  request>>
    BY DEF ContentChanges, syncHostProject, memoryVars, reviewVars
<1>2. /\ Explained' /\ MemoryIsAttributed' /\ PrecedentWasReviewed'
      /\ RowsDated' /\ ReadsDated'
    BY <1>1, MemoriesKept, PacksKept, DatesKept
<1>3. Typed' /\ ReadExists'
    BY <1>1 DEF IInv, Typed, ReadExists
<1>4. content' \in Digests /\ changes' \in 0..MaxChanges
  <2>1. CASE ContentChanges
    <3>1. PICK a \in Artifacts, s \in Says : content' = [content EXCEPT ![a] = s]
      BY <2>1 DEF ContentChanges
    <3>2. content' \in Digests
      BY <3>1 DEF IInv, TypeOK, Digests
    <3> QED
      BY <2>1, <3>2, ReviewAssumption DEF IInv, TypeOK, ContentChanges, Digests
  <2>2. CASE syncHostProject
    BY <2>2 DEF IInv, TypeOK, syncHostProject
  <2> QED
    BY <2>1, <2>2
<1>5. leads' \subseteq Reviews /\ syncs' \in 0..MaxSyncs
    BY ReviewAssumption DEF IInv, TypeOK, ContentChanges, syncHostProject
<1>6. TypeOK'
    BY <1>1, <1>4, <1>5 DEF IInv, TypeOK
<1> QED
    BY <1>2, <1>3, <1>6 DEF IInv

\* A statement without a row is a candidate now, with the artifact it is from.
LEMMA FormationStep ==
    ASSUME IInv, executeBackgroundFormation
    PROVE  IInv'
<1> DEFINE from(formed, h) == {f.artifact : f \in {g \in formed : g.hash = h}}
<1>1. PICK formed \in SUBSET Detected :
      /\ UNCHANGED <<content, changes, replacedBy, reviewedAt, clock, log, leads, syncs,
                     packs, request>>
      /\ runs' = runs \cup {content}
      /\ lifecycle' = [h \in Hashes |->
            IF lifecycle[h] = "none" /\ \E f \in formed : f.hash = h
            THEN "candidate" ELSE lifecycle[h]]
      /\ evidence' = [h \in Hashes |-> evidence[h] \cup from(formed, h)]
    BY DEF executeBackgroundFormation, insertFormedCandidate, reviewVars,
           formProjectMemoryCandidates
<1>2. \A f \in formed : f.artifact \in Artifacts
  <2>1. ASSUME NEW a \in Artifacts
        PROVE  (CHOOSE b \in Artifacts : content[b] = content[a]) \in Artifacts
    OBVIOUS
  <2> QED
    BY <2>1 DEF Detected
<1>3. /\ \A h \in Hashes : from(formed, h) \subseteq Artifacts
      /\ \A h \in Hashes : (\E f \in formed : f.hash = h) => from(formed, h) # {}
    BY <1>2
<1> HIDE DEF from
<1>4. TypeOK'
  <2>1. lifecycle' \in [Hashes -> Lifecycle]
    BY <1>1 DEF IInv, TypeOK, Lifecycle
  <2>2. evidence' \in [Hashes -> SUBSET Artifacts]
    BY <1>1, <1>3 DEF IInv, TypeOK
  <2>3. runs' \subseteq Digests
    BY <1>1 DEF IInv, TypeOK
  <2> QED
    BY <1>1, <2>1, <2>2, <2>3 DEF IInv, TypeOK
<1>5. Typed'
    BY <1>1 DEF IInv, Typed
<1>6. \A h \in Hashes :
        \/ lifecycle'[h] = lifecycle[h]
        \/ lifecycle[h] = "none" /\ lifecycle'[h] = "candidate" /\ from(formed, h) # {}
    BY <1>1, <1>3
<1>7. ReadExists'
    BY <1>1, <1>6 DEF IInv, ReadExists
<1>8. Explained'
  <2>1. \A h \in Hashes : ReviewsOf(h) # {} => lifecycle'[h] = lifecycle[h]
    BY <1>6, ReviewedIsDecided
  <2>2. \A h \in Hashes : ReviewsOf(h)' = ReviewsOf(h) /\ Corrections(h)' = Corrections(h)
    BY <1>1 DEF ReviewsOf, Corrections
  <2>3. \A h \in Hashes : ReviewsOf(h) # {} =>
            \A last : Explains(h, last)' = Explains(h, last)
    BY <1>1, <2>1, <2>2 DEF Explains
  <2>4. \A h \in Hashes : ReviewsOf(h) = {} =>
            \/ lifecycle'[h] \in {"none", "candidate"}
            \/ /\ lifecycle'[h] = "active"
               /\ \E r \in Corrections(h) : r.created = reviewedAt[h]
    BY <1>6 DEF IInv, Explained
  <2>5. Explained
    BY DEF IInv
  <2> QED
    BY <1>1, <2>2, <2>3, <2>4, <2>5 DEF Explained
<1>9. MemoryIsAttributed'
    BY <1>1, <1>6 DEF IInv, MemoryIsAttributed
<1>10. PrecedentWasReviewed' /\ RowsDated' /\ ReadsDated'
    BY <1>1, PacksKept, DatesKept
<1> QED
    BY <1>4, <1>5, <1>7, <1>8, <1>9, <1>10 DEF IInv

\* The memory read is a candidate, so it has no review yet; the time is new.
LEMMA ReviewReadsStep ==
    ASSUME IInv, NEW q \in Reviews, reviewReads(q)
    PROVE  IInv'
<1>1. PICK h \in Hashes :
        /\ lifecycle[h] = "candidate"
        /\ request' = [request EXCEPT ![q] =
                [pc |-> "read", memory |-> h, now |-> clock + 1]]
    BY DEF reviewReads
<1>2. /\ UNCHANGED <<content, changes, runs, lifecycle, replacedBy, evidence, reviewedAt,
                     log, leads, syncs, packs>>
      /\ clock' = clock + 1 /\ clock \in Nat
    BY DEF reviewReads, memoryVars, IInv, TypeOK
<1>3. /\ request'[q] = [pc |-> "read", memory |-> h, now |-> clock + 1]
      /\ \A r \in (Reviews \cup Kickoffs) \ {q} : request'[r] = request[r]
      /\ request' = [r \in Reviews \cup Kickoffs |-> request'[r]]
    BY <1>1 DEF IInv, Typed
<1>4. TypeOK'
  <2>1. \A r \in Reviews \cup Kickoffs :
            request'[r].pc \in {"waiting", "read", "superseding", "done"}
    BY <1>3 DEF IInv, TypeOK
  <2> QED
    BY <1>2, <2>1 DEF IInv, TypeOK
<1>5. Typed'
    BY <1>2, <1>3 DEF IInv, Typed
<1>6. ReadExists'
  <2>1. ASSUME NEW r \in Reviews, request'[r].pc = "read"
        PROVE  request'[r].memory \in Hashes /\ lifecycle[request'[r].memory] # "none"
    <3>1. CASE r = q
      BY <1>1, <1>3, <3>1
    <3>2. CASE r # q
      BY <1>3, <2>1, <3>2 DEF IInv, ReadExists
    <3> QED
      BY <3>1, <3>2
  <2> QED
    BY <1>2, <2>1 DEF ReadExists
<1>7. \A r \in log :
        /\ r.created \in Nat /\ r.created <= clock
        /\ r.committed \in Nat /\ r.committed <= clock
    BY RowTypes DEF IInv, RowsDated
<1>8. RowsDated'
    BY <1>2, <1>7 DEF IInv, RowsDated
<1>9. ReadsDated'
  <2>1. ReviewsOf(h) = {}
    BY <1>1, ReviewedIsDecided
  <2>2. \A p \in Reviews \ {q} : request[p].pc = "read" =>
            request[p].now \in Nat /\ request[p].now <= clock
    BY DEF IInv, ReadsDated
  <2>3. ASSUME NEW p \in Reviews, request'[p].pc = "read"
        PROVE  /\ request'[p].now \in Nat /\ request'[p].now <= clock'
               /\ \A r \in log :
                    /\ r.created # request'[p].now
                    /\ r.memory = request'[p].memory => request'[p].now < r.committed
               /\ \A o \in Reviews \ {p} :
                    request'[o].pc = "read" => request'[o].now # request'[p].now
    <3>1. CASE p = q
      <4>1. request'[p].now = clock + 1 /\ request'[p].memory = h
        BY <1>3, <3>1
      <4>2. \A o \in Reviews \ {p} : request'[o] = request[o]
        BY <1>3, <3>1
      <4>3. \A r \in log : r.created # clock + 1 /\ r.memory # h
        BY <1>2, <1>7, <2>1 DEF ReviewsOf
      <4>4. \A o \in Reviews \ {p} : request[o].pc = "read" => request[o].now # clock + 1
        BY <1>2, <2>2, <3>1
      <4> QED
        BY <1>2, <4>1, <4>2, <4>3, <4>4
    <3>2. CASE p # q
      <4>1. request'[p] = request[p] /\ request[p].pc = "read"
        BY <1>3, <2>3, <3>2
      <4>2. request[p].now \in Nat /\ request[p].now <= clock
        BY <2>2, <3>2, <4>1
      <4>3. ASSUME NEW o \in Reviews \ {p}, request'[o].pc = "read"
            PROVE  request'[o].now # request[p].now
        <5>1. CASE o = q
          BY <1>2, <1>3, <4>2, <5>1
        <5>2. CASE o # q
          BY <1>3, <4>1, <4>3, <5>2 DEF IInv, ReadsDated
        <5> QED
          BY <5>1, <5>2
      <4>4. \A r \in log :
                /\ r.created # request[p].now
                /\ r.memory = request[p].memory => request[p].now < r.committed
        BY <4>1 DEF IInv, ReadsDated
      <4>5. request[p].now <= clock'
        BY <1>2, <4>2
      <4> QED
        BY <4>1, <4>2, <4>3, <4>4, <4>5
    <3> QED
      BY <3>1, <3>2
  <2> QED
    BY <1>2, <2>3 DEF ReadsDated
<1>10. Explained' /\ MemoryIsAttributed' /\ PrecedentWasReviewed'
    BY <1>2, MemoriesKept, PacksKept
<1> QED
    BY <1>4, <1>5, <1>6, <1>8, <1>9, <1>10 DEF IInv

\* What the three forms of a review of h write: its row and verdict, and to a
\* memory that had none if they correct.
Writes(h, now, row) ==
    /\ row.memory = h /\ row.created = now /\ row.committed = clock + 1
    /\ log' = log \cup {row}
    /\ lifecycle' \in [Hashes -> Lifecycle]
    /\ reviewedAt' \in [Hashes -> Nat]
    /\ lifecycle'[h] = Verdict(row.decision) /\ reviewedAt'[h] = now
    /\ \A x \in Hashes \ {h} :
        \/ lifecycle'[x] = lifecycle[x] /\ reviewedAt'[x] = reviewedAt[x]
        \/ /\ row.replacement = x
           /\ lifecycle[x] = "none" /\ lifecycle'[x] = "active"
           /\ reviewedAt'[x] = now /\ evidence[h] \subseteq evidence'[x]
    /\ replacedBy' \in [Hashes -> Hashes \cup {"null"}]
    /\ evidence' \in [Hashes -> SUBSET Artifacts]
    /\ \A x \in Hashes : evidence[x] \subseteq evidence'[x]

LEMMA ReviewWrites ==
    ASSUME IInv, NEW h \in Hashes, NEW now \in Nat,
           approve(h, now) \/ reject(h, now) \/ \E new \in Hashes : correct(h, new, now)
    PROVE  \E row \in LogRows : Writes(h, now, row)
<1>1. /\ lifecycle \in [Hashes -> Lifecycle] /\ evidence \in [Hashes -> SUBSET Artifacts]
      /\ replacedBy \in [Hashes -> Hashes \cup {"null"}]
      /\ reviewedAt \in [Hashes -> Nat] /\ clock \in Nat
    BY DEF IInv, TypeOK
<1>2. CASE approve(h, now)
  <2> DEFINE row == [memory |-> h, decision |-> "approved", replacement |-> "null",
                     created |-> now, committed |-> clock + 1]
  <2>1. /\ row \in LogRows /\ row.memory = h /\ row.decision = "approved"
        /\ row.created = now /\ row.committed = clock + 1
    BY <1>1 DEF LogRows
  <2>2. log' = log \cup {row}
    BY <1>2 DEF approve, Record
  <2> HIDE DEF row
  <2>3. /\ lifecycle' \in [Hashes -> Lifecycle] /\ lifecycle'[h] = "active"
        /\ reviewedAt' \in [Hashes -> Nat] /\ reviewedAt'[h] = now
        /\ \A x \in Hashes \ {h} :
            lifecycle'[x] = lifecycle[x] /\ reviewedAt'[x] = reviewedAt[x]
        /\ UNCHANGED <<replacedBy, evidence>>
    BY <1>1, <1>2 DEF approve, Lifecycle
  <2> QED
    BY <1>1, <2>1, <2>2, <2>3, VerdictKinds DEF Writes
<1>3. CASE reject(h, now)
  <2> DEFINE row == [memory |-> h, decision |-> "rejected", replacement |-> "null",
                     created |-> now, committed |-> clock + 1]
  <2>1. /\ row \in LogRows /\ row.memory = h /\ row.decision = "rejected"
        /\ row.created = now /\ row.committed = clock + 1
    BY <1>1 DEF LogRows
  <2>2. log' = log \cup {row}
    BY <1>3 DEF reject, Record
  <2> HIDE DEF row
  <2>3. /\ lifecycle' \in [Hashes -> Lifecycle] /\ lifecycle'[h] = "rejected"
        /\ reviewedAt' \in [Hashes -> Nat] /\ reviewedAt'[h] = now
        /\ \A x \in Hashes \ {h} :
            lifecycle'[x] = lifecycle[x] /\ reviewedAt'[x] = reviewedAt[x]
        /\ UNCHANGED <<replacedBy, evidence>>
    BY <1>1, <1>3 DEF reject, Lifecycle
  <2> QED
    BY <1>1, <2>1, <2>2, <2>3, VerdictKinds DEF Writes
<1>4. ASSUME NEW new \in Hashes, correct(h, new, now)
      PROVE  \E row \in LogRows : Writes(h, now, row)
  <2> DEFINE row == [memory |-> h, decision |-> "corrected", replacement |-> new,
                     created |-> now, committed |-> clock + 1]
  <2>1. /\ row \in LogRows /\ row.memory = h /\ row.decision = "corrected"
        /\ row.replacement = new /\ row.created = now /\ row.committed = clock + 1
    BY <1>1 DEF LogRows
  <2>2. log' = log \cup {row}
    BY <1>4 DEF correct, Record
  <2> HIDE DEF row
  <2>3. /\ lifecycle' \in [Hashes -> Lifecycle] /\ lifecycle'[h] = "superseded"
        /\ reviewedAt' \in [Hashes -> Nat] /\ reviewedAt'[h] = now
        /\ \A x \in Hashes \ {h} :
            \/ lifecycle'[x] = lifecycle[x] /\ reviewedAt'[x] = reviewedAt[x]
            \/ /\ x = new /\ lifecycle[x] = "none" /\ lifecycle'[x] = "active"
               /\ reviewedAt'[x] = now
    BY <1>1, <1>4 DEF correct, Lifecycle
  <2>4. replacedBy' \in [Hashes -> Hashes \cup {"null"}]
    BY <1>1, <1>4 DEF correct
  <2>5. /\ evidence' \in [Hashes -> SUBSET Artifacts]
        /\ \A x \in Hashes : evidence[x] \subseteq evidence'[x]
        /\ evidence[h] \subseteq evidence'[new]
    BY <1>1, <1>4 DEF correct
  <2> QED
    BY <2>1, <2>2, <2>3, <2>4, <2>5, VerdictKinds DEF Writes
<1> QED
    BY <1>2, <1>3, <1>4

\* The review commits now, after every other; that it began before they did so is
\* what it has remembered.
LEMMA ReviewCommitsStep ==
    ASSUME IInv, NEW q \in Reviews, reviewCommits(q)
    PROVE  IInv'
<1>0. request[q].pc = "read"
    BY DEF reviewCommits
<1>1. PICK h \in Hashes : h = request[q].memory /\ lifecycle[h] # "none"
    BY <1>0 DEF IInv, ReadExists
<1>2. PICK now \in Nat :
        /\ now = request[q].now /\ now <= clock
        /\ \A r \in log : r.created # now
        /\ \A s \in ReviewsOf(h) : now < s.committed
        /\ \A p \in Reviews \ {q} : request[p].pc = "read" => request[p].now # now
    BY <1>0, <1>1 DEF IInv, ReadsDated, ReviewsOf
<1>3. /\ approve(h, now) \/ reject(h, now) \/ \E new \in Hashes : correct(h, new, now)
      /\ request' = [request EXCEPT ![q] = [pc |-> "done"]]
      /\ clock' = clock + 1 /\ clock \in Nat
      /\ UNCHANGED <<content, changes, runs, leads, syncs, packs>>
    BY <1>1, <1>2 DEF reviewCommits, Done, IInv, TypeOK
<1>4. PICK row \in LogRows : Writes(h, now, row)
    BY <1>3, ReviewWrites
<1>5. /\ request'[q] = [pc |-> "done"]
      /\ \A r \in (Reviews \cup Kickoffs) \ {q} : request'[r] = request[r]
      /\ request' = [r \in Reviews \cup Kickoffs |-> request'[r]]
    BY <1>3 DEF IInv, Typed
<1>6. /\ log' = log \cup {row} /\ row.memory = h
      /\ row.created = now /\ row.committed = clock + 1
    BY <1>4 DEF Writes
<1>7. \A r \in log :
        /\ r.created \in Nat /\ r.created <= clock
        /\ r.committed \in Nat /\ r.committed <= clock
    BY RowTypes DEF IInv, RowsDated
<1>8. TypeOK'
  <2>1. \A r \in Reviews \cup Kickoffs :
            request'[r].pc \in {"waiting", "read", "superseding", "done"}
    BY <1>5 DEF IInv, TypeOK
  <2>2. log' \subseteq LogRows /\ clock' \in Nat
    BY <1>3, <1>6 DEF IInv, TypeOK
  <2> QED
    BY <1>3, <1>4, <2>1, <2>2 DEF IInv, TypeOK, Writes
<1>9. Typed'
    BY <1>3, <1>5 DEF IInv, Typed
<1>10. ReadExists'
  <2>1. row.decision \in {"approved", "rejected", "corrected"}
    BY DEF LogRows
  <2>2. \A x \in Hashes : lifecycle[x] # "none" => lifecycle'[x] # "none"
    BY <1>4, <2>1, VerdictKinds DEF Writes
  <2> QED
    BY <1>5, <2>2 DEF IInv, ReadExists
<1>11. /\ ReviewsOf(h)' = ReviewsOf(h) \cup {row}
       /\ \A x : x # h => ReviewsOf(x)' = ReviewsOf(x)
       /\ \A x : Corrections(x) \subseteq Corrections(x)'
       /\ \A x : row.replacement = x => row \in Corrections(x)'
    BY <1>6 DEF ReviewsOf, Corrections
<1>12. RowsDated'
  <2>1. \A r \in log : \A s \in log : s.created = r.created => s = r
    BY DEF IInv, RowsDated
  <2>2. \A r \in log' :
            /\ r.created <= clock' /\ r.committed <= clock'
            /\ \A s \in log' : s.created = r.created => s = r
    BY <1>2, <1>3, <1>6, <1>7, <2>1
  <2> QED
    BY <2>2 DEF RowsDated
<1>13. ReadsDated'
  <2>1. ASSUME NEW p \in Reviews, request'[p].pc = "read"
        PROVE  /\ request'[p].now \in Nat /\ request'[p].now <= clock'
               /\ \A r \in log' :
                    /\ r.created # request'[p].now
                    /\ r.memory = request'[p].memory => request'[p].now < r.committed
               /\ \A o \in Reviews \ {p} :
                    request'[o].pc = "read" => request'[o].now # request'[p].now
    <3>1. p # q /\ request'[p] = request[p] /\ request[p].pc = "read"
      BY <1>5, <2>1
    <3>2. /\ request[p].now \in Nat /\ request[p].now <= clock
          /\ \A r \in log :
                /\ r.created # request[p].now
                /\ r.memory = request[p].memory => request[p].now < r.committed
          /\ \A o \in Reviews \ {p} :
                request[o].pc = "read" => request[o].now # request[p].now
      BY <3>1 DEF IInv, ReadsDated
    <3>3. request[p].now # now
      BY <1>2, <3>1
    <3>4. request[p].now < clock + 1 /\ request[p].now <= clock'
      BY <1>3, <3>2
    <3>5. \A r \in log' :
            /\ r.created # request[p].now
            /\ r.memory = request[p].memory => request[p].now < r.committed
      BY <1>6, <3>2, <3>3, <3>4
    <3>6. \A o \in Reviews \ {p} :
            request'[o].pc = "read" => request'[o].now # request[p].now
      BY <1>5, <3>2
    <3> QED
      BY <3>1, <3>2, <3>4, <3>5, <3>6
  <2> QED
    BY <2>1 DEF ReadsDated
<1>14. Explained'
  <2>1. ASSUME NEW x \in Hashes
        PROVE  /\ ReviewsOf(x)' = {} =>
                    \/ lifecycle'[x] \in {"none", "candidate"}
                    \/ /\ lifecycle'[x] = "active"
                       /\ \E r \in Corrections(x)' : r.created = reviewedAt'[x]
               /\ ReviewsOf(x)' # {} => \E last \in ReviewsOf(x)' : Explains(x, last)'
               /\ \A r, s \in ReviewsOf(x)' : r.created < s.committed
    <3>1. /\ \A s \in ReviewsOf(x) : s \in log
          /\ \A r, s \in ReviewsOf(x) : r.created < s.committed
      BY DEF IInv, Explained, ReviewsOf
    <3>2. CASE x = h
      <4>1. row.created = reviewedAt'[h] /\ lifecycle'[h] = Verdict(row.decision)
        BY <1>4 DEF Writes
      <4>2. \A s \in ReviewsOf(h)' \ {row} : s.committed < row.committed
        BY <1>3, <1>6, <1>7, <1>11, <3>1, <3>2
      <4>3. row \in ReviewsOf(h)' /\ Explains(h, row)'
        BY <1>11, <4>1, <4>2 DEF Explains
      <4>4. \A r, s \in ReviewsOf(h)' : r.created < s.committed
        BY <1>2, <1>3, <1>6, <1>7, <1>11, <3>1, <3>2
      <4> QED
        BY <3>2, <4>3, <4>4
    <3>3. CASE x # h /\ lifecycle'[x] = lifecycle[x] /\ reviewedAt'[x] = reviewedAt[x]
      <4>1. ReviewsOf(x)' = ReviewsOf(x) /\ Corrections(x) \subseteq Corrections(x)'
        BY <1>11, <3>3
      <4>2. \A last : Explains(x, last)' = Explains(x, last)
        BY <3>3, <4>1 DEF Explains
      <4> QED
        BY <3>3, <4>1, <4>2 DEF IInv, Explained
    <3>4. CASE x # h /\ ~(lifecycle'[x] = lifecycle[x] /\ reviewedAt'[x] = reviewedAt[x])
      <4>1. /\ row.replacement = x /\ lifecycle[x] = "none" /\ lifecycle'[x] = "active"
            /\ reviewedAt'[x] = now
        BY <1>4, <3>4 DEF Writes
      <4>2. ReviewsOf(x)' = {}
        BY <1>11, <3>4, <4>1, ReviewedIsDecided
      <4> QED
        BY <1>6, <1>11, <4>1, <4>2
    <3> QED
      BY <3>2, <3>3, <3>4
  <2> QED
    BY <2>1 DEF Explained
<1>15. PrecedentWasReviewed'
  <2>1. ASSUME NEW p \in DOMAIN packs, NEW x \in packs[p].items
        PROVE  WasReviewed(x)'
    <3>1. WasReviewed(x)
      BY DEF IInv, PrecedentWasReviewed, WasReviewed
    <3>2. ReviewsOf(x) \subseteq ReviewsOf(x)' /\ Corrections(x) \subseteq Corrections(x)'
      BY <1>11
    <3> QED
      BY <3>1, <3>2 DEF WasReviewed
  <2> QED
    BY <1>3, <2>1 DEF PrecedentWasReviewed, WasReviewed
<1>16. MemoryIsAttributed'
  <2>1. evidence[h] # {}
    BY <1>1 DEF IInv, MemoryIsAttributed
  <2>2. ASSUME NEW x \in Hashes, lifecycle'[x] # "none"
        PROVE  evidence'[x] # {}
    <3>1. CASE x = h
      BY <1>4, <2>1, <3>1 DEF Writes
    <3>2. CASE x # h /\ lifecycle'[x] = lifecycle[x]
      <4>1. evidence[x] # {}
        BY <2>2, <3>2 DEF IInv, MemoryIsAttributed
      <4> QED
        BY <1>4, <4>1 DEF Writes
    <3>3. CASE x # h /\ lifecycle'[x] # lifecycle[x]
      BY <1>4, <2>1, <3>3 DEF Writes
    <3> QED
      BY <3>1, <3>2, <3>3
  <2> QED
    BY <2>2 DEF MemoryIsAttributed
<1> QED
    BY <1>8, <1>9, <1>10, <1>12, <1>13, <1>14, <1>15, <1>16 DEF IInv

\* A pack in the making touches its own request only.
LEMMA KickoffReadsStep ==
    ASSUME IInv, NEW k \in Kickoffs, kickoffReads(k) \/ kickoffSupersedes(k)
    PROVE  IInv'
<1>1. /\ UNCHANGED <<content, changes, runs, lifecycle, replacedBy, evidence, reviewedAt,
                     clock, log, leads, syncs, packs>>
      /\ \A r \in (Reviews \cup Kickoffs) \ {k} : request'[r] = request[r]
      /\ request' = [r \in Reviews \cup Kickoffs |-> request'[r]]
      /\ request'[k].pc \in {"read", "superseding"}
  <2> USE DEF IInv, Typed
  <2>1. CASE kickoffReads(k)
    BY <2>1 DEF kickoffReads, memoryVars, reviewVars
  <2>2. CASE kickoffSupersedes(k)
    BY <2>2 DEF kickoffSupersedes, memoryVars, reviewVars
  <2> QED
    BY <2>1, <2>2
<1>2. \A q \in Reviews : request'[q] = request[q]
    BY <1>1, ReviewAssumption
<1>3. TypeOK'
  <2>1. \A r \in Reviews \cup Kickoffs :
            request'[r].pc \in {"waiting", "read", "superseding", "done"}
    BY <1>1 DEF IInv, TypeOK
  <2> QED
    BY <1>1, <2>1 DEF IInv, TypeOK
<1>4. Typed' /\ ReadExists'
    BY <1>1, <1>2 DEF IInv, Typed, ReadExists
<1>5. /\ Explained' /\ MemoryIsAttributed' /\ PrecedentWasReviewed'
      /\ RowsDated' /\ ReadsDated'
    BY <1>1, <1>2, MemoriesKept, PacksKept, DatesKept
<1> QED
    BY <1>3, <1>4, <1>5 DEF IInv

\* The trigger's second look: what the pack delivers is deliverable now.
LEMMA KickoffCommitsStep ==
    ASSUME IInv, NEW k \in Kickoffs, kickoffCommits(k)
    PROVE  IInv'
<1> DEFINE items == request[k].items
           L == Len(packs)
<1>1. /\ UNCHANGED <<content, changes, runs, lifecycle, replacedBy, evidence, reviewedAt,
                     clock, log, leads, syncs>>
      /\ request' = [request EXCEPT ![k] = [pc |-> "done"]]
    BY DEF kickoffCommits, memoryVars, reviewVars, Done
<1>3. /\ request'[k] = [pc |-> "done"]
      /\ \A r \in (Reviews \cup Kickoffs) \ {k} : request'[r] = request[r]
      /\ request' = [r \in Reviews \cup Kickoffs |-> request'[r]]
    BY <1>1 DEF IInv, Typed
<1>4. \A q \in Reviews : request'[q] = request[q]
    BY <1>3, ReviewAssumption
<1>5. TypeOK'
  <2>1. \A r \in Reviews \cup Kickoffs :
            request'[r].pc \in {"waiting", "read", "superseding", "done"}
    BY <1>3 DEF IInv, TypeOK
  <2> QED
    BY <1>1, <2>1 DEF IInv, TypeOK
<1>6. packs' \in Seq(PackRows) /\ PrecedentWasReviewed'
  <2>1. CASE ~(items \subseteq Deliverable)
    <3>1. packs' = packs
      BY <2>1 DEF kickoffCommits
    <3> QED
      BY <1>1, <3>1, PacksKept DEF IInv, Typed
  <2>2. CASE items \subseteq Deliverable
    <3> DEFINE kept == [i \in DOMAIN packs |->
                    [packs[i] EXCEPT !.ready = @ /\ i \notin request[k].old]]
               pack == [items |-> items, ready |-> TRUE]
    <3>1. packs' = Append(kept, pack)
      BY <2>2 DEF kickoffCommits
    <3>2. /\ packs \in Seq(PackRows) /\ L \in Nat /\ DOMAIN packs = 1..L
      BY DEF IInv, Typed
    <3>3. \A i \in 1..L : kept[i] \in PackRows /\ kept[i].items = packs[i].items
      <4> TAKE i \in 1..L
      <4>1. packs[i] \in PackRows
        BY <3>2
      <4>2. kept[i] = [packs[i] EXCEPT !.ready = @ /\ i \notin request[k].old]
        BY <3>2
      <4> QED
        BY <4>1, <4>2 DEF PackRows
    <3>4. kept \in Seq(PackRows) /\ Len(kept) = L
      BY <3>2, <3>3
    <3>5. pack \in PackRows /\ pack.items = items
      BY <2>2 DEF PackRows, Deliverable
    <3> HIDE DEF kept, pack
    <3>6. /\ packs' \in Seq(PackRows) /\ DOMAIN packs' = 1..(L + 1)
          /\ packs'[L + 1] = pack /\ \A i \in 1..L : packs'[i] = kept[i]
      BY <3>1, <3>2, <3>4, <3>5
    <3>7. ASSUME NEW p \in 1..(L + 1), NEW h \in packs'[p].items
          PROVE  WasReviewed(h)
      <4>1. CASE p = L + 1
        BY <2>2, <3>5, <3>6, <3>7, <4>1, DeliverableWasReviewed
      <4>2. CASE p \in 1..L
        BY <3>2, <3>3, <3>6, <3>7, <4>2 DEF IInv, PrecedentWasReviewed, WasReviewed
      <4> QED
        BY <3>2, <4>1, <4>2
    <3> QED
      BY <1>1, <3>6, <3>7
         DEF PrecedentWasReviewed, WasReviewed, ReviewsOf, Corrections
  <2> QED
    BY <2>1, <2>2
<1>7. Typed' /\ ReadExists'
    BY <1>1, <1>3, <1>4, <1>6 DEF IInv, Typed, ReadExists
<1>8. Explained' /\ MemoryIsAttributed' /\ RowsDated' /\ ReadsDated'
    BY <1>1, <1>4, MemoriesKept, DatesKept
<1> QED
    BY <1>5, <1>6, <1>7, <1>8 DEF IInv

-----------------------------------------------------------------------------

LEMMA InitIInv == Init => IInv
<1> SUFFICES ASSUME Init PROVE IInv
    OBVIOUS
<1>1. TypeOK
    BY ReviewAssumption DEF Init, TypeOK, Lifecycle, Waiting
<1>2. Typed
    BY DEF Init, Typed
<1>3. ReadExists
    BY DEF Init, ReadExists, Waiting
<1>4. Explained /\ PrecedentWasReviewed /\ MemoryIsAttributed
    BY DEF Init, Explained, PrecedentWasReviewed, MemoryIsAttributed, ReviewsOf
<1>5. RowsDated /\ ReadsDated
    BY DEF Init, RowsDated, ReadsDated, Waiting
<1> QED
    BY <1>1, <1>2, <1>3, <1>4, <1>5 DEF IInv

LEMMA StutterStep == IInv /\ UNCHANGED vars => IInv'
<1> SUFFICES ASSUME IInv, UNCHANGED vars PROVE IInv'
    OBVIOUS
<1>1. /\ Explained' /\ MemoryIsAttributed' /\ PrecedentWasReviewed'
      /\ RowsDated' /\ ReadsDated'
    BY MemoriesKept, PacksKept, DatesKept DEF vars
<1> QED
    BY <1>1 DEF vars, IInv, TypeOK, Typed, ReadExists

LEMMA NextIInv == IInv /\ [Next]_vars => IInv'
    BY HostStep, FormationStep, ReviewReadsStep, ReviewCommitsStep, KickoffReadsStep,
       KickoffCommitsStep, StutterStep DEF Next

\* The inductive invariant holds in every state of every behaviour.
THEOREM ReviewInvariant == Spec => []IInv
    BY InitIInv, NextIInv, PTL DEF Spec

\* Every variable keeps its type.
THEOREM TypeCorrect == Spec => []TypeOK
<1>1. IInv => TypeOK
    BY DEF IInv
<1> QED
    BY <1>1, ReviewInvariant, PTL

\* A memory's status is the verdict of the review it is dated with, the review
\* shown says otherwise only where a longer one overtook it, and all reviews of a
\* memory overlap; also where corrections meet memories that exist.
THEOREM ReviewLogExplainsStatusHolds == Spec => []ReviewLogExplainsStatus
<1>1. IInv => ReviewLogExplainsStatus
    BY ExplainedIsShown
<1> QED
    BY <1>1, ReviewInvariant, PTL

\* What any pack delivered had been approved, or written by a correction.
THEOREM PrecedentWasReviewedHolds == Spec => []PrecedentWasReviewed
<1>1. IInv => PrecedentWasReviewed
    BY DEF IInv
<1> QED
    BY <1>1, ReviewInvariant, PTL

\* No chain of corrections and formations leaves a memory without evidence.
THEOREM MemoryIsAttributedHolds == Spec => []MemoryIsAttributed
<1>1. IInv => MemoryIsAttributed
    BY DEF IInv
<1> QED
    BY <1>1, ReviewInvariant, PTL

\* A decided memory is never a candidate again.
THEOREM DecidedStaysDecidedHolds == Spec => DecidedStaysDecided
<1>1. IInv /\ [Next]_vars =>
        [\A h \in Hashes : lifecycle[h] \notin {"none", "candidate"} =>
            lifecycle'[h] \notin {"none", "candidate"}]_vars
  <2> SUFFICES ASSUME IInv, Next, NEW h \in Hashes,
                      lifecycle[h] \notin {"none", "candidate"}
               PROVE  lifecycle'[h] \notin {"none", "candidate"}
    OBVIOUS
  <2>1. CASE lifecycle' = lifecycle
    BY <2>1
  <2>2. CASE executeBackgroundFormation
    BY <2>2 DEF executeBackgroundFormation, insertFormedCandidate
  <2>3. ASSUME NEW q \in Reviews, reviewCommits(q)
        PROVE  lifecycle'[h] \notin {"none", "candidate"}
    <3>1. PICK m \in Hashes : \E now :
            approve(m, now) \/ reject(m, now) \/ \E new \in Hashes : correct(m, new, now)
      BY <2>3 DEF reviewCommits, IInv, ReadExists
    <3>2. lifecycle \in [Hashes -> Lifecycle]
      BY DEF IInv, TypeOK
    <3> QED
      BY <3>1, <3>2 DEF approve, reject, correct
  <2> QED
    BY <2>1, <2>2, <2>3
       DEF Next, ContentChanges, syncHostProject, reviewReads, kickoffReads,
           kickoffSupersedes, kickoffCommits, memoryVars
<1> QED
    BY <1>1, ReviewInvariant, PTL DEF Spec, DecidedStaysDecided

=============================================================================
