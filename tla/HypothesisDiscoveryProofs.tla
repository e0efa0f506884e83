--------------------- MODULE HypothesisDiscoveryProofs ---------------------
(***************************************************************************)
(* Proofs of HypothesisDiscovery's invariants, for any policies, documents,*)
(* rules and corpora.                                                      *)
(*                                                                         *)
(* Explained ties a candidate to the runs since it was last seen, and      *)
(* types its counter on the way: a proposed candidate has missed fewer     *)
(* than two runs, so that the next miss stays within 0..2.  Noticed states *)
(* the notifications key by key.  SetUp says when the demonstration's own  *)
(* candidate and notification exist, which is what keeps a later set-up    *)
(* from asking for the review of a decided candidate.                      *)
(***************************************************************************)
EXTENDS HypothesisDiscovery, TLAPS

Seen(p, s) == {n \in DOMAIN runs[p] : runs[p][n].found = s}

LatestIn(S) == IF S = {} THEN 0 ELSE CHOOSE n \in S : \A m \in S : m <= n

IsLatest(S, n) == IF S = {} THEN n = 0 ELSE n \in S /\ \A m \in S : m <= n

FixtureStatement == Finding(Fixture)[1]

Typed ==
    /\ runs \in [Policies -> Seq(RunRows)]
    /\ sent \subseteq Policies \X Statements \X Nat

Explained ==
    /\ MissesExplainStatus
    /\ \A p \in Policies, s \in Statements : \E n \in Nat : IsLatest(Seen(p, s), n)

\* A request per appearance, and which requests are unread.
Unread(p, s, n) ==
    <<p, s, n>> \in unread <=>
        /\ <<p, s, n>> \in sent
        /\ <<p, s, n>> \notin marked
        /\ ~(p = Supplier /\ Status(p, s) \in Decided)

Noticed ==
    /\ \A p \in Policies, s \in Statements, n \in Nat \ {0} :
        <<p, s, n>> \in sent <=>
            n \in DOMAIN runs[p] /\ runs[p][n].found = s /\ runs[p][n].kind # "reobserved"
    /\ \A p \in Policies, s \in Statements :
        Status(p, s) = "proposed" => \E n \in Nat : <<p, s, n>> \in sent
    /\ \A p \in Policies, s \in Statements, n \in Nat : Unread(p, s, n)

SetUp ==
    /\ policy[Supplier] = "absent" =>
        runs[Supplier] = <<>> /\ \A s \in Statements : Status(Supplier, s) = "none"
    /\ \A p \in Policies, s \in Statements : <<p, s, 0>> \in sent =>
        p = Supplier /\ s = FixtureStatement /\ policy[Supplier] # "absent"
    /\ policy[Supplier] # "absent" /\ FixtureStatement # <<>> =>
        /\ Status(Supplier, FixtureStatement) # "none"
        /\ <<Supplier, FixtureStatement, 0>> \in sent

\* The promoted hypothesis has the evidence it was accepted on.
Grounded ==
    \A p \in Policies, s \in Statements :
        grounds[p][s] = IF Status(p, s) = "accepted" THEN candidate[p][s].evidence ELSE {}

IInv ==
    /\ TypeOK /\ Typed
    /\ Explained
    /\ Noticed
    /\ SetUp
    /\ Grounded
    /\ LinksWithinEvidence

-----------------------------------------------------------------------------
(* Findings, rows and latest runs *)

LEMMA FindingsTyped ==
    /\ \A f \in Findings \cup {Finding(Fixture)} :
        f[1] \in Statements \cup {<<>>} /\ f[2] \in SUBSET Documents
    /\ <<>> \notin Statements
<1>1. \A content, s : EvidenceOf(content, s) \subseteq Documents
    BY DEF EvidenceOf, documentsForRule
<1>2. \A f \in Findings \cup {Finding(Fixture)} : f[2] \in SUBSET Documents
    BY <1>1 DEF Findings, Finding
<1> QED
    BY <1>2 DEF Statements

LEMMA LatestIsUnique ==
    ASSUME NEW S \in SUBSET Nat, NEW n \in Nat, IsLatest(S, n)
    PROVE  LatestIn(S) = n
<1>1. CASE S = {}
    BY <1>1 DEF LatestIn, IsLatest
<1>2. CASE S # {}
  <2>1. n \in S /\ \A m \in S : m <= n
    BY <1>2 DEF IsLatest
  <2> DEFINE c == CHOOSE k \in S : \A m \in S : m <= k
  <2>2. c \in S /\ \A m \in S : m <= c
    BY <2>1
  <2>3. c \in Nat /\ c <= n /\ n <= c
    BY <2>1, <2>2
  <2>4. c = n
    BY <2>3
  <2> QED
    BY <1>2, <2>4 DEF LatestIn
<1> QED
    BY <1>1, <1>2

LEMMA LastSeenIsLatest ==
    \A p, s : LastSeen(p, s) = LatestIn(Seen(p, s))
    BY DEF LastSeen, LatestIn, Seen

\* A candidate that keeps its status, its evidence and its count, and whose runs
\* are the same, needs nothing more.
LEMMA CandidateFields ==
    ASSUME TypeOK, NEW p \in Policies, NEW s \in Statements
    PROVE  /\ candidate[p][s] \in CandidateRows
           /\ Status(p, s) \in {"none", "proposed", "superseded"} \cup Decided
           /\ candidate[p][s].missing \in 0..2
           /\ candidate[p][s].evidence \in SUBSET Documents
<1>1. candidate[p][s] \in CandidateRows
    BY DEF TypeOK
<1> QED
    BY <1>1 DEF CandidateRows, Status

-----------------------------------------------------------------------------
(* A run *)

\* What a run makes of the statement it found.
LEMMA FoundRow ==
    ASSUME NEW row \in CandidateRows, NEW evidence \in SUBSET Documents,
           LinksValid(Refreshed(row, evidence), evidence),
           NEW new,
           new = [Refreshed(row, evidence) EXCEPT
                    !.links = replaceObservationEvidenceLinks(Refreshed(row, evidence), evidence)]
    PROVE  /\ new \in CandidateRows
           /\ new.links \subseteq new.evidence
           /\ row.status \in Decided =>
                new.status = row.status /\ new.evidence = row.evidence
           /\ row.status \notin Decided => new.status = "proposed" /\ new.missing = 0
<1> DEFINE mid == Refreshed(row, evidence)
<1>1. /\ mid \in CandidateRows
      /\ row.status \in Decided => mid = row
      /\ row.status \notin Decided => mid.status = "proposed" /\ mid.missing = 0
  <2>1. CASE row.status \in Decided
    BY <2>1 DEF Refreshed
  <2>2. CASE row.status \notin Decided
    <3> DEFINE Kinds == {"none", "proposed", "superseded"} \cup Decided
    <3>1. /\ row \in [status: Kinds, missing: 0..2, evidence: SUBSET Documents,
                     links: SUBSET Documents]
          /\ "proposed" \in Kinds /\ 0 \in 0..2
      BY DEF CandidateRows
    <3>2. mid = [row EXCEPT !.status = "proposed", !.missing = 0, !.evidence = evidence]
      BY <2>2 DEF Refreshed
    <3> HIDE DEF mid, Kinds
    <3>3. /\ mid \in [status: Kinds, missing: 0..2, evidence: SUBSET Documents,
                     links: SUBSET Documents]
          /\ mid.status = "proposed" /\ mid.missing = 0
      BY <3>1, <3>2
    <3> QED
      BY <2>2, <3>3 DEF CandidateRows, Kinds
  <2> QED
    BY <2>1, <2>2
<1>2. ObservationLinks(evidence) \subseteq mid.evidence /\ mid.evidence \in SUBSET Documents
    BY <1>1 DEF LinksValid, CandidateRows
<1>3. new = [mid EXCEPT !.links = ObservationLinks(evidence)]
    BY DEF replaceObservationEvidenceLinks
<1> HIDE DEF mid
<1>4. /\ new \in CandidateRows /\ new.links = ObservationLinks(evidence)
      /\ new.evidence = mid.evidence /\ new.status = mid.status
      /\ new.missing = mid.missing
    BY <1>1, <1>2, <1>3 DEF CandidateRows
<1> QED
    BY <1>1, <1>2, <1>4

\* ... and of one it missed.
LEMMA MissedRow ==
    ASSUME NEW row \in CandidateRows, row.missing < 2
    PROVE  /\ Missed(row) \in CandidateRows
           /\ Missed(row).missing = row.missing + 1
           /\ Missed(row).status = IF row.missing + 1 >= 2 THEN "superseded" ELSE row.status
           /\ Missed(row).evidence = row.evidence /\ Missed(row).links = row.links
<1> DEFINE Kinds == {"none", "proposed", "superseded"} \cup Decided
           count == row.missing + 1
           status == IF count >= 2 THEN "superseded" ELSE row.status
<1>1. /\ row \in [status: Kinds, missing: 0..2, evidence: SUBSET Documents,
                 links: SUBSET Documents]
      /\ count \in 0..2 /\ status \in Kinds
    BY DEF CandidateRows
<1>2. Missed(row) = [row EXCEPT !.missing = count, !.status = status]
    BY <1>1 DEF Missed
<1> HIDE DEF Kinds, count, status
<1>3. /\ Missed(row) \in [status: Kinds, missing: 0..2, evidence: SUBSET Documents,
                         links: SUBSET Documents]
      /\ Missed(row).missing = count /\ Missed(row).status = status
      /\ Missed(row).evidence = row.evidence /\ Missed(row).links = row.links
    BY <1>1, <1>2
<1> QED
    BY <1>3 DEF CandidateRows, Kinds, count, status

LEMMA RunStep ==
    ASSUME IInv, NEW p \in Policies, executeDiscoveryPolicy(p)
    PROVE  /\ IInv'
           /\ \A q \in Policies, x \in Statements : Status(q, x) \in Decided =>
                /\ Status(q, x)' = Status(q, x)
                /\ candidate'[q][x].evidence = candidate[q][x].evidence
<1>1. PICK finding \in Findings :
        LET s == finding[1]
            evidence == finding[2]
            kind == IF s = <<>> THEN "none" ELSE observationKind(candidate[p][s])
        IN  /\ s # <<>> => LinksValid(Refreshed(candidate[p][s], evidence), evidence)
            /\ candidate' = [candidate EXCEPT ![p] = AfterRun(@, s, evidence)]
            /\ runs' = [runs EXCEPT ![p] = Append(@,
                [found |-> s, evidence |-> evidence, kind |-> kind])]
            /\ Notify(IF kind \in {"formed", "reactivated"}
                      THEN {<<p, s, Len(runs[p]) + 1>>} ELSE {})
    BY DEF executeDiscoveryPolicy
<1>2. PICK s \in Statements \cup {<<>>}, evidence \in SUBSET Documents :
        s = finding[1] /\ evidence = finding[2]
    BY FindingsTyped
<1>3. PICK kind : kind = IF s = <<>> THEN "none" ELSE observationKind(candidate[p][s])
    OBVIOUS
<1>4. PICK L \in Nat : L = Len(runs[p])
    BY DEF IInv, Typed
<1> DEFINE run == [found |-> s, evidence |-> evidence, kind |-> kind]
           keys == IF kind \in {"formed", "reactivated"} THEN {<<p, s, L + 1>>} ELSE {}
<1>5. /\ s # <<>> => LinksValid(Refreshed(candidate[p][s], evidence), evidence)
      /\ candidate' = [candidate EXCEPT ![p] = AfterRun(@, s, evidence)]
      /\ runs' = [runs EXCEPT ![p] = Append(@, run)]
      /\ sent' = sent \cup keys /\ unread' = unread \cup (keys \ sent)
    BY <1>1, <1>2, <1>3, <1>4 DEF Notify
<1>6. UNCHANGED <<policy, marked, grounds, monitor, rejected>> /\ policy[p] = "active"
    BY DEF executeDiscoveryPolicy, MayRun
<1>7. /\ s = <<>> => kind = "none"
      /\ s # <<>> => s \in Statements
      /\ s # <<>> /\ Status(p, s) = "none" => kind = "formed"
      /\ s # <<>> /\ Status(p, s) = "superseded" => kind = "reactivated"
      /\ s # <<>> /\ Status(p, s) \notin {"none", "superseded"} => kind = "reobserved"
      /\ kind \in {"formed", "reobserved", "reactivated", "none"}
      /\ s # <<>> => kind # "none"
    BY <1>3, FindingsTyped DEF observationKind, Status
<1>8. run \in RunRows /\ run.found = s /\ run.kind = kind
    BY <1>7 DEF RunRows
<1> HIDE DEF run
<1>9. /\ runs' \in [Policies -> Seq(RunRows)]
      /\ \A q \in Policies \ {p} : runs'[q] = runs[q]
      /\ DOMAIN runs[p] = 1..L /\ DOMAIN runs'[p] = 1..(L + 1) /\ Len(runs'[p]) = L + 1
      /\ runs'[p][L + 1] = run
      /\ \A n \in 1..L : runs'[p][n] = runs[p][n]
  <2>1. runs \in [Policies -> Seq(RunRows)] /\ runs[p] \in Seq(RunRows)
    BY DEF IInv, Typed
  <2>2. runs'[p] = Append(runs[p], run) /\ Append(runs[p], run) \in Seq(RunRows)
    BY <1>5, <1>8, <2>1
  <2>3. \A q \in Policies \ {p} : runs'[q] = runs[q]
    BY <1>5, <2>1
  <2>4. runs' \in [Policies -> Seq(RunRows)]
    BY <1>5, <2>1, <2>2
  <2> QED
    BY <1>4, <2>1, <2>2, <2>3, <2>4
<1>10. \A q \in Policies \ {p} : candidate'[q] = candidate[q]
    BY <1>5 DEF IInv, TypeOK
<1>11. candidate'[p] = [x \in Statements |->
            IF x = s
            THEN [Refreshed(candidate[p][x], evidence) EXCEPT !.links =
                    replaceObservationEvidenceLinks(Refreshed(candidate[p][x], evidence), evidence)]
            ELSE IF candidate[p][x].status = "proposed" THEN Missed(candidate[p][x])
            ELSE candidate[p][x]]
  <2>1. candidate \in [Policies -> [Statements -> CandidateRows]]
    BY DEF IInv, TypeOK
  <2>2. candidate'[p] = AfterRun(candidate[p], s, evidence)
    BY <1>5, <2>1
  <2> QED
    BY <2>2 DEF AfterRun
\* Row by row.
<1>12. ASSUME s \in Statements
       PROVE  /\ candidate'[p][s] \in CandidateRows
              /\ candidate'[p][s].links \subseteq candidate'[p][s].evidence
              /\ Status(p, s) \in Decided =>
                    Status(p, s)' = Status(p, s)
                    /\ candidate'[p][s].evidence = candidate[p][s].evidence
              /\ Status(p, s) \notin Decided =>
                    Status(p, s)' = "proposed" /\ candidate'[p][s].missing = 0
  <2>1. s # <<>> /\ candidate[p][s] \in CandidateRows
    BY <1>12, FindingsTyped DEF IInv, TypeOK
  <2>2. candidate'[p][s] = [Refreshed(candidate[p][s], evidence) EXCEPT !.links =
            replaceObservationEvidenceLinks(Refreshed(candidate[p][s], evidence), evidence)]
    BY <1>11, <1>12
  <2> QED
    BY <1>5, <2>1, <2>2, FoundRow DEF Status
<1>13. ASSUME NEW x \in Statements, x # s
       PROVE  /\ Status(p, x) # "proposed" => candidate'[p][x] = candidate[p][x]
              /\ Status(p, x) = "proposed" =>
                    /\ candidate'[p][x] \in CandidateRows
                    /\ candidate'[p][x].missing = candidate[p][x].missing + 1
                    /\ Status(p, x)' =
                        IF candidate[p][x].missing + 1 >= 2 THEN "superseded" ELSE "proposed"
                    /\ candidate'[p][x].evidence = candidate[p][x].evidence
                    /\ candidate'[p][x].links = candidate[p][x].links
  <2>1. candidate[p][x] \in CandidateRows
    BY DEF IInv, TypeOK
  <2>2. CASE Status(p, x) # "proposed"
    BY <1>11, <1>13, <2>2 DEF Status
  <2>3. CASE Status(p, x) = "proposed"
    <3>1. candidate'[p][x] = Missed(candidate[p][x])
      BY <1>11, <1>13, <2>3 DEF Status
    <3>2. candidate[p][x].missing < 2
      BY <2>3 DEF IInv, Explained, MissesExplainStatus
    <3> QED
      BY <2>1, <2>3, <3>1, <3>2, MissedRow DEF Status
  <2> QED
    BY <2>2, <2>3
<1>14. TypeOK'
  <2>1. \A x \in Statements : candidate'[p][x] \in CandidateRows
    <3> TAKE x \in Statements
    <3>1. candidate[p][x] \in CandidateRows
      BY DEF IInv, TypeOK
    <3> QED
      BY <1>12, <1>13, <3>1
  <2>2. candidate' \in [Policies -> [Statements -> CandidateRows]]
    <3>1. candidate'[p] \in [Statements -> CandidateRows]
      BY <1>11, <2>1
    <3> QED
      BY <1>5, <1>10, <3>1 DEF IInv, TypeOK
  <2>3. \A q \in Policies : \A n \in DOMAIN runs'[q] : runs'[q][n] \in RunRows
    BY <1>9
  <2>4. unread' \subseteq sent' /\ marked' \subseteq sent'
    BY <1>5, <1>6 DEF IInv, TypeOK
  <2> QED
    BY <1>6, <2>2, <2>3, <2>4 DEF IInv, TypeOK
<1>15. Typed'
  <2>1. keys \subseteq Policies \X Statements \X Nat
    BY <1>7
  <2> QED
    BY <1>5, <1>9, <2>1 DEF IInv, Typed
<1>16. Explained'
  <2>1. ASSUME NEW q \in Policies, NEW x \in Statements
        PROVE  \E n \in Nat :
                /\ IsLatest(Seen(q, x)', n)
                /\ LastSeen(q, x)' = n
                /\ q = p /\ x = s => n = L + 1
                /\ ~(q = p /\ x = s) => n = LastSeen(q, x)
    <3>0. Seen(q, x)' \subseteq Nat /\ Seen(q, x) \subseteq Nat
      BY <1>9 DEF IInv, Typed, Seen
    <3>1. LastSeen(q, x)' = LatestIn(Seen(q, x)')
      BY DEF LastSeen, LatestIn, Seen
    <3>2. CASE q = p /\ x = s
      <4>1. L + 1 \in Seen(q, x)' /\ \A m \in Seen(q, x)' : m <= L + 1
        BY <1>8, <1>9, <3>2 DEF Seen
      <4>2. IsLatest(Seen(q, x)', L + 1) /\ L + 1 \in Nat
        BY <4>1 DEF IsLatest
      <4>3. LatestIn(Seen(q, x)') = L + 1
        BY <3>0, <4>2, LatestIsUnique
      <4> QED
        BY <3>1, <3>2, <4>2, <4>3
    <3>3. CASE ~(q = p /\ x = s)
      <4>1. Seen(q, x)' = Seen(q, x)
        <5>1. CASE q # p
          BY <1>9, <5>1 DEF Seen
        <5>2. CASE q = p
          <6>1. \A n \in 1..(L + 1) : runs'[p][n].found = x <=>
                    n \in 1..L /\ runs[p][n].found = x
            BY <1>8, <1>9, <3>3, <5>2
          <6> QED
            BY <1>9, <5>2, <6>1 DEF Seen
        <5> QED
          BY <5>1, <5>2
      <4>2. PICK n \in Nat : IsLatest(Seen(q, x), n)
        BY DEF IInv, Explained
      <4>3. LatestIn(Seen(q, x)) = n
        BY <3>0, <4>2, LatestIsUnique
      <4> QED
        BY <3>1, <3>3, <4>1, <4>2, <4>3, LastSeenIsLatest
    <3> QED
      BY <3>2, <3>3
  <2>2. ASSUME NEW q \in Policies, NEW x \in Statements
        PROVE  /\ Status(q, x)' = "proposed" =>
                    Misses(q, x)' < 2 /\ candidate'[q][x].missing = Misses(q, x)'
               /\ Status(q, x)' = "superseded" =>
                    Misses(q, x)' >= 2 /\ candidate'[q][x].missing = 2
               /\ Status(q, x)' = "none" => LastSeen(q, x)' = 0
    <3>0. /\ Misses(q, x)' = Len(runs'[q]) - LastSeen(q, x)'
          /\ Misses(q, x) = Len(runs[q]) - LastSeen(q, x)
      BY DEF Misses
    <3>1. /\ Status(q, x) = "proposed" =>
                Misses(q, x) < 2 /\ candidate[q][x].missing = Misses(q, x)
          /\ Status(q, x) = "superseded" =>
                Misses(q, x) >= 2 /\ candidate[q][x].missing = 2
          /\ Status(q, x) = "none" => LastSeen(q, x) = 0
      BY DEF IInv, Explained, MissesExplainStatus
    <3>2. CASE q # p
      <4>1. LastSeen(q, x)' = LastSeen(q, x)
        BY <2>1, <3>2
      <4> QED
        BY <1>9, <1>10, <3>0, <3>1, <3>2, <4>1 DEF Status
    <3>3. CASE q = p /\ x = s
      <4>1. LastSeen(p, s)' = L + 1 /\ Misses(p, s)' = 0
        BY <1>9, <2>1, <3>0, <3>3
      <4>2. Status(p, s)' \in Decided
            \/ (Status(p, s)' = "proposed" /\ candidate'[p][s].missing = 0)
        BY <1>12, <3>3
      <4> QED
        BY <3>3, <4>1, <4>2 DEF Decided
    <3>4. CASE q = p /\ x # s
      <4>1. LastSeen(p, x)' = LastSeen(p, x) /\ LastSeen(p, x) \in Nat
        BY <2>1, <3>4
      <4>2. Misses(p, x)' = Misses(p, x) + 1 /\ Misses(p, x) \in Int
        BY <1>4, <1>9, <3>0, <3>4, <4>1
      <4>3. CASE Status(p, x) = "proposed"
        <5>1. candidate[p][x].missing = Misses(p, x) /\ Misses(p, x) < 2
          BY <3>1, <3>4, <4>3
        <5>2. /\ candidate'[p][x].missing = Misses(p, x)'
              /\ Status(p, x)' = IF Misses(p, x)' >= 2 THEN "superseded" ELSE "proposed"
          BY <1>13, <3>4, <4>2, <4>3, <5>1
        <5> QED
          BY <3>4, <4>2, <5>1, <5>2
      <4>4. CASE Status(p, x) # "proposed"
        <5>1. candidate'[p][x] = candidate[p][x] /\ Status(p, x)' = Status(p, x)
          BY <1>13, <3>4, <4>4 DEF Status
        <5> QED
          BY <3>1, <3>4, <4>1, <4>2, <4>4, <5>1
      <4> QED
        BY <4>3, <4>4
    <3> QED
      BY <3>2, <3>3, <3>4
  <2> QED
    BY <2>1, <2>2 DEF Explained, MissesExplainStatus
<1>19. \A q \in Policies, x \in Statements :
        /\ Status(q, x) \in Decided =>
            /\ Status(q, x)' = Status(q, x)
            /\ candidate'[q][x].evidence = candidate[q][x].evidence
        /\ Status(q, x)' \in Decided => Status(q, x) \in Decided
  <2> TAKE q \in Policies, x \in Statements
  <2>1. CASE q # p
    BY <1>10, <2>1 DEF Status
  <2>2. CASE q = p /\ x = s
    BY <1>12, <2>2 DEF Decided
  <2>3. CASE q = p /\ x # s
    BY <1>13, <2>3 DEF Status, Decided
  <2> QED
    BY <2>1, <2>2, <2>3
<1>17. Noticed'
  <2>1. ASSUME NEW q \in Policies, NEW x \in Statements, NEW n \in Nat \ {0}
        PROVE  <<q, x, n>> \in sent' <=>
                n \in DOMAIN runs'[q] /\ runs'[q][n].found = x
                /\ runs'[q][n].kind # "reobserved"
    <3>1. <<q, x, n>> \in sent <=>
                n \in DOMAIN runs[q] /\ runs[q][n].found = x /\ runs[q][n].kind # "reobserved"
      BY DEF IInv, Noticed
    <3>2. <<q, x, n>> \in keys <=>
                q = p /\ x = s /\ n = L + 1 /\ kind \in {"formed", "reactivated"}
      OBVIOUS
    <3> HIDE DEF keys
    <3>3. <<q, x, n>> \in sent' <=> <<q, x, n>> \in sent \/ <<q, x, n>> \in keys
      BY <1>5
    <3>4. CASE q # p
      BY <1>9, <3>1, <3>2, <3>3, <3>4
    <3>5. CASE q = p /\ n = L + 1
      <4>1. <<q, x, n>> \notin sent
        BY <1>9, <3>1, <3>5
      <4>2. runs'[q][n].found = s /\ runs'[q][n].kind = kind
        BY <1>8, <1>9, <3>5
      <4>3. x = s => (kind \in {"formed", "reactivated"} <=> kind # "reobserved")
        BY <1>7, FindingsTyped
      <4>4. n \in DOMAIN runs'[q]
        BY <1>9, <3>5
      <4>5. <<q, x, n>> \in sent' <=> x = s /\ kind \in {"formed", "reactivated"}
        BY <3>2, <3>3, <3>5, <4>1
      <4> QED
        BY <4>2, <4>3, <4>4, <4>5
    <3>6. CASE q = p /\ n # L + 1
      BY <1>9, <3>1, <3>2, <3>3, <3>6
    <3> QED
      BY <3>4, <3>5, <3>6
  <2>2. ASSUME NEW q \in Policies, NEW x \in Statements, Status(q, x)' = "proposed"
        PROVE  \E n \in Nat : <<q, x, n>> \in sent'
    <3>1. CASE Status(q, x) = "proposed"
      BY <1>5, <3>1 DEF IInv, Noticed
    <3>2. CASE Status(q, x) # "proposed"
      <4>1. q = p /\ x = s
        BY <1>10, <1>13, <2>2, <3>2 DEF Status
      <4>2. Status(p, s) \in {"none", "superseded"}
        BY <1>12, <2>2, <3>2, <4>1, CandidateFields DEF IInv, Decided
      <4>3. s # <<>> /\ kind \in {"formed", "reactivated"}
        BY <1>7, <4>1, <4>2, FindingsTyped
      <4> QED
        BY <1>5, <4>1, <4>3
    <3> QED
      BY <3>1, <3>2
  <2>3. ASSUME NEW q \in Policies, NEW x \in Statements, NEW n \in Nat
        PROVE  Unread(q, x, n)'
    <3>1. Status(q, x)' \in Decided <=> Status(q, x) \in Decided
      BY <1>19
    <3>2. Unread(q, x, n) /\ marked' = marked /\ marked \subseteq sent
      BY <1>6 DEF IInv, Noticed, TypeOK
    <3>3. CASE <<q, x, n>> \in keys
      <4>1. q = p /\ x = s /\ n = L + 1 /\ kind \in {"formed", "reactivated"}
        BY <3>3
      <4>2. Status(p, s) \notin Decided
        BY <1>7, <4>1, FindingsTyped DEF Decided
      <4>3. <<p, s, L + 1>> \notin sent
        BY <1>9, <4>1 DEF IInv, Noticed
      <4> QED
        BY <1>5, <3>1, <3>2, <3>3, <4>1, <4>2, <4>3 DEF Unread
    <3>4. CASE <<q, x, n>> \notin keys
      BY <1>5, <3>1, <3>2, <3>4 DEF Unread
    <3> QED
      BY <3>3, <3>4
  <2> QED
    BY <2>1, <2>2, <2>3 DEF Noticed
<1>18. SetUp'
  <2>1. p # Supplier \/ policy[Supplier] # "absent"
    BY <1>6
  <2>2. policy[Supplier] = "absent" =>
            runs'[Supplier] = <<>> /\ \A x \in Statements : Status(Supplier, x)' = "none"
    BY <1>9, <1>10, <2>1, DiscoveryAssumption DEF IInv, SetUp, Status
  <2>3. \A q, x : <<q, x, 0>> \in sent' <=> <<q, x, 0>> \in sent
    <3>1. \A q, x : <<q, x, 0>> \notin keys
      OBVIOUS
    <3> QED
      BY <1>5, <3>1
  <2>4. \A x \in Statements : Status(Supplier, x) # "none" => Status(Supplier, x)' # "none"
    <3> TAKE x \in Statements
    <3> SUFFICES ASSUME Status(Supplier, x) # "none" PROVE Status(Supplier, x)' # "none"
      OBVIOUS
    <3>1. CASE Supplier # p
      BY <1>10, <3>1, DiscoveryAssumption DEF Status
    <3>2. CASE Supplier = p /\ x = s
      BY <1>12, <3>2 DEF Decided
    <3>3. CASE Supplier = p /\ x # s
      BY <1>13, <3>3 DEF Status
    <3> QED
      BY <3>1, <3>2, <3>3
  <2>5. FixtureStatement # <<>> => FixtureStatement \in Statements
    BY FindingsTyped DEF FixtureStatement
  <2>6. policy[Supplier] # "absent" /\ FixtureStatement # <<>> =>
            /\ Status(Supplier, FixtureStatement) # "none"
            /\ <<Supplier, FixtureStatement, 0>> \in sent
    BY DEF IInv, SetUp
  <2>7. \A q \in Policies, x \in Statements : <<q, x, 0>> \in sent =>
            q = Supplier /\ x = FixtureStatement /\ policy[Supplier] # "absent"
    BY DEF IInv, SetUp
  <2>8. UNCHANGED FixtureStatement
    OBVIOUS
  <2> QED
    BY <1>6, <2>2, <2>3, <2>4, <2>5, <2>6, <2>7, <2>8 DEF SetUp
<1>20. Grounded'
    BY <1>6, <1>19 DEF IInv, Grounded, Decided
<1>21. LinksWithinEvidence'
  <2>1. ASSUME NEW q \in Policies, NEW x \in Statements
        PROVE  candidate'[q][x].links \subseteq candidate'[q][x].evidence
    <3>1. candidate[q][x].links \subseteq candidate[q][x].evidence
      BY DEF IInv, LinksWithinEvidence
    <3>2. CASE q # p
      BY <1>10, <3>1, <3>2
    <3>3. CASE q = p /\ x = s
      BY <1>12, <3>3
    <3>4. CASE q = p /\ x # s
      BY <1>13, <3>1, <3>4
    <3> QED
      BY <3>2, <3>3, <3>4
  <2> QED
    BY <2>1 DEF LinksWithinEvidence
<1> QED
    BY <1>14, <1>15, <1>16, <1>17, <1>18, <1>19, <1>20, <1>21 DEF IInv

-----------------------------------------------------------------------------
(* Everything else *)

\* The update of one row of a table of tables.
LEMMA NestedUpdate ==
    ASSUME NEW P, NEW S, NEW T, NEW f \in [P -> [S -> T]], NEW p \in P, NEW s \in S,
           NEW v \in T, NEW g, g = [f EXCEPT ![p][s] = v]
    PROVE  /\ g \in [P -> [S -> T]]
           /\ g[p][s] = v
           /\ \A q \in P, x \in S : (q = p /\ x = s) \/ g[q][x] = f[q][x]
    OBVIOUS

\* A step that leaves the runs, the candidates and their notifications alone.
LEMMA CandidatesKept ==
    ASSUME IInv, UNCHANGED <<runs, candidate, sent, unread, marked, grounds>>,
           policy' \in [Policies -> {"absent", "active", "paused"}],
           policy[Supplier] = "absent" <=> policy'[Supplier] = "absent",
           monitor' \in [Policies -> [Statements ->
                {"none", "promised", "scheduled", "watching"}]],
           rejected' \subseteq Policies
    PROVE  IInv'
<1>1. TypeOK' /\ Typed'
    BY DEF IInv, TypeOK, Typed
<1>2. Grounded' /\ LinksWithinEvidence'
    BY DEF IInv, Grounded, LinksWithinEvidence, Status
<1>3. Noticed'
    BY DEF IInv, Noticed, Unread, Status
<1>4. \A p, s : Status(p, s)' = Status(p, s) /\ Seen(p, s)' = Seen(p, s)
                /\ LastSeen(p, s)' = LastSeen(p, s) /\ Misses(p, s)' = Misses(p, s)
    BY DEF Status, Seen, LastSeen, Misses
<1>5. Explained'
    BY <1>4 DEF IInv, Explained, MissesExplainStatus
<1>6. SetUp'
  <2>1. UNCHANGED FixtureStatement
    OBVIOUS
  <2> QED
    BY <1>4, <2>1 DEF IInv, SetUp
<1> QED
    BY <1>1, <1>2, <1>3, <1>5, <1>6 DEF IInv

LEMMA OperatorStep ==
    ASSUME IInv,
           \/ \E p \in Policies : createDiscoveryPolicy(p)
           \/ operateDiscovery
           \/ \E p \in Policies : RejectedRun(p)
           \/ \E p \in Policies, s \in Statements :
                ScheduleMonitor(p, s) \/ BaselineMonitor(p, s)
           \/ UNCHANGED vars
    PROVE  IInv' /\ UNCHANGED <<candidate, grounds>>
<1> USE DiscoveryAssumption
<1>1. TypeOK
    BY DEF IInv
<1>2. CASE \E p \in Policies : createDiscoveryPolicy(p)
    BY <1>1, <1>2, CandidatesKept DEF createDiscoveryPolicy, TypeOK
<1>3. CASE operateDiscovery
    BY <1>1, <1>3, CandidatesKept DEF operateDiscovery, TypeOK
<1>4. CASE \E p \in Policies : RejectedRun(p)
    BY <1>1, <1>4, CandidatesKept DEF RejectedRun, TypeOK
<1>5. ASSUME NEW p \in Policies, NEW s \in Statements,
             ScheduleMonitor(p, s) \/ BaselineMonitor(p, s)
      PROVE  IInv' /\ UNCHANGED <<candidate, grounds>>
  <2>1. /\ UNCHANGED <<policy, runs, candidate, sent, unread, marked, grounds, rejected>>
        /\ \E to \in {"scheduled", "watching"} :
            monitor' = [monitor EXCEPT ![p][s] = to]
    BY <1>5 DEF ScheduleMonitor, BaselineMonitor
  <2>2. monitor' \in [Policies -> [Statements ->
            {"none", "promised", "scheduled", "watching"}]]
    BY <1>1, <2>1, NestedUpdate DEF TypeOK
  <2> QED
    BY <1>1, <2>1, <2>2, CandidatesKept DEF TypeOK
<1>6. CASE UNCHANGED vars
    BY <1>1, <1>6, CandidatesKept DEF vars, TypeOK
<1> QED
    BY <1>2, <1>3, <1>4, <1>5, <1>6

\* A review decides one proposed candidate and reads its notifications.
LEMMA ReviewStep ==
    ASSUME IInv, NEW p \in Policies, NEW s \in Statements, Dismiss(p, s) \/ Accept(p, s)
    PROVE  /\ IInv'
           /\ \A q \in Policies, x \in Statements : Status(q, x) \in Decided =>
                candidate'[q][x] = candidate[q][x] /\ grounds'[q][x] = grounds[q][x]
<1> DEFINE row == candidate[p][s]
<1>1. PICK decision \in Decided :
        /\ candidate' = [candidate EXCEPT ![p][s].status = decision]
        /\ decision = "accepted" =>
            /\ grounds' = [grounds EXCEPT ![p][s] = @ \cup candidate[p][s].evidence]
            /\ monitor' = [monitor EXCEPT ![p][s] = "promised"]
        /\ decision # "accepted" => UNCHANGED <<grounds, monitor>>
    BY DEF Dismiss, Accept, Decided
<1>2. /\ Status(p, s) = "proposed" /\ unread' = ReadNotices(p, s)
      /\ UNCHANGED <<policy, runs, sent, marked, rejected>>
    BY DEF Dismiss, Accept
<1>3. TypeOK /\ row \in CandidateRows
    BY DEF IInv, TypeOK
<1> DEFINE new == [row EXCEPT !.status = decision]
<1>4. /\ new \in CandidateRows /\ new.status = decision
      /\ new.evidence = row.evidence /\ new.links = row.links
    BY <1>3 DEF CandidateRows
<1>5. candidate' = [candidate EXCEPT ![p][s] = new]
    BY <1>1, <1>3 DEF TypeOK
<1> HIDE DEF new
<1>6. /\ candidate' \in [Policies -> [Statements -> CandidateRows]]
      /\ candidate'[p][s] = new
      /\ \A q \in Policies, x \in Statements :
            (q = p /\ x = s) \/ candidate'[q][x] = candidate[q][x]
    BY <1>3, <1>4, <1>5, NestedUpdate DEF TypeOK
<1>7. /\ Status(p, s)' = decision
      /\ candidate'[p][s].evidence = row.evidence /\ candidate'[p][s].links = row.links
    BY <1>4, <1>6 DEF Status
<1> HIDE DEF row
<1>0. /\ grounds' \in [Policies -> [Statements -> SUBSET Documents]]
      /\ grounds'[p][s] = IF decision = "accepted"
                          THEN grounds[p][s] \cup candidate[p][s].evidence ELSE grounds[p][s]
      /\ \A q \in Policies, x \in Statements :
            (q = p /\ x = s) \/ grounds'[q][x] = grounds[q][x]
  <2>1. grounds \in [Policies -> [Statements -> SUBSET Documents]]
    BY <1>3 DEF TypeOK
  <2>2. grounds[p][s] \cup candidate[p][s].evidence \in SUBSET Documents
    BY <1>3, <2>1, CandidateFields
  <2>3. CASE decision = "accepted"
    <3>1. grounds' = [grounds EXCEPT ![p][s] = grounds[p][s] \cup candidate[p][s].evidence]
      BY <1>1, <2>1, <2>3
    <3> QED
      BY <2>1, <2>2, <2>3, <3>1, NestedUpdate
  <2>4. CASE decision # "accepted"
    BY <1>1, <2>1, <2>4
  <2> QED
    BY <2>3, <2>4
<1>8. TypeOK' /\ Typed'
  <2>1. unread' \subseteq sent' /\ marked' \subseteq sent'
    BY <1>2, <1>3 DEF TypeOK, ReadNotices
  <2>2. monitor' \in [Policies -> [Statements ->
            {"none", "promised", "scheduled", "watching"}]]
    <3>1. CASE decision = "accepted"
      <4> DEFINE Stages == {"none", "promised", "scheduled", "watching"}
      <4>1. /\ monitor \in [Policies -> [Statements -> Stages]] /\ "promised" \in Stages
            /\ monitor' = [monitor EXCEPT ![p][s] = "promised"]
        BY <1>1, <1>3, <3>1 DEF TypeOK
      <4> HIDE DEF Stages
      <4>2. monitor' \in [Policies -> [Statements -> Stages]]
        BY <4>1, NestedUpdate
      <4> QED
        BY <4>2 DEF Stages
    <3>2. CASE decision # "accepted"
      BY <1>1, <1>3, <3>2 DEF TypeOK
    <3> QED
      BY <3>1, <3>2
  <2> QED
    BY <1>0, <1>2, <1>3, <1>6, <2>1, <2>2 DEF TypeOK, Typed, IInv
<1>9. \A q \in Policies, x \in Statements :
        /\ Seen(q, x)' = Seen(q, x) /\ LastSeen(q, x)' = LastSeen(q, x)
        /\ Misses(q, x)' = Misses(q, x)
    BY <1>2 DEF Seen, LastSeen, Misses
<1>10. Explained'
  <2>1. Status(p, s)' \notin {"none", "proposed", "superseded"}
    BY <1>7 DEF Decided
  <2>2. \A q \in Policies, x \in Statements :
            (q = p /\ x = s) \/ (Status(q, x)' = Status(q, x)
                               /\ candidate'[q][x].missing = candidate[q][x].missing)
    BY <1>6 DEF Status
  <2> QED
    BY <1>9, <2>1, <2>2 DEF IInv, Explained, MissesExplainStatus
<1>11. Noticed'
  <2>1. \A q \in Policies, x \in Statements :
            (q = p /\ x = s) \/ Status(q, x)' = Status(q, x)
    BY <1>6 DEF Status
  <2>2. Status(p, s) \notin Decided /\ Status(p, s)' \in Decided
        /\ Status(p, s)' # "proposed"
    BY <1>2, <1>7 DEF Decided
  <2>3. ASSUME NEW q \in Policies, NEW x \in Statements, NEW n \in Nat
        PROVE  Unread(q, x, n)'
    <3>1. Unread(q, x, n)
      BY DEF IInv, Noticed
    <3>2. <<q, x, n>> \in unread' <=>
            <<q, x, n>> \in unread /\ ~(p = Supplier /\ q = p /\ x = s)
      BY <1>2 DEF ReadNotices
    <3>3. CASE q = p /\ x = s
      BY <1>2, <2>2, <3>1, <3>2, <3>3 DEF Unread
    <3>4. CASE ~(q = p /\ x = s)
      BY <1>2, <2>1, <3>1, <3>2, <3>4 DEF Unread
    <3> QED
      BY <3>3, <3>4
  <2> QED
    BY <1>2, <2>1, <2>2, <2>3 DEF IInv, Noticed
<1>12. SetUp'
  <2>1. UNCHANGED FixtureStatement
    OBVIOUS
  <2>2. FixtureStatement # <<>> => FixtureStatement \in Statements
    BY FindingsTyped DEF FixtureStatement
  <2>3. Status(p, s)' # "none"
    BY <1>7 DEF Decided
  <2>4. \A q \in Policies, x \in Statements :
            (q = p /\ x = s) \/ Status(q, x)' = Status(q, x)
    BY <1>6 DEF Status
  <2>5. p # Supplier \/ policy[Supplier] # "absent"
    BY <1>2 DEF IInv, SetUp
  <2> QED
    BY <1>2, <2>5, <2>1, <2>2, <2>3, <2>4, DiscoveryAssumption DEF IInv, SetUp
<1>13. \A q \in Policies, x \in Statements : Status(q, x) \in Decided =>
                candidate'[q][x] = candidate[q][x] /\ grounds'[q][x] = grounds[q][x]
  <2> TAKE q \in Policies, x \in Statements
  <2> SUFFICES ASSUME Status(q, x) \in Decided
               PROVE  candidate'[q][x] = candidate[q][x] /\ grounds'[q][x] = grounds[q][x]
    OBVIOUS
  <2>1. ~(q = p /\ x = s)
    BY <1>2 DEF Decided
  <2> QED
    BY <1>0, <1>6, <2>1
<1>14. Grounded'
  <2>1. ASSUME NEW q \in Policies, NEW x \in Statements
        PROVE  grounds'[q][x] =
                IF Status(q, x)' = "accepted" THEN candidate'[q][x].evidence ELSE {}
    <3>1. grounds[q][x] =
                IF Status(q, x) = "accepted" THEN candidate[q][x].evidence ELSE {}
      BY DEF IInv, Grounded
    <3>2. CASE q = p /\ x = s
      <4>1. grounds[p][s] = {} /\ Status(p, s)' = decision
        BY <1>2, <1>7, <3>1, <3>2
      <4>2. grounds'[p][s] = IF decision = "accepted" THEN candidate[p][s].evidence ELSE {}
        BY <1>0, <4>1
      <4> QED
        BY <1>7, <3>2, <4>1, <4>2 DEF row
    <3>3. CASE ~(q = p /\ x = s)
      <4>1. grounds'[q][x] = grounds[q][x]
        BY <1>0, <3>3
      <4> QED
        BY <1>6, <3>1, <3>3, <4>1 DEF Status
    <3> QED
      BY <3>2, <3>3
  <2> QED
    BY <2>1 DEF Grounded
<1>15. LinksWithinEvidence'
    BY <1>6, <1>7 DEF IInv, LinksWithinEvidence, row
<1> QED
    BY <1>8, <1>10, <1>11, <1>12, <1>13, <1>14, <1>15 DEF IInv

\* The set-up forms a candidate the first time only, before any run.
LEMMA SetUpStep ==
    ASSUME IInv, initializeDiscoveryDemo
    PROVE  /\ IInv'
           /\ \A q \in Policies, x \in Statements : Status(q, x) \in Decided =>
                candidate'[q][x] = candidate[q][x] /\ grounds'[q][x] = grounds[q][x]
<1> DEFINE f == FixtureStatement
           formed == [NoCandidate EXCEPT !.status = "proposed",
                                         !.evidence = Finding(Fixture)[2]]
<1>1. /\ policy' = [policy EXCEPT ![Supplier] = IF @ = "absent" THEN "active" ELSE @]
      /\ f = <<>> => UNCHANGED <<candidate, sent, unread>>
      /\ f # <<>> => candidate' = [candidate EXCEPT ![Supplier][f] =
                        IF @.status = "none" THEN formed ELSE @]
      /\ f # <<>> => sent' = sent \cup {<<Supplier, f, 0>>}
      /\ f # <<>> => unread' = unread \cup ({<<Supplier, f, 0>>} \ sent)
      /\ grounds' = [grounds EXCEPT ![Supplier] = [x \in Statements |->
                IF Status(Supplier, x) = "accepted"
                THEN @[x] \cup candidate[Supplier][x].evidence ELSE @[x]]]
      /\ UNCHANGED <<runs, marked, monitor, rejected>>
    BY DEF initializeDiscoveryDemo, FixtureStatement, Notify
<1>2. TypeOK /\ Supplier \in Policies
    BY DiscoveryAssumption DEF IInv
<1>3. f # <<>> => f \in Statements
    BY FindingsTyped DEF FixtureStatement
<1>4. formed \in CandidateRows /\ formed.status = "proposed" /\ formed.missing = 0
      /\ formed.links \subseteq formed.evidence
  <2>1. Finding(Fixture)[2] \in SUBSET Documents
    BY FindingsTyped
  <2> DEFINE Kinds == {"none", "proposed", "superseded"} \cup Decided
             Rows == [status: Kinds, missing: 0..2, evidence: SUBSET Documents,
                      links: SUBSET Documents]
             e == Finding(Fixture)[2]
  <2>2. /\ NoCandidate \in Rows /\ "proposed" \in Kinds
        /\ NoCandidate.missing = 0 /\ NoCandidate.links = {}
    BY DEF NoCandidate
  <2>3. formed = [NoCandidate EXCEPT !.status = "proposed", !.evidence = e]
    OBVIOUS
  <2> HIDE DEF formed, e, Kinds
  <2>4. /\ formed \in Rows /\ formed.status = "proposed"
        /\ formed.missing = 0 /\ formed.links = {}
    BY <2>1, <2>2, <2>3 DEF e
  <2> QED
    BY <2>4 DEF CandidateRows, Kinds
<1> HIDE DEF formed
<1>5. \A q \in Policies, x \in Statements :
        \/ candidate'[q][x] = candidate[q][x]
        \/ /\ q = Supplier /\ x = f /\ f # <<>>
           /\ Status(q, x) = "none" /\ candidate'[q][x] = formed
  <2> TAKE q \in Policies, x \in Statements
  <2>1. CASE f = <<>>
    BY <1>1, <2>1
  <2>2. CASE f # <<>>
    BY <1>1, <1>2, <1>3, <2>2 DEF TypeOK, Status
  <2> QED
    BY <2>1, <2>2
<1>6. f # <<>> /\ Status(Supplier, f) = "none" =>
        /\ candidate'[Supplier][f] = formed
        /\ policy[Supplier] = "absent" /\ runs[Supplier] = <<>>
        /\ <<Supplier, f, 0>> \notin sent
  <2> SUFFICES ASSUME f # <<>>, Status(Supplier, f) = "none"
               PROVE  /\ candidate'[Supplier][f] = formed
                      /\ policy[Supplier] = "absent" /\ runs[Supplier] = <<>>
                      /\ <<Supplier, f, 0>> \notin sent
    OBVIOUS
  <2>1. candidate'[Supplier][f] = formed
    BY <1>1, <1>2, <1>3 DEF TypeOK, Status
  <2> QED
    BY <1>2, <1>3, <2>1 DEF IInv, SetUp
<1>8. \A q \in Policies, x \in Statements : Status(q, x) \in Decided =>
                candidate'[q][x] = candidate[q][x] /\ grounds'[q][x] = grounds[q][x]
  <2> TAKE q \in Policies, x \in Statements
  <2> SUFFICES ASSUME Status(q, x) \in Decided
               PROVE  candidate'[q][x] = candidate[q][x] /\ grounds'[q][x] = grounds[q][x]
    OBVIOUS
  <2>1. candidate'[q][x] = candidate[q][x]
    BY <1>5 DEF Decided
  <2>2. Status(q, x) = "accepted" => grounds[q][x] = candidate[q][x].evidence
    BY DEF IInv, Grounded
  <2>3. grounds'[q][x] = IF q = Supplier /\ Status(q, x) = "accepted"
                         THEN grounds[q][x] \cup candidate[q][x].evidence ELSE grounds[q][x]
    BY <1>1, <1>2 DEF TypeOK
  <2> QED
    BY <2>1, <2>2, <2>3
<1>9. \A q \in Policies, x \in Statements : grounds'[q][x] = grounds[q][x]
  <2> TAKE q \in Policies, x \in Statements
  <2>1. CASE Status(q, x) = "accepted"
    BY <1>8, <2>1 DEF Decided
  <2>2. CASE Status(q, x) # "accepted"
    BY <1>1, <1>2, <2>2 DEF TypeOK
  <2> QED
    BY <2>1, <2>2
<1>10. \A q \in Policies, x \in Statements :
        \/ Status(q, x)' = Status(q, x) /\ candidate'[q][x].missing = candidate[q][x].missing
        \/ q = Supplier /\ x = f /\ f # <<>> /\ Status(q, x) = "none"
           /\ Status(q, x)' = "proposed" /\ candidate'[q][x].missing = 0
    BY <1>4, <1>5 DEF Status
<1>11. TypeOK' /\ Typed'
  <2>1. candidate' \in [Policies -> [Statements -> CandidateRows]]
    <3>1. CASE f = <<>>
      BY <1>1, <1>2, <3>1 DEF TypeOK
    <3>2. CASE f # <<>>
      <4> DEFINE old == candidate[Supplier][f]
                 row == IF old.status = "none" THEN formed ELSE old
      <4>1. row \in CandidateRows
        BY <1>2, <1>3, <1>4, <3>2 DEF TypeOK
      <4>2. candidate' = [candidate EXCEPT ![Supplier][f] = row]
        BY <1>1, <1>2, <1>3, <3>2 DEF TypeOK
      <4> HIDE DEF row
      <4> QED
        BY <1>2, <1>3, <3>2, <4>1, <4>2, NestedUpdate DEF TypeOK
    <3> QED
      BY <3>1, <3>2
  <2>2. unread' \subseteq sent' /\ marked' \subseteq sent'
    BY <1>1, <1>2 DEF TypeOK
  <2>3. policy' \in [Policies -> {"absent", "active", "paused"}]
    BY <1>1, <1>2 DEF TypeOK
  <2>4. grounds' \in [Policies -> [Statements -> SUBSET Documents]]
    <3>1. \A x \in Statements : candidate[Supplier][x].evidence \in SUBSET Documents
      BY <1>2, CandidateFields
    <3> QED
      BY <1>1, <1>2, <3>1 DEF TypeOK
  <2>5. sent' \subseteq Policies \X Statements \X Nat
    <3>1. sent \subseteq Policies \X Statements \X Nat
      BY DEF IInv, Typed
    <3>2. f # <<>> => <<Supplier, f, 0>> \in Policies \X Statements \X Nat
      BY <1>2, <1>3
    <3> QED
      BY <1>1, <3>1, <3>2
  <2> QED
    BY <1>1, <1>2, <2>1, <2>2, <2>3, <2>4, <2>5 DEF TypeOK, Typed, IInv
<1>12. \A q \in Policies, x \in Statements :
        /\ Seen(q, x)' = Seen(q, x) /\ LastSeen(q, x)' = LastSeen(q, x)
        /\ Misses(q, x)' = Misses(q, x)
    BY <1>1 DEF Seen, LastSeen, Misses
<1>13. Explained'
  <2>1. f # <<>> /\ Status(Supplier, f) = "none" => Misses(Supplier, f) = 0
    <3> SUFFICES ASSUME f # <<>>, Status(Supplier, f) = "none"
                 PROVE  Misses(Supplier, f) = 0
      OBVIOUS
    <3>1. LastSeen(Supplier, f) = 0
      BY <1>2, <1>3 DEF IInv, Explained, MissesExplainStatus
    <3>2. Len(runs[Supplier]) = 0
      BY <1>6
    <3> QED
      BY <3>1, <3>2 DEF Misses
  <2> QED
    BY <1>10, <1>12, <2>1 DEF IInv, Explained, MissesExplainStatus
<1>14. Noticed'
  <2>1. \A q, x : \A n \in Nat \ {0} : <<q, x, n>> \in sent' <=> <<q, x, n>> \in sent
    BY <1>1
  <2>2. ASSUME NEW q \in Policies, NEW x \in Statements, Status(q, x)' = "proposed"
        PROVE  \E n \in Nat : <<q, x, n>> \in sent'
    <3>1. CASE Status(q, x) = "proposed"
      BY <1>1, <3>1 DEF IInv, Noticed
    <3>2. CASE Status(q, x) # "proposed"
      <4>1. q = Supplier /\ x = f /\ f # <<>>
        BY <1>10, <2>2, <3>2
      <4> QED
        BY <1>1, <4>1
    <3> QED
      BY <3>1, <3>2
  <2>3. ASSUME NEW q \in Policies, NEW x \in Statements, NEW n \in Nat
        PROVE  Unread(q, x, n)'
    <3>1. Status(q, x)' \in Decided <=> Status(q, x) \in Decided
      BY <1>10 DEF Decided
    <3>2. Unread(q, x, n) /\ marked' = marked /\ marked \subseteq sent
      BY <1>1, <1>2 DEF IInv, Noticed, TypeOK
    <3>3. CASE f = <<>> \/ <<q, x, n>> # <<Supplier, f, 0>> \/ <<Supplier, f, 0>> \in sent
      <4>1. /\ <<q, x, n>> \in sent' <=> <<q, x, n>> \in sent
            /\ <<q, x, n>> \in unread' <=> <<q, x, n>> \in unread
        BY <1>1, <3>3
      <4> QED
        BY <3>1, <3>2, <4>1 DEF Unread
    <3>4. CASE f # <<>> /\ <<q, x, n>> = <<Supplier, f, 0>> /\ <<Supplier, f, 0>> \notin sent
      <4>1. q = Supplier /\ x = f
        BY <3>4
      <4>2. Status(q, x) \notin Decided
        BY <1>3, <3>4, <4>1 DEF IInv, SetUp, Decided
      <4>3. <<q, x, n>> \in sent' /\ <<q, x, n>> \in unread'
        BY <1>1, <3>4
      <4> QED
        BY <3>1, <3>2, <3>4, <4>2, <4>3 DEF Unread
    <3> QED
      BY <3>3, <3>4
  <2>4. \A q \in Policies : runs'[q] = runs[q]
    BY <1>1
  <2> QED
    BY <2>1, <2>2, <2>3, <2>4 DEF IInv, Noticed
<1>15. SetUp'
  <2>1. UNCHANGED FixtureStatement
    OBVIOUS
  <2>2. policy'[Supplier] # "absent"
    BY <1>1, <1>2 DEF TypeOK
  <2>3. f # <<>> => Status(Supplier, f)' # "none" /\ <<Supplier, f, 0>> \in sent'
    BY <1>1, <1>2, <1>3, <1>4, <1>6, <1>10 DEF Status
  <2>4. \A q \in Policies, x \in Statements : <<q, x, 0>> \in sent' =>
            q = Supplier /\ x = f
    BY <1>1 DEF IInv, SetUp
  <2> QED
    BY <2>1, <2>2, <2>3, <2>4 DEF SetUp
<1>16. Grounded'
    BY <1>8, <1>9, <1>10 DEF IInv, Grounded, Decided, Status
<1>17. LinksWithinEvidence'
    BY <1>4, <1>5 DEF IInv, LinksWithinEvidence
<1> QED
    BY <1>8, <1>11, <1>13, <1>14, <1>15, <1>16, <1>17 DEF IInv

\* A recipient marks the requests of the policies they own.
LEMMA MarkStep ==
    ASSUME IInv, NEW owner, markNotificationsRead(owner)
    PROVE  IInv' /\ UNCHANGED <<candidate, grounds>>
<1> DEFINE mine == {k \in unread : OwnerOf[k[1]] = owner}
<1>1. /\ unread' = unread \ mine /\ marked' = marked \cup mine
      /\ UNCHANGED <<policy, runs, candidate, sent, grounds, monitor, rejected>>
    BY DEF markNotificationsRead
<1>2. TypeOK' /\ Typed'
    BY <1>1 DEF IInv, TypeOK, Typed
<1>3. Grounded' /\ LinksWithinEvidence'
    BY <1>1 DEF IInv, Grounded, LinksWithinEvidence, Status
<1>4. \A p, s : Status(p, s)' = Status(p, s) /\ Seen(p, s)' = Seen(p, s)
                /\ LastSeen(p, s)' = LastSeen(p, s) /\ Misses(p, s)' = Misses(p, s)
    BY <1>1 DEF Status, Seen, LastSeen, Misses
<1>5. Explained'
    BY <1>1, <1>4 DEF IInv, Explained, MissesExplainStatus
<1>6. Noticed'
  <2>1. ASSUME NEW p \in Policies, NEW s \in Statements, NEW n \in Nat
        PROVE  Unread(p, s, n)'
    <3>1. Unread(p, s, n)
      BY DEF IInv, Noticed
    <3>2. CASE <<p, s, n>> \in mine
      BY <1>1, <1>4, <3>1, <3>2 DEF Unread
    <3>3. CASE <<p, s, n>> \notin mine
      <4>1. /\ <<p, s, n>> \in unread' <=> <<p, s, n>> \in unread
            /\ <<p, s, n>> \in marked' <=> <<p, s, n>> \in marked
        BY <1>1, <3>3
      <4> QED
        BY <1>1, <1>4, <3>1, <4>1 DEF Unread
    <3> QED
      BY <3>2, <3>3
  <2> QED
    BY <1>1, <1>4, <2>1 DEF IInv, Noticed
<1>7. SetUp'
  <2>1. UNCHANGED FixtureStatement
    OBVIOUS
  <2> QED
    BY <1>1, <1>4, <2>1 DEF IInv, SetUp
<1> QED
    BY <1>1, <1>2, <1>3, <1>5, <1>6, <1>7 DEF IInv

-----------------------------------------------------------------------------

LEMMA InitIInv == Init => IInv
<1> SUFFICES ASSUME Init PROVE IInv
    OBVIOUS
<1> USE DiscoveryAssumption DEF Init
<1>1. NoCandidate \in CandidateRows
    BY DEF NoCandidate, CandidateRows
<1>2. TypeOK /\ Typed
    BY <1>1 DEF TypeOK, Typed
<1>3. \A p \in Policies, s \in Statements :
        /\ Status(p, s) = "none" /\ Seen(p, s) = {} /\ LastSeen(p, s) = 0
        /\ candidate[p][s].links = {}
  <2> TAKE p \in Policies, s \in Statements
  <2>1. candidate[p][s] = NoCandidate /\ runs[p] = <<>>
    OBVIOUS
  <2>2. Seen(p, s) = {}
    BY <2>1 DEF Seen
  <2> QED
    BY <2>1, <2>2, LastSeenIsLatest DEF Status, NoCandidate, LatestIn
<1>4. Explained
    BY <1>3 DEF Explained, MissesExplainStatus, IsLatest
<1>5. Noticed
    BY <1>3 DEF Noticed, Unread, Decided
<1>6. SetUp
    BY <1>3 DEF SetUp
<1>7. Grounded /\ LinksWithinEvidence
    BY <1>3 DEF Grounded, LinksWithinEvidence
<1> QED
    BY <1>2, <1>4, <1>5, <1>6, <1>7 DEF IInv

LEMMA NextIInv == IInv /\ [Next]_vars => IInv'
    BY RunStep, OperatorStep, ReviewStep, SetUpStep, MarkStep DEF Next

\* The inductive invariant holds in every state of every behaviour.
THEOREM DiscoveryInvariant == Spec => []IInv
    BY InitIInv, NextIInv, PTL DEF Spec

\* Every variable keeps its type.
THEOREM TypeCorrect == Spec => []TypeOK
<1>1. IInv => TypeOK
    BY DEF IInv
<1> QED
    BY <1>1, DiscoveryInvariant, PTL

\* An undecided candidate's status and count follow from the runs since it was
\* last seen.
THEOREM MissesExplainStatusHolds == Spec => []MissesExplainStatus
<1>1. IInv => MissesExplainStatus
    BY DEF IInv, Explained
<1> QED
    BY <1>1, DiscoveryInvariant, PTL

\* A candidate's observation links are links of the evidence it lists.
THEOREM LinksWithinEvidenceHolds == Spec => []LinksWithinEvidence
<1>1. IInv => LinksWithinEvidence
    BY DEF IInv
<1> QED
    BY <1>1, DiscoveryInvariant, PTL

\* A request per appearance, unread until its recipient marks it or the review
\* of a supplier policy's candidate reads it.
THEOREM NoticesFollowReviewHolds == Spec => []NoticesFollowReview
<1>1. IInv => NoticesFollowReview
  <2> SUFFICES ASSUME IInv, NEW p \in Policies, NEW s \in Statements
               PROVE  LET requests == {k \in sent : k[1] = p /\ k[2] = s}
                          appearances == {n \in DOMAIN runs[p] :
                            runs[p][n].found = s /\ runs[p][n].kind # "reobserved"}
                      IN  /\ {k[3] : k \in requests} \ {0} = appearances
                          /\ Status(p, s) = "proposed" => requests # {}
                          /\ requests \cap unread =
                                IF Status(p, s) \in Decided /\ p = Supplier THEN {}
                                ELSE requests \ marked
    BY DEF NoticesFollowReview
  <2> DEFINE requests == {k \in sent : k[1] = p /\ k[2] = s}
             appearances == {n \in DOMAIN runs[p] :
                runs[p][n].found = s /\ runs[p][n].kind # "reobserved"}
             notified == {k[3] : k \in requests}
  <2>1. \A k \in sent : k = <<k[1], k[2], k[3]>> /\ k[3] \in Nat
    BY DEF IInv, Typed
  <2>2. runs[p] \in Seq(RunRows)
    BY DEF IInv, Typed
  <2>3. Status(p, s) = "proposed" => requests # {}
    <3> SUFFICES ASSUME Status(p, s) = "proposed" PROVE requests # {}
      OBVIOUS
    <3>1. PICK n \in Nat : <<p, s, n>> \in sent
      BY DEF IInv, Noticed
    <3> QED
      BY <3>1
  <2>4. requests \cap unread = IF Status(p, s) \in Decided /\ p = Supplier THEN {}
                               ELSE requests \ marked
    <3>1. ASSUME NEW k \in requests
          PROVE  k \in unread <=> k \notin marked /\ ~(p = Supplier /\ Status(p, s) \in Decided)
      <4>1. k = <<p, s, k[3]>> /\ k[3] \in Nat /\ k \in sent
        BY <2>1, <3>1
      <4>2. Unread(p, s, k[3])
        BY <4>1 DEF IInv, Noticed
      <4> QED
        BY <4>1, <4>2 DEF Unread
    <3> HIDE DEF requests
    <3> QED
      BY <3>1
  <2>5. \A n : n \in notified <=> n \in Nat /\ <<p, s, n>> \in sent
    BY <2>1
  <2>6. \A n \in Nat \ {0} : <<p, s, n>> \in sent <=> n \in appearances
    BY DEF IInv, Noticed
  <2>7. appearances \subseteq Nat \ {0}
    BY <2>2
  <2> HIDE DEF notified, appearances
  <2>8. notified \ {0} = appearances
    BY <2>5, <2>6, <2>7
  <2> QED
    BY <2>3, <2>4, <2>8 DEF notified, appearances
<1> QED
    BY <1>1, DiscoveryInvariant, PTL

\* What a step may do to a decided candidate and the hypothesis made of it.
LEMMA NextKeepsDecisions ==
    ASSUME IInv, Next, NEW p \in Policies, NEW s \in Statements, Status(p, s) \in Decided
    PROVE  /\ Status(p, s)' = Status(p, s)
           /\ candidate'[p][s].evidence = candidate[p][s].evidence
           /\ grounds'[p][s] = grounds[p][s]
<1>1. ASSUME NEW q \in Policies, executeDiscoveryPolicy(q)
      PROVE  /\ Status(p, s)' = Status(p, s)
             /\ candidate'[p][s].evidence = candidate[p][s].evidence
             /\ grounds'[p][s] = grounds[p][s]
    BY <1>1, RunStep DEF executeDiscoveryPolicy
<1>2. ASSUME initializeDiscoveryDemo
             \/ \E q \in Policies, x \in Statements : Dismiss(q, x) \/ Accept(q, x)
      PROVE  /\ Status(p, s)' = Status(p, s)
             /\ candidate'[p][s].evidence = candidate[p][s].evidence
             /\ grounds'[p][s] = grounds[p][s]
    BY <1>2, SetUpStep, ReviewStep DEF Status
<1>3. CASE UNCHANGED <<candidate, grounds>>
    BY <1>3 DEF Status
<1> QED
    BY <1>1, <1>2, <1>3, OperatorStep, MarkStep DEF Next

\* No run, review or set-up changes a decision or the evidence it was taken on.
THEOREM DecisionIsFinalHolds == Spec => DecisionIsFinal
<1> DEFINE Final == \A p \in Policies, s \in Statements :
        Status(p, s) \in Decided =>
            /\ Status(p, s)' = Status(p, s)
            /\ candidate'[p][s].evidence = candidate[p][s].evidence
            /\ Status(p, s) = "accepted" => grounds'[p][s] = candidate[p][s].evidence
<1>1. IInv /\ [Next]_vars => [Final]_vars
    BY NextKeepsDecisions DEF IInv, Grounded
<1> QED
    BY <1>1, DiscoveryInvariant, PTL DEF Spec, DecisionIsFinal

\* The database refuses a run's links only for a decided candidate, whose
\* evidence no longer follows the runs; and decisions stay.
THEOREM OnlyDecisionsRefuseHolds == Spec => []OnlyDecisionsRefuse
<1>1. Init => OnlyDecisionsRefuse
    BY DEF Init, OnlyDecisionsRefuse
<1>2. ASSUME IInv, OnlyDecisionsRefuse, [Next]_vars,
             \A p \in Policies, s \in Statements :
                Status(p, s) \in Decided => Status(p, s)' = Status(p, s)
      PROVE  OnlyDecisionsRefuse'
  <2>1. ASSUME NEW p \in Policies, RejectedRun(p)
        PROVE  OnlyDecisionsRefuse'
    <3>1. PICK finding \in Findings :
            /\ finding[1] # <<>>
            /\ ~LinksValid(Refreshed(candidate[p][finding[1]], finding[2]), finding[2])
      BY <2>1 DEF RejectedRun
    <3>2. finding[1] \in Statements
      BY <3>1 DEF Statements
    <3>3. candidate[p][finding[1]] \in CandidateRows
      BY <1>2, <3>2 DEF IInv, TypeOK
    <3>4. Status(p, finding[1]) \in Decided
      <4> SUFFICES ASSUME Status(p, finding[1]) \notin Decided PROVE FALSE
        OBVIOUS
      <4>1. Refreshed(candidate[p][finding[1]], finding[2]).evidence = finding[2]
        BY <3>3 DEF Refreshed, Status, CandidateRows
      <4> QED
        BY <3>1, <4>1 DEF LinksValid, ObservationLinks
    <3>5. rejected' = rejected \cup {p} /\ UNCHANGED candidate
      BY <2>1 DEF RejectedRun
    <3> QED
      BY <1>2, <3>2, <3>4, <3>5 DEF OnlyDecisionsRefuse, Status
  <2>2. CASE UNCHANGED rejected
    BY <1>2, <2>2 DEF IInv, TypeOK, OnlyDecisionsRefuse
  <2> QED
    BY <1>2, <2>1, <2>2
    DEF Next, vars, executeDiscoveryPolicy, initializeDiscoveryDemo, operateDiscovery,
        createDiscoveryPolicy, Dismiss, Accept, markNotificationsRead,
        ScheduleMonitor, BaselineMonitor
<1>3. IInv /\ [Next]_vars => \A p \in Policies, s \in Statements :
                Status(p, s) \in Decided => Status(p, s)' = Status(p, s)
    BY NextKeepsDecisions DEF vars, Status
<1> QED
    BY <1>1, <1>2, <1>3, DiscoveryInvariant, PTL DEF Spec

=============================================================================
