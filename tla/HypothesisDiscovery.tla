------------------------ MODULE HypothesisDiscovery ------------------------
(***************************************************************************)
(* Continual discovery: a policy's run reads the documents of its sources, *)
(* derives at most one statement from the concepts they share, and forms,  *)
(* refreshes or reactivates the candidate of that statement; the policy's  *)
(* other proposed candidates miss the run, and two misses supersede one.   *)
(* A person accepts or dismisses a proposed candidate; accepting promotes  *)
(* it to a hypothesis, and then a monitor is created in transactions of    *)
(* its own.                                                                *)
(*                                                                         *)
(* A run, a review and a set-up of the demonstration are one transaction   *)
(* each: the run and the set-up lock the policy's row, the run and the     *)
(* review lock the candidate's.  Which worker executes which job is        *)
(* ControlPlaneQueue's.  A run here is one for a trigger its policy has no  *)
(* run of: that of a recorded trigger returns at once.  A document is      *)
(* reduced to the concept rules it matches.                                *)
(***************************************************************************)
EXTENDS Naturals, Sequences, FiniteSets, Functions

CONSTANTS
    Policies,           \* hypothesis_discovery_policies
    Supplier,           \* IDS.discoveryPolicies.supplierOnboarding
    OwnerOf,            \* each policy's owner, the recipient of its requests
    Documents,          \* content resources that the runs may load
    Perceived,          \* those with perception observations to link
    SourceOf,           \* the source of each document
    NumRules,           \* the concept rules are 1..NumRules, in id order
    MinimumDiversity,   \* minimum_source_diversity
    Corpora,            \* what rules the documents may match when a run reads
    Fixture,            \* what the documents of the demonstration match
    MaxRuns,            \* bound: runs of all policies together
    MaxMonitors         \* bound: monitors whose creation goes on after a promotion

ASSUME DiscoveryAssumption ==
    /\ Supplier \in Policies
    /\ DOMAIN OwnerOf = Policies
    /\ Perceived \subseteq Documents
    /\ DOMAIN SourceOf = Documents
    /\ NumRules \in Nat /\ MinimumDiversity \in Nat \ {0}
    /\ Corpora \cup {Fixture} \subseteq [Documents -> SUBSET (1..NumRules)]
    /\ MaxRuns \in Nat /\ MaxMonitors \in Nat

VARIABLES
    policy,         \* policy[p]: "absent", "active" or "paused"
    runs,           \* runs[p]: its runs by executeDiscoveryPolicy, in order
    candidate,      \* candidate[p][s]: the row of statement s, if any
    sent,           \* review notifications in the outbox: <<p, s, run>>
    unread,         \* those not yet 'read'
    marked,         \* history: those 'read' by their recipient's command
    grounds,        \* grounds[p][s]: documents materialised as Evidence
    monitor,        \* monitor[p][s]: how far createHypothesisMonitor came
    rejected        \* policies with a run that 0026's trigger rolled back

vars == <<policy, runs, candidate, sent, unread, marked, grounds, monitor, rejected>>

Rules == 1..NumRules

-----------------------------------------------------------------------------
(* discoverHypotheses: which statement the documents support *)

documentsForRule(content, r) == {d \in Documents : r \in content[d]}

diversity(docs) == Cardinality({SourceOf[d] : d \in docs})

\* The order of the matches: diversity, then evidence, then the rule's id.
Precedes(content, a, b) ==
    LET A == documentsForRule(content, a)
        B == documentsForRule(content, b)
    IN  \/ diversity(A) > diversity(B)
        \/ diversity(A) = diversity(B) /\ Cardinality(A) > Cardinality(B)
        \/ diversity(A) = diversity(B) /\ Cardinality(A) = Cardinality(B) /\ a < b

FirstOf(content, rules) ==
    CHOOSE a \in rules : \A b \in rules \ {a} : Precedes(content, a, b)

\* A statement is the primary rule, alone or followed by the secondary one.
discoverHypotheses(content) ==
    LET matched == {r \in Rules :
            diversity(documentsForRule(content, r)) >= MinimumDiversity}
        primary == FirstOf(content, matched)
        sharing == {r \in matched \ {primary} :
            documentsForRule(content, r) \cap documentsForRule(content, primary) # {}}
    IN  IF matched = {} THEN <<>>
        ELSE IF sharing = {} THEN <<primary>>
        ELSE <<primary, FirstOf(content, sharing)>>

EvidenceOf(content, s) == UNION {documentsForRule(content, s[i]) : i \in DOMAIN s}

\* What a run may find: a statement, or none, and its evidence.
Finding(content) ==
    LET s == discoverHypotheses(content) IN <<s, EvidenceOf(content, s)>>

Findings == {Finding(content) : content \in Corpora}

Statements == {f[1] : f \in Findings \cup {Finding(Fixture)}} \ {<<>>}

-----------------------------------------------------------------------------
Keys == {<<p, s>> : p \in Policies, s \in Statements}

Decided == {"accepted", "dismissed"}

CandidateRows ==
    [status: {"none", "proposed", "superseded"} \cup Decided, missing: 0..2,
     evidence: SUBSET Documents, links: SUBSET Documents]

NoCandidate == [status |-> "none", missing |-> 0, evidence |-> {}, links |-> {}]

RunRows ==
    [found: Statements \cup {<<>>}, evidence: SUBSET Documents,
     kind: {"formed", "reobserved", "reactivated", "none"}]

TypeOK ==
    /\ policy \in [Policies -> {"absent", "active", "paused"}]
    /\ \A p \in Policies : \A n \in DOMAIN runs[p] : runs[p][n] \in RunRows
    /\ candidate \in [Policies -> [Statements -> CandidateRows]]
    /\ unread \subseteq sent /\ marked \subseteq sent
    /\ grounds \in [Policies -> [Statements -> SUBSET Documents]]
    /\ monitor \in [Policies -> [Statements ->
        {"none", "promised", "scheduled", "watching"}]]
    /\ rejected \subseteq Policies

Init ==
    /\ policy = [p \in Policies |-> "absent"]
    /\ runs = [p \in Policies |-> <<>>]
    /\ candidate = [p \in Policies |-> [s \in Statements |-> NoCandidate]]
    /\ sent = {}
    /\ unread = {}
    /\ marked = {}
    /\ grounds = [p \in Policies |-> [s \in Statements |-> {}]]
    /\ monitor = [p \in Policies |-> [s \in Statements |-> "none"]]
    /\ rejected = {}

Status(p, s) == candidate[p][s].status

Notify(keys) ==
    /\ sent' = sent \cup keys
    /\ unread' = unread \cup (keys \ sent)

-----------------------------------------------------------------------------
(* executeDiscoveryPolicy *)

MayRun(p) ==
    /\ policy[p] = "active"
    /\ FoldFunction(LAMBDA log, n : Len(log) + n, 0, runs) < MaxRuns

\* The links of an observation: the perceived documents among its evidence.
ObservationLinks(evidence) == evidence \cap Perceived

\* Mutant: the links of the previous observation are not deleted.
AccumulatedLinks(row, evidence) == row.links \cup ObservationLinks(evidence)

\* DELETE all links of the candidate, INSERT those of this observation.
replaceObservationEvidenceLinks(row, evidence) == ObservationLinks(evidence)

\* The trigger on an inserted link: its document is among the candidate's
\* evidence.
LinksValid(row, evidence) == ObservationLinks(evidence) \subseteq row.evidence

\* Mutant: the refresh leaves missing_run_count as it is.
RefreshedKeepingMisses(row, evidence) ==
    CASE row.status \in {"none", "superseded"} ->
            [row EXCEPT !.status = "proposed", !.missing = 0, !.evidence = evidence]
      [] row.status = "proposed" -> [row EXCEPT !.evidence = evidence]
      [] OTHER -> row

\* Mutant: a dismissed candidate that is seen again is refreshed as well.
RefreshedAfterDismissal(row, evidence) ==
    IF row.status = "accepted" THEN row
    ELSE [row EXCEPT !.status = "proposed", !.missing = 0, !.evidence = evidence]

\* Mutant: a candidate that is still proposed keeps the evidence it was formed on.
RefreshedKeepingEvidence(row, evidence) ==
    CASE row.status \in Decided -> row
      [] row.status = "proposed" -> [row EXCEPT !.missing = 0]
      [] OTHER -> [row EXCEPT !.status = "proposed", !.missing = 0, !.evidence = evidence]

Refreshed(row, evidence) ==
    IF row.status \in Decided THEN row
    ELSE [row EXCEPT !.status = "proposed", !.missing = 0, !.evidence = evidence]

\* Mutant: the sweep counts, and never supersedes.
MissedForever(row) == [row EXCEPT !.missing = @ + 1]

Missed(row) ==
    [row EXCEPT !.missing = @ + 1,
                !.status = IF row.missing + 1 >= 2 THEN "superseded" ELSE @]

AfterRun(rows, s, evidence) ==
    [x \in Statements |->
        IF x = s
        THEN LET row == Refreshed(rows[x], evidence)
             IN  [row EXCEPT !.links = replaceObservationEvidenceLinks(row, evidence)]
        ELSE IF rows[x].status = "proposed" THEN Missed(rows[x]) ELSE rows[x]]

observationKind(row) ==
    CASE row.status = "none" -> "formed"
      [] row.status = "superseded" -> "reactivated"
      [] OTHER -> "reobserved"

\* A run of an active policy for a new trigger.  The run of a recorded trigger
\* and that of a policy that is not active change nothing.
executeDiscoveryPolicy(p) ==
    /\ MayRun(p)
    /\ \E finding \in Findings :
        LET s == finding[1]
            evidence == finding[2]
            kind == IF s = <<>> THEN "none" ELSE observationKind(candidate[p][s])
        IN  /\ s # <<>> => LinksValid(Refreshed(candidate[p][s], evidence), evidence)
            /\ candidate' = [candidate EXCEPT ![p] = AfterRun(@, s, evidence)]
            /\ runs' = [runs EXCEPT ![p] = Append(@,
                [found |-> s, evidence |-> evidence, kind |-> kind])]
            /\ Notify(IF kind \in {"formed", "reactivated"}
                      THEN {<<p, s, Len(runs[p]) + 1>>} ELSE {})
    /\ UNCHANGED <<policy, marked, grounds, monitor, rejected>>

\* The same run when the trigger refuses a link: everything is rolled back, and
\* the job is retried with the same trigger.
RejectedRun(p) ==
    /\ MayRun(p)
    /\ \E finding \in Findings :
        LET s == finding[1]
            evidence == finding[2]
        IN  /\ s # <<>>
            /\ ~LinksValid(Refreshed(candidate[p][s], evidence), evidence)
    /\ rejected' = rejected \cup {p}
    /\ UNCHANGED <<policy, runs, candidate, sent, unread, marked, grounds, monitor>>

-----------------------------------------------------------------------------
(* Setting policies up, pausing, reviewing *)

\* initializeDiscoveryDemo: the policy, and the candidate its own documents
\* form, unless the statement has one; accepted evidence is materialised again.
initializeDiscoveryDemo ==
    LET s == Finding(Fixture)[1]
        formed == [NoCandidate EXCEPT !.status = "proposed",
                                      !.evidence = Finding(Fixture)[2]]
    IN  /\ policy' = [policy EXCEPT ![Supplier] = IF @ = "absent" THEN "active" ELSE @]
        /\ IF s = <<>> THEN UNCHANGED <<candidate, sent, unread>>
           ELSE /\ candidate' = [candidate EXCEPT ![Supplier][s] =
                        IF @.status = "none" THEN formed ELSE @]
                /\ Notify({<<Supplier, s, 0>>})
        /\ grounds' = [grounds EXCEPT ![Supplier] = [x \in Statements |->
                IF Status(Supplier, x) = "accepted"
                THEN @[x] \cup candidate[Supplier][x].evidence ELSE @[x]]]
        /\ UNCHANGED <<runs, marked, monitor, rejected>>

\* createDiscoveryPolicy, ensurePerceptionDiscoveryPolicy: the other policies.
createDiscoveryPolicy(p) ==
    /\ p # Supplier
    /\ policy[p] = "absent"
    /\ policy' = [policy EXCEPT ![p] = "active"]
    /\ UNCHANGED <<runs, candidate, sent, unread, marked, grounds, monitor, rejected>>

\* Pausing and resuming name the supplier policy.
operateDiscovery ==
    /\ policy[Supplier] # "absent"
    /\ policy' = [policy EXCEPT ![Supplier] = IF @ = "active" THEN "paused" ELSE "active"]
    /\ UNCHANGED <<runs, candidate, sent, unread, marked, grounds, monitor, rejected>>

\* Mutant: the review names the candidate's notification of its first run only.
ReadFirst(p, s) == unread \ {<<p, s, 0>>, <<p, s, 1>>}

\* A review reads the notifications of the supplier policy's candidate: those
\* of another policy's candidate stay unread.
ReadNotices(p, s) == {k \in unread : ~(p = Supplier /\ k[1] = p /\ k[2] = s)}

Dismiss(p, s) ==
    /\ Status(p, s) = "proposed"
    /\ candidate' = [candidate EXCEPT ![p][s].status = "dismissed"]
    /\ unread' = ReadNotices(p, s)
    /\ UNCHANGED <<policy, runs, sent, marked, grounds, monitor, rejected>>

\* The promotion: the hypothesis with its evidence, the candidate's decision.
Accept(p, s) ==
    /\ Status(p, s) = "proposed"
    /\ candidate' = [candidate EXCEPT ![p][s].status = "accepted"]
    /\ unread' = ReadNotices(p, s)
    /\ grounds' = [grounds EXCEPT ![p][s] = @ \cup candidate[p][s].evidence]
    /\ monitor' = [monitor EXCEPT ![p][s] = "promised"]
    /\ UNCHANGED <<policy, runs, sent, marked, rejected>>

\* operateMonitor('mark-notifications-read'): every notification of the actor,
\* whatever it asks for, and whether or not its candidate is decided.
markNotificationsRead(owner) ==
    LET mine == {k \in unread : OwnerOf[k[1]] = owner}
    IN  /\ mine # {}
        /\ unread' = unread \ mine
        /\ marked' = marked \cup mine
        /\ UNCHANGED <<policy, runs, candidate, sent, grounds, monitor, rejected>>

\* createHypothesisMonitor, after the promotion has committed: the policy and
\* its schedule, then the context outside a transaction, then the baseline.  A
\* reviewer's request that dies, or a step that throws, takes no further step,
\* and nothing resumes it: a second review of the candidate finds it decided
\* and returns.
ScheduleMonitor(p, s) ==
    /\ monitor[p][s] = "promised"
    /\ Cardinality({k \in Keys : monitor[k[1]][k[2]] \in {"scheduled", "watching"}})
            < MaxMonitors
    /\ monitor' = [monitor EXCEPT ![p][s] = "scheduled"]
    /\ UNCHANGED <<policy, runs, candidate, sent, unread, marked, grounds, rejected>>

BaselineMonitor(p, s) ==
    /\ monitor[p][s] = "scheduled"
    /\ monitor' = [monitor EXCEPT ![p][s] = "watching"]
    /\ UNCHANGED <<policy, runs, candidate, sent, unread, marked, grounds, rejected>>

Next ==
    \/ initializeDiscoveryDemo
    \/ operateDiscovery
    \/ \E p \in Policies : createDiscoveryPolicy(p)
    \/ \E p \in Policies : executeDiscoveryPolicy(p)
    \/ \E p \in Policies : RejectedRun(p)
    \/ \E p \in Policies, s \in Statements : Dismiss(p, s)
    \/ \E p \in Policies, s \in Statements : Accept(p, s)
    \/ \E p \in Policies : markNotificationsRead(OwnerOf[p])
    \/ \E p \in Policies, s \in Statements : ScheduleMonitor(p, s)
    \/ \E p \in Policies, s \in Statements : BaselineMonitor(p, s)

Spec == Init /\ [][Next]_vars

-----------------------------------------------------------------------------
(* Properties *)

\* The last run of p that found s, or 0.
LastSeen(p, s) ==
    LET seen == {n \in DOMAIN runs[p] : runs[p][n].found = s}
    IN  IF seen = {} THEN 0 ELSE CHOOSE n \in seen : \A m \in seen : m <= n

Misses(p, s) == Len(runs[p]) - LastSeen(p, s)

\* An undecided candidate's status and count follow from the runs since it was
\* last seen: it is proposed until a second run misses it, and superseded from
\* then until a run finds it again, however pauses, replays, rejected runs,
\* reviews of others and the runs of other policies fall in between.
MissesExplainStatus ==
    \A p \in Policies, s \in Statements :
        /\ Status(p, s) = "proposed" =>
            Misses(p, s) < 2 /\ candidate[p][s].missing = Misses(p, s)
        /\ Status(p, s) = "superseded" =>
            Misses(p, s) >= 2 /\ candidate[p][s].missing = 2
        /\ Status(p, s) = "none" => LastSeen(p, s) = 0

\* A candidate was asked for once per appearance, its formation and each of its
\* reactivations, and a proposed one was asked for.  Its requests are unread
\* until their recipient marks them, and are not sent again after that; the
\* review of a supplier policy's candidate leaves none of them unread, that of
\* another policy's candidate leaves them as they are.
NoticesFollowReview ==
    \A p \in Policies, s \in Statements :
        LET requests == {k \in sent : k[1] = p /\ k[2] = s}
            appearances == {n \in DOMAIN runs[p] :
                runs[p][n].found = s /\ runs[p][n].kind # "reobserved"}
        IN  /\ {k[3] : k \in requests} \ {0} = appearances
            /\ Status(p, s) = "proposed" => requests # {}
            /\ requests \cap unread =
                    IF Status(p, s) \in Decided /\ p = Supplier THEN {}
                    ELSE requests \ marked

\* A decision is final: later runs of the policy, whatever they find, and later
\* set-ups of the demonstration leave the candidate's decision and the evidence
\* it was taken on, and the promoted hypothesis rests on exactly that evidence.
DecisionIsFinal ==
    [][\A p \in Policies, s \in Statements :
        Status(p, s) \in Decided =>
            /\ Status(p, s)' = Status(p, s)
            /\ candidate'[p][s].evidence = candidate[p][s].evidence
            /\ Status(p, s) = "accepted" => grounds'[p][s] = candidate[p][s].evidence]_vars

\* The observation links a reader of a candidate sees are links of the evidence
\* the candidate lists.  The trigger checks a link when it is written and not
\* when the candidate's evidence is replaced later.
LinksWithinEvidence ==
    \A p \in Policies, s \in Statements :
        candidate[p][s].links \subseteq candidate[p][s].evidence

\* A run is refused for its observation only after somebody decided on a
\* candidate of its policy: undecided candidates follow what the runs observe,
\* so before the first decision of a policy none of its runs is ever lost.
OnlyDecisionsRefuse ==
    \A p \in rejected : \E s \in Statements : Status(p, s) \in Decided

\* README.md:19 of the repository promises workers that "retry failures and
\* preserve immutable observations of each candidate": no run of a policy is
\* refused by the database for what it observed.
ObservationsPreserved == rejected = {}

=============================================================================
