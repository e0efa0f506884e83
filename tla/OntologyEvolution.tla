------------------------- MODULE OntologyEvolution -------------------------
(***************************************************************************)
(* Governed semantic evolution: immutable ontology versions, one of them   *)
(* current; proposals, each validated against the version that was current *)
(* when it was read; the steward's review, which publishes the successor   *)
(* of the proposal's base or supersedes the proposal; the ontology editor, *)
(* which publishes without a proposal; the discovery policies, which pin a *)
(* version, and their runs, which record it.                               *)
(*                                                                         *)
(* Publications exclude each other by an advisory lock.  What happens      *)
(* under it is one action, except that an approval analyses its impact     *)
(* first and commits later: discovery does not take that lock.  A proposal *)
(* and a new policy read the current version in one step and commit in     *)
(* another.  A schema is reduced to the set of the names it defines.       *)
(***************************************************************************)
EXTENDS Naturals, Sequences, FiniteSets

CONSTANTS
    Names,          \* types, relationships and aliases that may be added
    Relationships,  \* those that are relationships
    Requires,       \* Requires[x]: names that x's endpoints or target name
    Proposals,      \* proposal ids, one per discovery candidate
    Policies,       \* hypothesis_discovery_policies
    MaxVersions,    \* bound: ontology versions
    MaxRuns         \* bound: discovery runs

ASSUME OntologyAssumption ==
    /\ Relationships \subseteq Names
    /\ Requires \in [Names -> SUBSET Names]
    /\ {"bootstrap", "editor"} \cap Proposals = {}
    /\ MaxVersions \in Nat \ {0} /\ MaxRuns \in Nat

VARIABLES
    versions,       \* ontology_versions in the order of publication
    proposal,       \* ontology_change_proposals
    proposing,      \* proposing[q]: what a proposer of q read, or NoProposal
    approving,      \* the approval under way, holding the advisory lock
    pin,            \* a policy's ontology_version_id, 0 if it has no row
    creating,       \* the version read by a creation under way, or 0
    ran,            \* discovery runs in commit order
    receipts        \* ontology_activation_runs

vars == <<versions, proposal, proposing, approving, pin, creating, ran, receipts>>

VersionIds == 1..MaxVersions
RunIds == 1..MaxRuns

NoProposal == [status |-> "none", base |-> 0, changes |-> {}, impact |-> {},
               published |-> 0]

NoApproval == [of |-> "none", impact |-> {}]

\* The row and what is recorded beside it: policies whose creation was under
\* way when the version was published.
VersionRows ==
    [status: {"current", "superseded"}, names: SUBSET Names,
     publisher: {"bootstrap", "editor"} \cup Proposals, unseen: SUBSET Policies]

ProposalRows ==
    [status: {"none", "proposed", "approved", "rejected", "superseded"},
     base: 0..MaxVersions, changes: SUBSET Names, impact: SUBSET RunIds,
     published: 0..MaxVersions]

\* A run's own version, the one current and the approval open at its commit.
RunRows == [policy: Policies, ontology: VersionIds, current: VersionIds,
            during: Proposals \cup {"none"}]

TypeOK ==
    /\ versions \in Seq(VersionRows) /\ Len(versions) \in VersionIds
    /\ proposal \in [Proposals -> ProposalRows]
    /\ proposing \in [Proposals -> ProposalRows]
    /\ approving = NoApproval \/ approving.of \in Proposals
    /\ approving.impact \subseteq RunIds
    /\ pin \in [Policies -> 0..MaxVersions]
    /\ creating \in [Policies -> 0..MaxVersions]
    /\ ran \in Seq(RunRows) /\ Len(ran) <= MaxRuns

\* storeCurrentOntology: the bootstrapped version.
Init ==
    /\ \E names \in SUBSET Names :
        /\ \A x \in names : Requires[x] \subseteq names
        /\ versions = <<[status |-> "current", names |-> names,
                         publisher |-> "bootstrap", unseen |-> {}]>>
    /\ proposal = [q \in Proposals |-> NoProposal]
    /\ proposing = [q \in Proposals |-> NoProposal]
    /\ approving = NoApproval
    /\ pin = [p \in Policies |-> 0]
    /\ creating = [p \in Policies |-> 0]
    /\ ran = <<>>
    /\ receipts = {}

-----------------------------------------------------------------------------
(* Helpers *)

Current == CHOOSE v \in DOMAIN versions : versions[v].status = "current"

\* applyOntologyChangeSet throws on a name that exists and on an endpoint or a
\* target that does not.  Change sets list types before what names them.
Applies(names, changes) ==
    /\ changes \cap names = {}
    /\ \A x \in changes : Requires[x] \subseteq names \cup changes

applyOntologyChangeSet(names, changes) == names \cup changes

\* The candidates whose evidence the changes affect: a run stands for the
\* candidate it forms.
analyseImpact == DOMAIN ran

LockFree == approving = NoApproval

Publish(names, publisher) ==
    versions' = Append([versions EXCEPT ![Current].status = "superseded"],
        [status |-> "current", names |-> names, publisher |-> publisher,
         unseen |-> {p \in Policies : creating[p] # 0}])

-----------------------------------------------------------------------------
(* Proposals *)

\* proposeOntologyChange reads the current version, validates the changes and
\* analyses their impact; initializeSemanticEvolutionDemo first looks whether
\* the proposal exists.
ReadBase(q) ==
    /\ proposal[q].status = "none"
    /\ proposing[q].status = "none"
    /\ \E changes \in SUBSET Names \ {{}} :
        /\ Applies(versions[Current].names, changes)
        /\ proposing' = [proposing EXCEPT ![q] =
            [status |-> "proposed", base |-> Current, changes |-> changes,
             impact |-> analyseImpact, published |-> 0]]
    /\ UNCHANGED <<versions, proposal, approving, pin, creating, ran, receipts>>

\* INSERT ... ON CONFLICT (id) DO NOTHING, and the commit.
proposeOntologyChange(q) ==
    /\ proposing[q].status = "proposed"
    /\ proposal' = [proposal EXCEPT ![q] = IF @.status = "none" THEN proposing[q] ELSE @]
    /\ proposing' = [proposing EXCEPT ![q] = NoProposal]
    /\ UNCHANGED <<versions, approving, pin, creating, ran, receipts>>

-----------------------------------------------------------------------------
(* The review *)

Reviewable(q) == LockFree /\ proposal[q].status = "proposed"

RejectProposal(q) ==
    /\ Reviewable(q)
    /\ proposal' = [proposal EXCEPT ![q].status = "rejected"]
    /\ UNCHANGED <<versions, proposing, approving, pin, creating, ran, receipts>>

\* Mutant: a proposal on an older version is rebased.
Rebasable(q) == TRUE

OnCurrentBase(q) == proposal[q].base = Current

SupersedeProposal(q) ==
    /\ Reviewable(q)
    /\ ~OnCurrentBase(q)
    /\ proposal' = [proposal EXCEPT ![q].status = "superseded"]
    /\ UNCHANGED <<versions, proposing, approving, pin, creating, ran, receipts>>

\* Mutant: the impact recorded with the proposal is used again.
ImpactAsProposed(q) == proposal[q].impact

ImpactOf(q) == analyseImpact

\* The approval up to its impact analysis.
AnalyseApproval(q) ==
    /\ Reviewable(q)
    /\ OnCurrentBase(q)
    /\ Applies(versions[Current].names, proposal[q].changes)
    /\ approving' = [of |-> q, impact |-> ImpactOf(q)]
    /\ UNCHANGED <<versions, proposal, proposing, pin, creating, ran, receipts>>

\* Mutant: only the policies that are pinned to the base advance.
AdvancedFromBase(p) == IF pin[p] = Current THEN Len(versions) + 1 ELSE pin[p]

\* Mutant: the successor is numbered after it was added.
AdvancedPastSuccessor(p) == IF pin[p] # 0 THEN Len(versions) + 2 ELSE 0

\* UPDATE hypothesis_discovery_policies: every row of the workspace.
Advanced(p) == IF pin[p] # 0 THEN Len(versions) + 1 ELSE 0

\* The rest of the approval and its commit.
PublishApproval ==
    LET q == approving.of
        row == proposal[q]
    IN  /\ ~LockFree
        /\ Len(versions) < MaxVersions
        /\ Publish(applyOntologyChangeSet(versions[Current].names, row.changes), q)
        /\ proposal' = [proposal EXCEPT ![q].status = "approved",
                                        ![q].impact = approving.impact,
                                        ![q].published = Len(versions) + 1]
        /\ pin' = [p \in Policies |-> Advanced(p)]
        /\ receipts' = receipts \cup {[proposal |-> q, from |-> Current,
                to |-> Len(versions) + 1, affected |-> approving.impact]}
        /\ approving' = NoApproval
        /\ UNCHANGED <<proposing, creating, ran>>

\* The approval fails or its process dies: everything is rolled back.
RollBackApproval ==
    /\ ~LockFree
    /\ approving' = NoApproval
    /\ UNCHANGED <<versions, proposal, proposing, pin, creating, ran, receipts>>

\* Mutant: the editor adds the relationship to the current version's schema.
AmendCurrent(x) == versions' = [versions EXCEPT ![Current].names = @ \cup {x}]

PublishRelationship(x) == Publish(versions[Current].names \cup {x}, "editor")

\* The editor adds a relationship between existing types; no policy advances.
publishOntologyRelationship ==
    /\ LockFree
    /\ Len(versions) < MaxVersions
    /\ \E x \in Relationships \ versions[Current].names :
        /\ Requires[x] \subseteq versions[Current].names
        /\ PublishRelationship(x)
    /\ UNCHANGED <<proposal, proposing, approving, pin, creating, ran, receipts>>

-----------------------------------------------------------------------------
(* Discovery policies and runs *)

\* INSERT ... (SELECT id ... WHERE status = 'current') ON CONFLICT (id) DO
\* UPDATE: the row is invisible to an approval until it commits, and a policy
\* that has a row keeps its pin.
ReadCurrentForPolicy(p) ==
    /\ pin[p] = 0
    /\ creating[p] = 0
    /\ creating' = [creating EXCEPT ![p] = Current]
    /\ UNCHANGED <<versions, proposal, proposing, approving, pin, ran, receipts>>

CreatePolicy(p) ==
    /\ creating[p] # 0
    /\ pin' = [pin EXCEPT ![p] = creating[p]]
    /\ creating' = [creating EXCEPT ![p] = 0]
    /\ UNCHANGED <<versions, proposal, proposing, approving, ran, receipts>>

\* A run records the version its policy pins.  Beside it stand the version that
\* is current and the approval under way when it commits.
RunDiscovery(p) ==
    /\ pin[p] # 0
    /\ Len(ran) < MaxRuns
    /\ ran' = Append(ran, [policy |-> p, ontology |-> pin[p], current |-> Current,
                           during |-> approving.of])
    /\ UNCHANGED <<versions, proposal, proposing, approving, pin, creating, receipts>>

Next ==
    \/ \E q \in Proposals : ReadBase(q)
    \/ \E q \in Proposals : proposeOntologyChange(q)
    \/ \E q \in Proposals : RejectProposal(q)
    \/ \E q \in Proposals : SupersedeProposal(q)
    \/ \E q \in Proposals : AnalyseApproval(q)
    \/ PublishApproval
    \/ RollBackApproval
    \/ publishOntologyRelationship
    \/ \E p \in Policies : ReadCurrentForPolicy(p)
    \/ \E p \in Policies : CreatePolicy(p)
    \/ \E p \in Policies : RunDiscovery(p)

Spec == Init /\ [][Next]_vars

-----------------------------------------------------------------------------
(* Properties *)

\* docs/semantic-evolution.md of the repository: "If the base changed first, the
\* proposal becomes superseded; it is never silently rebased."  What an approved
\* proposal published is its base with its changes, nothing else published in
\* between; a version published by a proposal is that proposal's, and the newest
\* version is the only current one.
NeverRebased ==
    /\ \A v \in DOMAIN versions : versions[v].status = "current" <=> v = Len(versions)
    /\ \A q \in Proposals : proposal[q].status = "approved" =>
        LET v == proposal[q].published
        IN  /\ v \in DOMAIN versions /\ v = proposal[q].base + 1
            /\ versions[v].publisher = q
            /\ versions[v].names = versions[v - 1].names \cup proposal[q].changes
            /\ versions[v - 1].names \cap proposal[q].changes = {}
    /\ \A v \in DOMAIN versions : versions[v].publisher \in Proposals =>
        LET q == versions[v].publisher
        IN  proposal[q].status = "approved" /\ proposal[q].published = v

\* A proposal that was validated against the current version still applies to
\* it, so an approval does not fail on its own change set: the throw in
\* applyOntologyChangeSet is out of an approval's reach.
ValidatedStaysValid ==
    \A q \in Proposals :
        proposal[q].status = "proposed" /\ OnCurrentBase(q) =>
            Applies(versions[Current].names, proposal[q].changes)

\* Every candidate that was formed before an activation is among the
\* hypotheses its receipt lists, but those whose run committed while the
\* approval was between its analysis and its commit.
ReceiptsListCandidates ==
    \A r \in receipts, n \in DOMAIN ran :
        ran[n].current <= r.from => n \in r.affected \/ ran[n].during = r.proposal

\* A run records the version that was current, unless what was published since
\* came from the editor, which advances no policy, or while the policy's
\* creation was under way, which no approval sees.
RunsUnderCurrentOntology ==
    \A n \in DOMAIN ran :
        \A v \in (ran[n].ontology + 1)..ran[n].current :
            versions[v].publisher = "editor" \/ ran[n].policy \in versions[v].unseen

=============================================================================
