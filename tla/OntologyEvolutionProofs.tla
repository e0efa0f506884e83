---------------------- MODULE OntologyEvolutionProofs ----------------------
(***************************************************************************)
(* Proofs of OntologyEvolution's type invariant and of its four safety     *)
(* invariants, for any names, requirements, proposals, policies and        *)
(* bounds.                                                                 *)
(*                                                                         *)
(* The argument rests on the versions being a chain: only the newest is    *)
(* current, and a publication changes no name of an older one.  Hence what *)
(* a proposal was validated against stays as it was (Grounded), what it    *)
(* published stays next to its base (Published), an approval under way     *)
(* knows every run but its own contemporaries (Receipted), and a policy    *)
(* falls behind only what the editor published or what was published while *)
(* the policy was being created (Pinned).                                  *)
(***************************************************************************)
EXTENDS OntologyEvolution, TLAPS

Chain == \A v \in DOMAIN versions : versions[v].status = "current" <=> v = Len(versions)

Valid(row) ==
    row.status = "proposed" =>
        /\ row.base \in DOMAIN versions
        /\ Applies(versions[row.base].names, row.changes)

Grounded ==
    /\ \A q \in Proposals : Valid(proposal[q]) /\ Valid(proposing[q])
    /\ ~LockFree =>
        /\ approving.of \in Proposals
        /\ proposal[approving.of].status = "proposed"
        /\ proposal[approving.of].base = Len(versions)

Published ==
    /\ \A q \in Proposals : proposal[q].status = "approved" =>
        LET v == proposal[q].published
        IN  /\ v \in DOMAIN versions /\ v = proposal[q].base + 1
            /\ proposal[q].base \in DOMAIN versions
            /\ versions[v].publisher = q
            /\ versions[v].names = versions[v - 1].names \cup proposal[q].changes
            /\ versions[v - 1].names \cap proposal[q].changes = {}
    /\ \A v \in DOMAIN versions : versions[v].publisher \in Proposals =>
        /\ proposal[versions[v].publisher].status = "approved"
        /\ proposal[versions[v].publisher].published = v

Receipted ==
    /\ \A n \in DOMAIN ran : ran[n].current <= Len(versions)
    /\ \A r \in receipts : r.from \in Nat /\ r.from < Len(versions)
    /\ ReceiptsListCandidates
    /\ ~LockFree =>
        \A n \in DOMAIN ran : n \in approving.impact \/ ran[n].during = approving.of

\* What was published after version v without reaching policy p.
Missed(v, p) ==
    \A w \in (v + 1)..Len(versions) :
        versions[w].publisher = "editor" \/ p \in versions[w].unseen

Pinned ==
    /\ \A p \in Policies :
        /\ pin[p] # 0 => pin[p] \in DOMAIN versions /\ Missed(pin[p], p)
        /\ creating[p] # 0 =>
            /\ creating[p] \in DOMAIN versions
            /\ \A w \in (creating[p] + 1)..Len(versions) : p \in versions[w].unseen
    /\ RunsUnderCurrentOntology

IInv == TypeOK /\ Chain /\ Grounded /\ Published /\ Receipted /\ Pinned

-----------------------------------------------------------------------------
(* The chain of versions *)

\* The newest version is the current one.
LEMMA CurrentIsLast ==
    ASSUME TypeOK, Chain
    PROVE  /\ Len(versions) \in 1..MaxVersions /\ DOMAIN versions = 1..Len(versions)
           /\ Current = Len(versions) /\ Current \in DOMAIN versions
           /\ \A v \in DOMAIN versions : versions[v] \in VersionRows
<1>1. /\ Len(versions) \in 1..MaxVersions /\ DOMAIN versions = 1..Len(versions)
      /\ \A v \in DOMAIN versions : versions[v] \in VersionRows
    BY OntologyAssumption DEF TypeOK, VersionIds
<1>2. Len(versions) \in DOMAIN versions
    BY <1>1, OntologyAssumption
<1>3. Current = Len(versions)
    BY <1>2 DEF Chain, Current
<1> QED
    BY <1>1, <1>2, <1>3

\* A run names versions by their numbers.
LEMMA RunIsTyped ==
    ASSUME TypeOK, NEW n \in DOMAIN ran
    PROVE  ran[n].current \in Nat /\ ran[n].ontology \in Nat
<1>1. ran[n] \in RunRows
    BY DEF TypeOK
<1> QED
    BY <1>1, OntologyAssumption DEF RunRows, VersionIds

\* A publication adds the current version, and changes the status of the one
\* before and nothing else.
LEMMA PublishEffect ==
    ASSUME TypeOK, Chain, Len(versions) < MaxVersions,
           NEW names \in SUBSET Names,
           NEW publisher \in {"bootstrap", "editor"} \cup Proposals,
           Publish(names, publisher)
    PROVE  /\ versions' \in Seq(VersionRows) /\ Len(versions') = Len(versions) + 1
           /\ DOMAIN versions' = 1..(Len(versions) + 1)
           /\ \A v \in DOMAIN versions :
                /\ versions'[v].names = versions[v].names
                /\ versions'[v].publisher = versions[v].publisher
                /\ versions'[v].unseen = versions[v].unseen
           /\ versions'[Len(versions) + 1] =
                [status |-> "current", names |-> names, publisher |-> publisher,
                 unseen |-> {p \in Policies : creating[p] # 0}]
           /\ Chain'
<1> DEFINE L == Len(versions)
           old == [versions EXCEPT ![L] = [versions[L] EXCEPT !.status = "superseded"]]
           new == [status |-> "current", names |-> names, publisher |-> publisher,
                   unseen |-> {p \in Policies : creating[p] # 0}]
<1>1. /\ L \in Nat /\ L \in 1..MaxVersions /\ DOMAIN versions = 1..L
      /\ Current = L /\ \A v \in 1..L : versions[v] \in VersionRows
    BY CurrentIsLast
<1>2. versions' = Append(old, new)
    BY <1>1 DEF Publish
<1>3. /\ old \in Seq(VersionRows) /\ Len(old) = L
      /\ \A v \in 1..L : old[v] = IF v = L THEN [versions[v] EXCEPT !.status = "superseded"]
                                  ELSE versions[v]
  <2>1. [versions[L] EXCEPT !.status = "superseded"] \in VersionRows
    BY <1>1 DEF VersionRows
  <2>2. versions \in Seq(VersionRows)
    BY DEF TypeOK
  <2>3. old \in [1..L -> VersionRows]
    BY <1>1, <2>1, <2>2
  <2>4. old \in Seq(VersionRows) /\ Len(old) = L
    BY <1>1, <2>3
  <2>5. \A v \in 1..L : old[v] = IF v = L THEN [versions[v] EXCEPT !.status = "superseded"]
                                  ELSE versions[v]
    BY <1>1, <2>2
  <2> QED
    BY <2>4, <2>5
<1>4. new \in VersionRows
    BY DEF VersionRows
<1> HIDE DEF old, new
<1>5. /\ versions' \in Seq(VersionRows) /\ Len(versions') = L + 1
      /\ DOMAIN versions' = 1..(L + 1)
      /\ versions'[L + 1] = new
      /\ \A v \in 1..L : versions'[v] = old[v]
    BY <1>1, <1>2, <1>3, <1>4
<1>6. \A v \in 1..L :
        /\ old[v].names = versions[v].names /\ old[v].publisher = versions[v].publisher
        /\ old[v].unseen = versions[v].unseen
        /\ old[v].status # "current"
    BY <1>1, <1>3 DEF VersionRows, Chain
<1>7. Chain'
  <2> SUFFICES ASSUME NEW v \in 1..(L + 1)
               PROVE  versions'[v].status = "current" <=> v = L + 1
    BY <1>5 DEF Chain
  <2>1. CASE v = L + 1
    BY <1>5, <2>1 DEF new
  <2>2. CASE v \in 1..L
    BY <1>1, <1>5, <1>6, <2>2
  <2> QED
    BY <1>1, <2>1, <2>2
<1> QED
    BY <1>1, <1>5, <1>6, <1>7 DEF new

-----------------------------------------------------------------------------
(* What keeps each part while no version is published *)

LEMMA ReceiptedKept ==
    ASSUME Receipted, UNCHANGED <<versions, ran, receipts>>,
           approving' \in {approving, NoApproval}
    PROVE  Receipted'
    BY DEF Receipted, ReceiptsListCandidates, LockFree

LEMMA PinnedKept ==
    ASSUME Pinned, UNCHANGED <<versions, pin, creating, ran>>
    PROVE  Pinned'
    BY DEF Pinned, Missed, RunsUnderCurrentOntology

LEMMA GroundedKept ==
    ASSUME Grounded, UNCHANGED <<versions, proposal, proposing>>,
           approving' \in {approving, NoApproval}
    PROVE  Grounded'
    BY DEF Grounded, Valid, LockFree, Applies

LEMMA PublishedKept ==
    ASSUME Published, UNCHANGED <<versions, proposal>>
    PROVE  Published'
    BY DEF Published

-----------------------------------------------------------------------------

LEMMA InitIInv == Init => IInv
<1> SUFFICES ASSUME Init PROVE IInv
    OBVIOUS
<1> DEFINE First(names) == [status |-> "current", names |-> names,
                            publisher |-> "bootstrap", unseen |-> {}]
<1>1. PICK names \in SUBSET Names : versions = <<First(names)>>
    BY DEF Init
<1>2. First(names) \in VersionRows
    BY DEF VersionRows
<1>3. /\ versions \in Seq(VersionRows) /\ Len(versions) = 1 /\ DOMAIN versions = {1}
      /\ versions[1].status = "current" /\ versions[1].publisher = "bootstrap"
    BY <1>1, <1>2
<1>4. /\ proposal = [q \in Proposals |-> NoProposal]
      /\ proposing = [q \in Proposals |-> NoProposal]
      /\ approving = NoApproval /\ ran = <<>> /\ receipts = {}
      /\ pin = [p \in Policies |-> 0] /\ creating = [p \in Policies |-> 0]
    BY DEF Init
<1>5. TypeOK
    BY <1>3, <1>4, OntologyAssumption
       DEF TypeOK, NoProposal, NoApproval, ProposalRows, VersionIds, RunIds
<1>6. Chain
    BY <1>3 DEF Chain
<1>7. Grounded
    BY <1>4 DEF Grounded, Valid, NoProposal, LockFree
<1>8. Published
    BY <1>3, <1>4, OntologyAssumption DEF Published, NoProposal
<1>9. Receipted
    BY <1>4 DEF Receipted, ReceiptsListCandidates, LockFree
<1>10. Pinned
    BY <1>4 DEF Pinned, RunsUnderCurrentOntology
<1> QED
    BY <1>5, <1>6, <1>7, <1>8, <1>9, <1>10 DEF IInv

LEMMA ReadBaseStep ==
    ASSUME IInv, NEW q \in Proposals, ReadBase(q)
    PROVE  IInv'
<1>1. TypeOK /\ Chain /\ Grounded /\ Published /\ Receipted /\ Pinned
    BY DEF IInv
<1>2. UNCHANGED <<versions, proposal, approving, pin, creating, ran, receipts>>
    BY DEF ReadBase
<1>3. PICK changes \in SUBSET Names \ {{}} :
        /\ Applies(versions[Current].names, changes)
        /\ proposing' = [proposing EXCEPT ![q] =
            [status |-> "proposed", base |-> Current, changes |-> changes,
             impact |-> analyseImpact, published |-> 0]]
    BY DEF ReadBase
<1> DEFINE row == [status |-> "proposed", base |-> Current, changes |-> changes,
                   impact |-> analyseImpact, published |-> 0]
<1>4. row \in ProposalRows
  <2>1. analyseImpact \subseteq RunIds
    BY <1>1, OntologyAssumption DEF TypeOK, analyseImpact, RunIds
  <2> QED
    BY <1>1, <2>1, CurrentIsLast, OntologyAssumption DEF ProposalRows
<1>5. TypeOK'
    BY <1>1, <1>2, <1>3, <1>4 DEF TypeOK
<1>6. Grounded'
  <2>1. Valid(row)
    BY <1>1, <1>3, CurrentIsLast DEF Valid
  <2>2. \A p \in Proposals : proposing'[p] = IF p = q THEN row ELSE proposing[p]
    BY <1>1, <1>3 DEF TypeOK
  <2> HIDE DEF row
  <2>3. \A p \in Proposals : Valid(proposing'[p])
    BY <1>1, <2>1, <2>2 DEF Grounded
  <2> QED
    BY <1>1, <1>2, <2>3 DEF Grounded, Valid, LockFree, Applies
<1>7. Published' /\ Receipted' /\ Pinned' /\ Chain'
    BY <1>1, <1>2, PublishedKept, ReceiptedKept, PinnedKept DEF Chain
<1> QED
    BY <1>5, <1>6, <1>7 DEF IInv

LEMMA ProposeStep ==
    ASSUME IInv, NEW q \in Proposals, proposeOntologyChange(q)
    PROVE  IInv'
<1>1. TypeOK /\ Chain /\ Grounded /\ Published /\ Receipted /\ Pinned
    BY DEF IInv
<1>2. /\ UNCHANGED <<versions, approving, pin, creating, ran, receipts>>
      /\ proposing[q].status = "proposed"
    BY DEF proposeOntologyChange
<1>3. /\ \A p \in Proposals \ {q} :
            proposal'[p] = proposal[p] /\ proposing'[p] = proposing[p]
      /\ proposal'[q] = IF proposal[q].status = "none" THEN proposing[q] ELSE proposal[q]
      /\ proposing'[q] = NoProposal
    BY <1>1 DEF TypeOK, proposeOntologyChange
<1>4. TypeOK'
  <2>1. NoProposal \in ProposalRows
    BY OntologyAssumption DEF NoProposal, ProposalRows
  <2> QED
    BY <1>1, <1>2, <2>1 DEF TypeOK, proposeOntologyChange
<1>5. Grounded'
  <2>1. \A p \in Proposals : Valid(proposal'[p]) /\ Valid(proposing'[p])
    BY <1>1, <1>3 DEF Grounded, Valid, NoProposal
  <2> QED
    BY <1>1, <1>2, <1>3, <2>1 DEF Grounded, Valid, LockFree, Applies
<1>6. Published'
    BY <1>1, <1>2, <1>3 DEF Published
<1>7. Receipted' /\ Pinned' /\ Chain'
    BY <1>1, <1>2, ReceiptedKept, PinnedKept DEF Chain
<1> QED
    BY <1>4, <1>5, <1>6, <1>7 DEF IInv

\* A review that publishes nothing: the proposal is rejected or superseded.
LEMMA ReviewStep ==
    ASSUME IInv, NEW q \in Proposals, RejectProposal(q) \/ SupersedeProposal(q)
    PROVE  IInv'
<1>1. TypeOK /\ Chain /\ Grounded /\ Published /\ Receipted /\ Pinned
    BY DEF IInv
<1>2. /\ UNCHANGED <<versions, proposing, approving, pin, creating, ran, receipts>>
      /\ LockFree /\ proposal[q].status = "proposed"
    BY DEF RejectProposal, SupersedeProposal, Reviewable
<1>3. PICK status \in {"rejected", "superseded"} :
        proposal' = [proposal EXCEPT ![q] = [proposal[q] EXCEPT !.status = status]]
    BY DEF RejectProposal, SupersedeProposal
<1>4. /\ [proposal[q] EXCEPT !.status = status] \in ProposalRows
      /\ [proposal[q] EXCEPT !.status = status].status = status
  <2>1. proposal[q] \in ProposalRows
    BY <1>1 DEF TypeOK
  <2>2. status \in {"none", "proposed", "approved", "rejected", "superseded"}
    OBVIOUS
  <2> QED
    BY <2>1, <2>2 DEF ProposalRows
<1>5. /\ \A p \in Proposals \ {q} : proposal'[p] = proposal[p]
      /\ proposal'[q].status \in {"rejected", "superseded"}
    BY <1>1, <1>3, <1>4 DEF TypeOK
<1>6. TypeOK'
    BY <1>1, <1>2, <1>3, <1>4 DEF TypeOK
<1>7. Grounded'
    BY <1>1, <1>2, <1>5 DEF Grounded, Valid, LockFree, Applies
<1>8. Published'
    BY <1>1, <1>2, <1>5 DEF Published
<1>9. Receipted' /\ Pinned' /\ Chain'
    BY <1>1, <1>2, ReceiptedKept, PinnedKept DEF Chain
<1> QED
    BY <1>6, <1>7, <1>8, <1>9 DEF IInv

LEMMA AnalyseStep ==
    ASSUME IInv, NEW q \in Proposals, AnalyseApproval(q)
    PROVE  IInv'
<1>1. TypeOK /\ Chain /\ Grounded /\ Published /\ Receipted /\ Pinned
    BY DEF IInv
<1>2. /\ UNCHANGED <<versions, proposal, proposing, pin, creating, ran, receipts>>
      /\ proposal[q].status = "proposed" /\ proposal[q].base = Current
    BY DEF AnalyseApproval, Reviewable, OnCurrentBase
<1>3. approving' = [of |-> q, impact |-> DOMAIN ran]
    BY DEF AnalyseApproval, ImpactOf, analyseImpact
<1>4. TypeOK'
  <2>1. DOMAIN ran \subseteq RunIds
    BY <1>1, OntologyAssumption DEF TypeOK, RunIds
  <2> QED
    BY <1>1, <1>2, <1>3, <2>1 DEF TypeOK
<1>5. Grounded'
    BY <1>1, <1>2, <1>3, CurrentIsLast DEF Grounded, Valid, LockFree, Applies
<1>6. Receipted'
    BY <1>1, <1>2, <1>3 DEF Receipted, ReceiptsListCandidates, LockFree
<1>7. Published' /\ Pinned' /\ Chain'
    BY <1>1, <1>2, PublishedKept, PinnedKept DEF Chain
<1> QED
    BY <1>4, <1>5, <1>6, <1>7 DEF IInv

LEMMA RollBackStep ==
    ASSUME IInv, RollBackApproval \/ UNCHANGED vars
    PROVE  IInv'
<1>1. TypeOK /\ Chain /\ Grounded /\ Published /\ Receipted /\ Pinned
    BY DEF IInv
<1>2. /\ UNCHANGED <<versions, proposal, proposing, pin, creating, ran, receipts>>
      /\ approving' \in {approving, NoApproval}
    BY DEF RollBackApproval, vars
<1>3. TypeOK'
    BY <1>1, <1>2 DEF TypeOK, NoApproval
<1> QED
    BY <1>1, <1>2, <1>3, GroundedKept, PublishedKept, ReceiptedKept, PinnedKept
       DEF IInv, Chain

LEMMA RunStep ==
    ASSUME IInv, NEW p \in Policies, RunDiscovery(p)
    PROVE  IInv'
<1> DEFINE row == [policy |-> p, ontology |-> pin[p], current |-> Current,
                   during |-> approving.of]
           N == Len(ran) + 1
<1>1. TypeOK /\ Chain /\ Grounded /\ Published /\ Receipted /\ Pinned
    BY DEF IInv
<1>2. /\ UNCHANGED <<versions, proposal, proposing, approving, pin, creating, receipts>>
      /\ pin[p] # 0 /\ Len(ran) < MaxRuns /\ ran' = Append(ran, row)
    BY DEF RunDiscovery
<1>3. /\ Current = Len(versions) /\ Current \in VersionIds
      /\ DOMAIN versions = 1..Len(versions)
    BY <1>1, CurrentIsLast DEF VersionIds
<1>4. row \in RunRows
  <2>1. approving.of \in Proposals \cup {"none"}
    BY <1>1 DEF TypeOK, NoApproval
  <2>2. pin[p] \in VersionIds
    BY <1>1, <1>2, OntologyAssumption DEF TypeOK, VersionIds
  <2> QED
    BY <1>3, <2>1, <2>2 DEF RunRows
<1>5. /\ row.policy = p /\ row.ontology = pin[p] /\ row.current = Len(versions)
      /\ row.during = approving.of
    BY <1>3
<1> HIDE DEF row
<1>6. /\ ran' \in Seq(RunRows) /\ Len(ran') = N /\ DOMAIN ran' = 1..N
      /\ ran'[N] = row /\ DOMAIN ran = 1..Len(ran) /\ Len(ran) \in Nat
      /\ \A n \in 1..Len(ran) : ran'[n] = ran[n]
    BY <1>1, <1>2, <1>4 DEF TypeOK
<1>7. TypeOK'
    BY <1>1, <1>2, <1>6, OntologyAssumption DEF TypeOK
<1>8. Grounded' /\ Published' /\ Chain'
    BY <1>1, <1>2, GroundedKept, PublishedKept DEF Chain
<1>9. \A n \in DOMAIN ran' : n = N \/ n \in DOMAIN ran
    BY <1>6
<1>10. Receipted'
  <2>1. \A n \in DOMAIN ran' : ran'[n].current <= Len(versions)
    BY <1>1, <1>3, <1>5, <1>6, <1>9 DEF Receipted
  <2>2. ASSUME NEW r \in receipts, NEW n \in DOMAIN ran', ran'[n].current <= r.from
        PROVE  n \in r.affected \/ ran'[n].during = r.proposal
    <3>1. CASE n = N
      <4>1. r.from < Len(versions) /\ r.from \in Nat /\ Len(versions) \in Nat
        BY <1>1, OntologyAssumption DEF Receipted, TypeOK
      <4> QED
        BY <1>5, <1>6, <2>2, <3>1, <4>1
    <3>2. CASE n \in DOMAIN ran
      BY <1>1, <1>6, <2>2, <3>2 DEF Receipted, ReceiptsListCandidates
    <3> QED
      BY <1>9, <3>1, <3>2
  <2>3. ASSUME ~LockFree, NEW n \in DOMAIN ran'
        PROVE  n \in approving.impact \/ ran'[n].during = approving.of
    BY <1>1, <1>5, <1>6, <1>9, <2>3 DEF Receipted
  <2> QED
    BY <1>1, <1>2, <2>1, <2>2, <2>3 DEF Receipted, ReceiptsListCandidates, LockFree
<1>11. Pinned'
  <2>1. ASSUME NEW n \in DOMAIN ran',
               NEW v \in (ran'[n].ontology + 1)..ran'[n].current
        PROVE  versions[v].publisher = "editor"
                \/ ran'[n].policy \in versions[v].unseen
    <3>1. CASE n = N
      BY <1>1, <1>2, <1>5, <1>6, <2>1, <3>1 DEF Pinned, Missed
    <3>2. CASE n \in DOMAIN ran
      BY <1>1, <1>6, <2>1, <3>2 DEF Pinned, RunsUnderCurrentOntology
    <3> QED
      BY <1>9, <3>1, <3>2
  <2> QED
    BY <1>1, <1>2, <2>1 DEF Pinned, Missed, RunsUnderCurrentOntology
<1> QED
    BY <1>7, <1>8, <1>10, <1>11 DEF IInv

LEMMA PolicyStep ==
    ASSUME IInv, NEW p \in Policies, ReadCurrentForPolicy(p) \/ CreatePolicy(p)
    PROVE  IInv'
<1>1. TypeOK /\ Chain /\ Grounded /\ Published /\ Receipted /\ Pinned
    BY DEF IInv
<1>2. UNCHANGED <<versions, proposal, proposing, approving, ran, receipts>>
    BY DEF ReadCurrentForPolicy, CreatePolicy
<1>3. /\ Current = Len(versions) /\ Current \in VersionIds /\ Current \in DOMAIN versions
      /\ Len(versions) \in Nat
    BY <1>1, CurrentIsLast DEF VersionIds
<1>4. /\ \A o \in Policies \ {p} : pin'[o] = pin[o] /\ creating'[o] = creating[o]
      /\ \/ pin'[p] = pin[p] /\ creating'[p] = Len(versions)
         \/ creating[p] # 0 /\ pin'[p] = creating[p] /\ creating'[p] = 0
    BY <1>1, <1>3 DEF TypeOK, ReadCurrentForPolicy, CreatePolicy
<1>5. TypeOK'
  <2>1. pin' \in [Policies -> 0..MaxVersions] /\ creating' \in [Policies -> 0..MaxVersions]
    <3>1. Current \in 0..MaxVersions /\ 0 \in 0..MaxVersions
      BY <1>3, OntologyAssumption DEF VersionIds
    <3>2. CASE ReadCurrentForPolicy(p)
      BY <1>1, <3>1, <3>2 DEF TypeOK, ReadCurrentForPolicy
    <3>3. CASE CreatePolicy(p)
      BY <1>1, <3>1, <3>3 DEF TypeOK, CreatePolicy
    <3> QED
      BY <3>2, <3>3
  <2> QED
    BY <1>1, <1>2, <2>1 DEF TypeOK
<1>6. Grounded' /\ Published' /\ Receipted' /\ Chain'
    BY <1>1, <1>2, GroundedKept, PublishedKept, ReceiptedKept DEF Chain
<1>7. Pinned'
  <2>1. ASSUME NEW o \in Policies, pin'[o] # 0
        PROVE  pin'[o] \in DOMAIN versions /\ Missed(pin'[o], o)
    BY <1>1, <1>4, <2>1 DEF Pinned, Missed
  <2>2. ASSUME NEW o \in Policies, creating'[o] # 0
        PROVE  /\ creating'[o] \in DOMAIN versions
               /\ \A w \in (creating'[o] + 1)..Len(versions) : o \in versions[w].unseen
    BY <1>1, <1>3, <1>4, <2>2 DEF Pinned
  <2> QED
    BY <1>1, <1>2, <2>1, <2>2 DEF Pinned, Missed, RunsUnderCurrentOntology
<1> QED
    BY <1>5, <1>6, <1>7 DEF IInv

\* An approval's commit: its version follows its base, knows every run but its
\* contemporaries, and every policy with a row advances to it.
LEMMA PublishStep ==
    ASSUME IInv, PublishApproval
    PROVE  IInv'
<1> DEFINE q == approving.of
           L == Len(versions)
           names == versions[L].names \cup proposal[q].changes
           row == [proposal[q] EXCEPT !.status = "approved", !.impact = approving.impact,
                                      !.published = L + 1]
           receipt == [proposal |-> q, from |-> L, to |-> L + 1,
                       affected |-> approving.impact]
<1>1. TypeOK /\ Chain /\ Grounded /\ Published /\ Receipted /\ Pinned
    BY DEF IInv
<1>2. /\ ~LockFree /\ L < MaxVersions /\ approving' = NoApproval
      /\ UNCHANGED <<proposing, creating, ran>>
    BY DEF PublishApproval
<1>3. /\ Current = L /\ L \in 1..MaxVersions /\ L \in Nat /\ DOMAIN versions = 1..L
      /\ \A v \in DOMAIN versions : versions[v] \in VersionRows
    BY <1>1, CurrentIsLast, OntologyAssumption
<1>4. /\ q \in Proposals /\ proposal[q].status = "proposed" /\ proposal[q].base = L
      /\ proposal[q] \in ProposalRows
      /\ Applies(versions[L].names, proposal[q].changes)
    BY <1>1, <1>2 DEF Grounded, Valid, TypeOK
<1>5. /\ names \in SUBSET Names
      /\ versions[L].names \cap proposal[q].changes = {}
    BY <1>3, <1>4 DEF VersionRows, ProposalRows, Applies
<1>6. Publish(names, q)
    BY <1>3 DEF PublishApproval, applyOntologyChangeSet
<1>7. /\ versions' \in Seq(VersionRows) /\ Len(versions') = L + 1
      /\ DOMAIN versions' = 1..(L + 1) /\ Chain'
      /\ \A v \in 1..L :
            /\ versions'[v].names = versions[v].names
            /\ versions'[v].publisher = versions[v].publisher
            /\ versions'[v].unseen = versions[v].unseen
      /\ versions'[L + 1].names = names /\ versions'[L + 1].publisher = q
      /\ versions'[L + 1].unseen = {p \in Policies : creating[p] # 0}
  <2> HIDE DEF q, names
  <2>1. /\ versions' \in Seq(VersionRows) /\ Len(versions') = L + 1
        /\ DOMAIN versions' = 1..(L + 1) /\ Chain'
        /\ \A v \in DOMAIN versions :
              /\ versions'[v].names = versions[v].names
              /\ versions'[v].publisher = versions[v].publisher
              /\ versions'[v].unseen = versions[v].unseen
        /\ versions'[L + 1] =
              [status |-> "current", names |-> names, publisher |-> q,
               unseen |-> {p \in Policies : creating[p] # 0}]
    BY <1>1, <1>2, <1>4, <1>5, <1>6, PublishEffect
  <2> QED
    BY <1>3, <2>1
<1>8. /\ proposal' = [proposal EXCEPT ![q] = row]
      /\ receipts' = receipts \cup {receipt}
      /\ pin' = [p \in Policies |-> IF pin[p] # 0 THEN L + 1 ELSE 0]
    BY <1>1, <1>3, <1>4 DEF PublishApproval, Advanced, TypeOK, ProposalRows
<1>9. /\ row \in ProposalRows
      /\ row.status = "approved" /\ row.published = L + 1 /\ row.base = L
      /\ row.changes = proposal[q].changes
  <2>1. L + 1 \in 0..MaxVersions /\ approving.impact \in SUBSET RunIds
    BY <1>1, <1>2, <1>3, OntologyAssumption DEF TypeOK
  <2> QED
    BY <1>4, <2>1 DEF ProposalRows
<1> HIDE DEF row
<1>10. /\ \A p \in Proposals \ {q} : proposal'[p] = proposal[p]
       /\ proposal'[q] = row
    BY <1>1, <1>4, <1>8 DEF TypeOK
<1>11. TypeOK'
  <2>1. pin' \in [Policies -> 0..MaxVersions]
    BY <1>2, <1>3, <1>8, OntologyAssumption
  <2>2. Len(versions') \in VersionIds
    BY <1>2, <1>3, <1>7, OntologyAssumption DEF VersionIds
  <2>3. NoApproval.impact \subseteq RunIds
    BY DEF NoApproval
  <2> QED
    BY <1>1, <1>2, <1>7, <1>8, <1>9, <2>1, <2>2, <2>3 DEF TypeOK
<1>12. Grounded'
  <2>1. ASSUME NEW p \in Proposals, proposal'[p].status = "proposed"
        PROVE  /\ proposal'[p].base \in DOMAIN versions'
               /\ Applies(versions'[proposal'[p].base].names, proposal'[p].changes)
    <3>1. p # q
      BY <1>9, <1>10, <2>1
    <3>2. /\ proposal[p].base \in 1..L
          /\ Applies(versions[proposal[p].base].names, proposal[p].changes)
      BY <1>1, <1>3, <1>10, <2>1, <3>1 DEF Grounded, Valid
    <3> QED
      BY <1>3, <1>7, <1>10, <3>1, <3>2 DEF Applies
  <2>2. ASSUME NEW p \in Proposals, proposing'[p].status = "proposed"
        PROVE  /\ proposing'[p].base \in DOMAIN versions'
               /\ Applies(versions'[proposing'[p].base].names, proposing'[p].changes)
    <3>1. /\ proposing[p].base \in 1..L
          /\ Applies(versions[proposing[p].base].names, proposing[p].changes)
      BY <1>1, <1>2, <1>3, <2>2 DEF Grounded, Valid
    <3> QED
      BY <1>2, <1>3, <1>7, <3>1 DEF Applies
  <2> QED
    BY <1>2, <2>1, <2>2 DEF Grounded, Valid, LockFree
<1>13. Published'
  <2>1. ASSUME NEW p \in Proposals, proposal'[p].status = "approved"
        PROVE  LET v == proposal'[p].published
               IN  /\ v \in DOMAIN versions' /\ v = proposal'[p].base + 1
                   /\ proposal'[p].base \in DOMAIN versions'
                   /\ versions'[v].publisher = p
                   /\ versions'[v].names = versions'[v - 1].names \cup proposal'[p].changes
                   /\ versions'[v - 1].names \cap proposal'[p].changes = {}
    <3>1. CASE p = q
      <4>1. (L + 1) - 1 = L
        BY <1>3
      <4> QED
        BY <1>3, <1>4, <1>5, <1>7, <1>9, <1>10, <3>1, <4>1
    <3>2. CASE p # q
      <4> DEFINE v == proposal[p].published
      <4>1. /\ v \in 1..L /\ v = proposal[p].base + 1 /\ proposal[p].base \in 1..L
            /\ versions[v].publisher = p
            /\ versions[v].names = versions[v - 1].names \cup proposal[p].changes
            /\ versions[v - 1].names \cap proposal[p].changes = {}
        BY <1>1, <1>3, <1>10, <2>1, <3>2 DEF Published
      <4>2. v - 1 \in 1..L /\ v \in 1..(L + 1) /\ proposal[p].base \in 1..(L + 1)
        BY <1>3, <4>1
      <4>3. proposal'[p] = proposal[p]
        BY <1>10, <3>2
      <4>4. /\ versions'[v].publisher = p
            /\ versions'[v].names = versions[v].names
            /\ versions'[v - 1].names = versions[v - 1].names
        BY <1>7, <4>1, <4>2
      <4> HIDE DEF v
      <4>5. v = proposal'[p].published
        BY <4>3 DEF v
      <4> QED
        BY <1>7, <4>1, <4>2, <4>3, <4>4, <4>5
    <3> QED
      BY <3>1, <3>2
  <2>2. ASSUME NEW v \in 1..(L + 1), versions'[v].publisher \in Proposals
        PROVE  /\ proposal'[versions'[v].publisher].status = "approved"
               /\ proposal'[versions'[v].publisher].published = v
    <3>1. CASE v = L + 1
      BY <1>7, <1>9, <1>10, <3>1
    <3>2. CASE v \in 1..L
      <4>1. /\ versions[v].publisher \in Proposals
            /\ versions'[v].publisher = versions[v].publisher
            /\ proposal[versions[v].publisher].status = "approved"
            /\ proposal[versions[v].publisher].published = v
        BY <1>1, <1>3, <1>7, <2>2, <3>2 DEF Published
      <4> QED
        BY <1>4, <1>10, <4>1
    <3> QED
      BY <1>3, <3>1, <3>2
  <2> QED
    BY <1>7, <2>1, <2>2 DEF Published
<1>14. Receipted'
  <2>1. \A n \in DOMAIN ran : ran[n].current <= L + 1
    <3>1. \A n \in DOMAIN ran : ran[n].current \in Nat /\ ran[n].current <= L
      BY <1>1, RunIsTyped DEF Receipted
    <3> QED
      BY <1>3, <3>1
  <2>2. receipt.from = L /\ receipt.affected = approving.impact /\ receipt.proposal = q
    OBVIOUS
  <2> HIDE DEF receipt
  <2>3. \A r \in receipts' : r.from \in Nat /\ r.from < L + 1
    BY <1>1, <1>3, <1>8, <2>2 DEF Receipted
  <2>4. ASSUME NEW r \in receipts', NEW n \in DOMAIN ran, ran[n].current <= r.from
        PROVE  n \in r.affected \/ ran[n].during = r.proposal
    BY <1>1, <1>2, <1>8, <2>2, <2>4 DEF Receipted, ReceiptsListCandidates
  <2> QED
    BY <1>2, <1>7, <2>1, <2>3, <2>4 DEF Receipted, ReceiptsListCandidates, LockFree
<1>15. Pinned'
  <2>1. ASSUME NEW p \in Policies, pin'[p] # 0
        PROVE  /\ pin'[p] \in DOMAIN versions'
               /\ \A w \in (pin'[p] + 1)..(L + 1) :
                    versions'[w].publisher = "editor" \/ p \in versions'[w].unseen
    BY <1>3, <1>7, <1>8, <2>1
  <2>2. ASSUME NEW p \in Policies, creating'[p] # 0
        PROVE  /\ creating'[p] \in DOMAIN versions'
               /\ \A w \in (creating'[p] + 1)..(L + 1) : p \in versions'[w].unseen
    <3>1. /\ creating[p] \in 1..L
          /\ \A w \in (creating[p] + 1)..L : p \in versions[w].unseen
      BY <1>1, <1>2, <1>3, <2>2 DEF Pinned
    <3>2. p \in versions'[L + 1].unseen
      BY <1>2, <1>7, <2>2
    <3>3. \A w \in (creating[p] + 1)..(L + 1) :
            w = L + 1 \/ (w \in 1..L /\ w \in (creating[p] + 1)..L)
      BY <1>3, <3>1
    <3> QED
      BY <1>2, <1>3, <1>7, <3>1, <3>2, <3>3
  <2>3. ASSUME NEW n \in DOMAIN ran, NEW v \in (ran[n].ontology + 1)..ran[n].current
        PROVE  versions'[v].publisher = "editor" \/ ran[n].policy \in versions'[v].unseen
    <3>1. /\ ran[n].current \in Nat /\ ran[n].current <= L
          /\ ran[n].ontology \in Nat
      BY <1>1, RunIsTyped DEF Receipted
    <3>2. v \in 1..L
      BY <1>3, <3>1
    <3> QED
      BY <1>1, <1>7, <3>2 DEF Pinned, RunsUnderCurrentOntology
  <2> QED
    BY <1>2, <1>7, <2>1, <2>2, <2>3 DEF Pinned, Missed, RunsUnderCurrentOntology
<1> QED
    BY <1>7, <1>11, <1>12, <1>13, <1>14, <1>15 DEF IInv

\* The editor's publication reaches no policy and leaves every proposal behind.
LEMMA EditorStep ==
    ASSUME IInv, publishOntologyRelationship
    PROVE  IInv'
<1> DEFINE L == Len(versions)
<1>1. TypeOK /\ Chain /\ Grounded /\ Published /\ Receipted /\ Pinned
    BY DEF IInv
<1>2. /\ LockFree /\ L < MaxVersions
      /\ UNCHANGED <<proposal, proposing, approving, pin, creating, ran, receipts>>
    BY DEF publishOntologyRelationship
<1>3. /\ Current = L /\ L \in 1..MaxVersions /\ L \in Nat /\ DOMAIN versions = 1..L
      /\ \A v \in DOMAIN versions : versions[v] \in VersionRows
    BY <1>1, CurrentIsLast, OntologyAssumption
<1>4. PICK x \in Relationships : Publish(versions[L].names \cup {x}, "editor")
    BY <1>3 DEF publishOntologyRelationship, PublishRelationship
<1> DEFINE names == versions[L].names \cup {x}
<1>5. names \in SUBSET Names
    BY <1>3, OntologyAssumption DEF VersionRows
<1>6. /\ versions' \in Seq(VersionRows) /\ Len(versions') = L + 1
      /\ DOMAIN versions' = 1..(L + 1) /\ Chain'
      /\ \A v \in 1..L :
            /\ versions'[v].names = versions[v].names
            /\ versions'[v].publisher = versions[v].publisher
            /\ versions'[v].unseen = versions[v].unseen
      /\ versions'[L + 1].publisher = "editor"
      /\ versions'[L + 1].unseen = {p \in Policies : creating[p] # 0}
  <2>1. Publish(names, "editor")
    BY <1>4
  <2> HIDE DEF names
  <2>2. /\ versions' \in Seq(VersionRows) /\ Len(versions') = L + 1
        /\ DOMAIN versions' = 1..(L + 1) /\ Chain'
        /\ \A v \in DOMAIN versions :
              /\ versions'[v].names = versions[v].names
              /\ versions'[v].publisher = versions[v].publisher
              /\ versions'[v].unseen = versions[v].unseen
        /\ versions'[L + 1] =
              [status |-> "current", names |-> names, publisher |-> "editor",
               unseen |-> {p \in Policies : creating[p] # 0}]
    BY <1>1, <1>2, <1>5, <2>1, PublishEffect
  <2> QED
    BY <1>3, <2>2
<1>7. TypeOK'
  <2>1. Len(versions') \in VersionIds
    BY <1>2, <1>3, <1>6, OntologyAssumption DEF VersionIds
  <2> QED
    BY <1>1, <1>2, <1>6, <2>1 DEF TypeOK
<1>8. Grounded'
  <2>1. \A p \in Proposals : Valid(proposal[p])' /\ Valid(proposing[p])'
    BY <1>1, <1>2, <1>3, <1>6 DEF Grounded, Valid, Applies
  <2> QED
    BY <1>2, <2>1 DEF Grounded, Valid, LockFree
<1>9. Published'
  <2>1. ASSUME NEW p \in Proposals, proposal[p].status = "approved"
        PROVE  LET v == proposal[p].published
               IN  /\ v \in DOMAIN versions' /\ v = proposal[p].base + 1
                   /\ proposal[p].base \in DOMAIN versions'
                   /\ versions'[v].publisher = p
                   /\ versions'[v].names = versions'[v - 1].names \cup proposal[p].changes
                   /\ versions'[v - 1].names \cap proposal[p].changes = {}
    <3> DEFINE v == proposal[p].published
    <3>1. /\ v \in 1..L /\ v = proposal[p].base + 1 /\ proposal[p].base \in 1..L
          /\ versions[v].publisher = p
          /\ versions[v].names = versions[v - 1].names \cup proposal[p].changes
          /\ versions[v - 1].names \cap proposal[p].changes = {}
      BY <1>1, <1>3, <2>1 DEF Published
    <3>2. v - 1 \in 1..L /\ v \in 1..(L + 1) /\ proposal[p].base \in 1..(L + 1)
      BY <1>3, <3>1
    <3>3. /\ versions'[v].publisher = p
          /\ versions'[v].names = versions[v].names
          /\ versions'[v - 1].names = versions[v - 1].names
      BY <1>6, <3>1, <3>2
    <3> QED
      BY <1>6, <3>1, <3>2, <3>3
  <2>2. ASSUME NEW v \in 1..(L + 1), versions'[v].publisher \in Proposals
        PROVE  /\ proposal[versions'[v].publisher].status = "approved"
               /\ proposal[versions'[v].publisher].published = v
    <3>1. v \in 1..L
      BY <1>3, <1>6, <2>2, OntologyAssumption
    <3> QED
      BY <1>1, <1>3, <1>6, <2>2, <3>1 DEF Published
  <2> QED
    BY <1>2, <1>6, <2>1, <2>2 DEF Published
<1>10. Receipted'
  <2>1. \A n \in DOMAIN ran : ran[n].current <= L + 1
    <3>1. \A n \in DOMAIN ran : ran[n].current \in Nat /\ ran[n].current <= L
      BY <1>1, RunIsTyped DEF Receipted
    <3> QED
      BY <1>3, <3>1
  <2>2. \A r \in receipts : r.from \in Nat /\ r.from < L + 1
    BY <1>1, <1>3 DEF Receipted
  <2> QED
    BY <1>1, <1>2, <1>6, <2>1, <2>2 DEF Receipted, ReceiptsListCandidates, LockFree
<1>11. Pinned'
  <2>1. ASSUME NEW p \in Policies, pin[p] # 0
        PROVE  /\ pin[p] \in DOMAIN versions'
               /\ \A w \in (pin[p] + 1)..(L + 1) :
                    versions'[w].publisher = "editor" \/ p \in versions'[w].unseen
    <3>1. /\ pin[p] \in 1..L
          /\ \A w \in (pin[p] + 1)..L :
                versions[w].publisher = "editor" \/ p \in versions[w].unseen
      BY <1>1, <1>3, <2>1 DEF Pinned, Missed
    <3>2. \A w \in (pin[p] + 1)..(L + 1) :
            w = L + 1 \/ (w \in 1..L /\ w \in (pin[p] + 1)..L)
      BY <1>3, <3>1
    <3> QED
      BY <1>3, <1>6, <3>1, <3>2
  <2>2. ASSUME NEW p \in Policies, creating[p] # 0
        PROVE  /\ creating[p] \in DOMAIN versions'
               /\ \A w \in (creating[p] + 1)..(L + 1) : p \in versions'[w].unseen
    <3>1. /\ creating[p] \in 1..L
          /\ \A w \in (creating[p] + 1)..L : p \in versions[w].unseen
      BY <1>1, <1>3, <2>2 DEF Pinned
    <3>2. p \in versions'[L + 1].unseen
      BY <1>6, <2>2
    <3>3. \A w \in (creating[p] + 1)..(L + 1) :
            w = L + 1 \/ (w \in 1..L /\ w \in (creating[p] + 1)..L)
      BY <1>3, <3>1
    <3> QED
      BY <1>3, <1>6, <3>1, <3>2, <3>3
  <2>3. ASSUME NEW n \in DOMAIN ran, NEW v \in (ran[n].ontology + 1)..ran[n].current
        PROVE  versions'[v].publisher = "editor" \/ ran[n].policy \in versions'[v].unseen
    <3>1. /\ ran[n].current \in Nat /\ ran[n].current <= L
          /\ ran[n].ontology \in Nat
      BY <1>1, RunIsTyped DEF Receipted
    <3>2. v \in 1..L
      BY <1>3, <3>1
    <3> QED
      BY <1>1, <1>6, <3>2 DEF Pinned, RunsUnderCurrentOntology
  <2> QED
    BY <1>2, <1>6, <2>1, <2>2, <2>3 DEF Pinned, Missed, RunsUnderCurrentOntology
<1> QED
    BY <1>6, <1>7, <1>8, <1>9, <1>10, <1>11 DEF IInv

-----------------------------------------------------------------------------

LEMMA NextIInv == IInv /\ [Next]_vars => IInv'
<1> SUFFICES ASSUME IInv, [Next]_vars PROVE IInv'
    OBVIOUS
<1> QED
    BY ReadBaseStep, ProposeStep, ReviewStep, AnalyseStep, RollBackStep, RunStep,
       PolicyStep, PublishStep, EditorStep DEF Next

\* The inductive invariant holds in every state of every behaviour.
THEOREM EvolutionInvariant == Spec => []IInv
    BY InitIInv, NextIInv, PTL DEF Spec

\* Every variable keeps its type.
THEOREM TypeCorrect == Spec => []TypeOK
<1>1. IInv => TypeOK
    BY DEF IInv
<1> QED
    BY <1>1, EvolutionInvariant, PTL

\* An approved proposal published its base with its changes, next to its base.
THEOREM NeverRebasedHolds == Spec => []NeverRebased
<1>1. IInv => NeverRebased
    BY DEF IInv, Chain, Published, NeverRebased
<1> QED
    BY <1>1, EvolutionInvariant, PTL

\* What a proposal was validated against does not change while it is current.
THEOREM ValidatedStaysValidHolds == Spec => []ValidatedStaysValid
<1>1. IInv => ValidatedStaysValid
    BY DEF IInv, Grounded, Valid, ValidatedStaysValid, OnCurrentBase
<1> QED
    BY <1>1, EvolutionInvariant, PTL

\* A receipt lists every earlier candidate but its approval's contemporaries.
THEOREM ReceiptsListCandidatesHolds == Spec => []ReceiptsListCandidates
<1>1. IInv => ReceiptsListCandidates
    BY DEF IInv, Receipted
<1> QED
    BY <1>1, EvolutionInvariant, PTL

\* A run falls behind the current version only by what the editor published or
\* what was published while its policy was being created.
THEOREM RunsUnderCurrentOntologyHolds == Spec => []RunsUnderCurrentOntology
<1>1. IInv => RunsUnderCurrentOntology
    BY DEF IInv, Pinned
<1> QED
    BY <1>1, EvolutionInvariant, PTL

=============================================================================
