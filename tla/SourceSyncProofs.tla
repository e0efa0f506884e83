-------------------------- MODULE SourceSyncProofs --------------------------
(***************************************************************************)
(* Proofs of SourceSync's invariants, for any sources, objects, contents   *)
(* and number of syncs and changes.                                        *)
(*                                                                         *)
(* Locked is the work of the core resources' row locks: one connector sync *)
(* at a time holds a cursor, and it is still the stored one.  Listed says  *)
(* what a page that waits for its commit is worth although the source has  *)
(* gone on changing: every object whose last change lies between the two   *)
(* cursors is on it, as the source holds it.                               *)
(***************************************************************************)
EXTENDS SourceSync, TLAPS

\* Cursors and changes are numbers of changes the source has made.
Numbered ==
    /\ \A o \in Objects : changed[o] <= rev[SourceOf[o]]
    /\ \A s \in Connected : cursor[s] <= rev[s]
    /\ \A o \in Records : live[o] \in Contents \cup {"absent"}

Locked ==
    /\ \A k, l \in Syncs : sync[k].pc # "idle" /\ sync[l].pc # "idle" => k = l
    /\ \A k \in Syncs : sync[k].pc # "idle" =>
        /\ sync[k].source \in Connected
        /\ sync[k].cursor = cursor[sync[k].source]

Listed ==
    \A k \in Syncs : sync[k].pc = "listed" =>
        LET page == sync[k].page
            s == sync[k].source
        IN  /\ sync[k].next <= rev[s]
            /\ \A o \in DOMAIN page : SourceOf[o] = s /\ page[o] \in Contents
            /\ \A o \in Objects :
                /\ SourceOf[o] = s /\ live[o] # "absent"
                /\ changed[o] <= sync[k].next
                /\ o \in DOMAIN page \/ changed[o] > sync[k].cursor
                => o \in DOMAIN page /\ page[o] = live[o]

PerceptionListed ==
    \A k \in Perceptions : perception[k].pc = "listed" =>
        DOMAIN perception[k].page \subseteq Artifacts

IInv ==
    /\ TypeOK
    /\ Numbered
    /\ Locked
    /\ Listed
    /\ PerceptionListed
    /\ CursorCoversContent
    /\ ChangesAnnouncedOnce
    /\ TombstonesRetire

-----------------------------------------------------------------------------
(* Lemmas about pages and histories *)

LEMMA PageFacts ==
    ASSUME NEW P \in Pages
    PROVE  /\ DOMAIN P \subseteq Objects
           /\ \A o \in DOMAIN P : P[o] \in Values
    BY DEF Pages

LEMMA ListedPages ==
    ASSUME TypeOK, NEW D \in SUBSET Objects
    PROVE  /\ listChanges(D) \in Pages
           /\ DOMAIN listChanges(D) = D
           /\ \A o \in D : listChanges(D)[o] = live[o]
    BY DEF TypeOK, listChanges, Pages

LEMMA SourceOfObject ==
    ASSUME NEW o \in Objects
    PROVE  /\ SourceOf[o] \in Sources
           /\ o \in Records => SourceOf[o] \in Connected /\ SourceOf[o] \notin External
           /\ o \in Artifacts => SourceOf[o] \in External /\ SourceOf[o] \notin Connected
    BY SyncAssumption DEF Sources, Records, Artifacts

LEMMA NoPageIsPage == NoPage \in Pages /\ DOMAIN NoPage = {}
<1>1. NoPage \in [{} -> Values]
    BY DEF NoPage
<1> QED
    BY <1>1 DEF Pages, NoPage

LEMMA AppendFacts ==
    ASSUME NEW seq \in Seq(Values), NEW v \in Values
    PROVE  /\ Append(seq, v) \in Seq(Values)
           /\ Len(Append(seq, v)) = Len(seq) + 1
           /\ DOMAIN Append(seq, v) = DOMAIN seq \cup {Len(seq) + 1}
           /\ Append(seq, v)[Len(seq) + 1] = v
           /\ \A i \in DOMAIN seq : Append(seq, v)[i] = seq[i]
           /\ LastOf(Append(seq, v)) = v
    BY DEF LastOf, Last

\* The newest version with evidence after one more version.
LEMMA LastShownAppend ==
    ASSUME NEW seq \in Seq(Values), NEW v \in Values, NEW d, LastShown(seq, d)
    PROVE  LastShown(Append(seq, v), IF v \in Evidential THEN v ELSE d)
<1> DEFINE longer == Append(seq, v)
           n == Len(seq) + 1
<1>1. /\ DOMAIN longer = DOMAIN seq \cup {n} /\ longer[n] = v
      /\ \A i \in DOMAIN seq : longer[i] = seq[i]
      /\ DOMAIN seq = 1..Len(seq) /\ Len(seq) \in Nat
    BY AppendFacts
<1> HIDE DEF longer
<1> SUFFICES LastShown(longer, IF v \in Evidential THEN v ELSE d)
    BY DEF longer
<1>2. CASE v \in Evidential
    BY <1>1, <1>2 DEF LastShown
<1>3. CASE v \notin Evidential
  <2>1. CASE d = "absent" /\ \A i \in DOMAIN seq : seq[i] \notin Evidential
      BY <1>1, <1>3, <2>1 DEF LastShown
  <2>2. ASSUME NEW i \in DOMAIN seq, seq[i] \in Evidential, d = seq[i],
               \A j \in DOMAIN seq : j > i => seq[j] \notin Evidential
        PROVE  LastShown(longer, d)
      BY <1>1, <1>3, <2>2 DEF LastShown
  <2> QED
      BY <1>3, <2>1, <2>2 DEF LastShown
<1> QED
    BY <1>2, <1>3

\* The versions since the last tombstone after one more version.
LEMMA SinceTombstoneAppend ==
    ASSUME NEW seq \in Seq(Values), NEW v \in Values
    PROVE  {Append(seq, v)[i] : i \in SinceTombstone(Append(seq, v))} =
               IF v = "deleted" THEN {}
               ELSE {seq[i] : i \in SinceTombstone(seq)} \cup {v}
<1> DEFINE longer == Append(seq, v)
           n == Len(seq) + 1
<1>1. /\ DOMAIN longer = DOMAIN seq \cup {n} /\ longer[n] = v
      /\ \A i \in DOMAIN seq : longer[i] = seq[i]
      /\ DOMAIN seq = 1..Len(seq) /\ Len(seq) \in Nat /\ Len(longer) = n
    BY AppendFacts
<1> HIDE DEF longer
<1>2. CASE v = "deleted"
  <2>1. SinceTombstone(longer) = {}
      BY <1>1, <1>2 DEF SinceTombstone
  <2> QED
      BY <1>2, <2>1 DEF longer
<1>3. CASE v # "deleted"
  <2>1. SinceTombstone(longer) = SinceTombstone(seq) \cup {n}
    <3>1. \A i \in DOMAIN seq : i \in SinceTombstone(longer) <=> i \in SinceTombstone(seq)
        BY <1>1, <1>3 DEF SinceTombstone
    <3>2. n \in SinceTombstone(longer)
        BY <1>1, <1>3 DEF SinceTombstone
    <3>3. SinceTombstone(longer) \subseteq DOMAIN seq \cup {n}
        BY <1>1 DEF SinceTombstone
    <3>4. SinceTombstone(seq) \subseteq DOMAIN seq
        BY DEF SinceTombstone
    <3> QED
        BY <3>1, <3>2, <3>3, <3>4
  <2>2. SinceTombstone(seq) \subseteq DOMAIN seq
      BY DEF SinceTombstone
  <2>3. {longer[i] : i \in SinceTombstone(longer)} =
            {seq[i] : i \in SinceTombstone(seq)} \cup {v}
      BY <1>1, <2>1, <2>2
  <2> QED
      BY <1>3, <2>3 DEF longer
<1> QED
    BY <1>2, <1>3

-----------------------------------------------------------------------------
(* The initial states and the types *)

LEMMA InitIInv == Init => IInv
<1> SUFFICES ASSUME Init PROVE IInv
    OBVIOUS
<1> USE SyncAssumption
<1>1. TypeOK
    BY NoPageIsPage DEF Init, TypeOK, Idle, Quiet, NoRow, NoArtifact, Values, Revisions
<1>2. Numbered
    BY SourceOfObject DEF Init, Numbered, Records, Sources
<1>3. Locked /\ Listed /\ PerceptionListed
    BY DEF Init, Locked, Listed, PerceptionListed, Idle, Quiet
<1>4. CursorCoversContent
    BY DEF Init, CursorCoversContent, Records
<1>5. ChangesAnnouncedOnce
    BY DEF Init, ChangesAnnouncedOnce, Records, NoRow, LastOf, LastShown
<1>6. TombstonesRetire
    BY DEF Init, TombstonesRetire, Artifacts, NoArtifact, LastOf, SinceTombstone
<1> QED
    BY <1>1, <1>2, <1>3, <1>4, <1>5, <1>6 DEF IInv

\* One more version of each object of a page.
LEMMA HistoryTypes ==
    ASSUME TypeOK, NEW P \in Pages, NEW D \in SUBSET DOMAIN P,
           history' = [o \in Objects |->
               IF o \in D THEN Append(history[o], P[o]) ELSE history[o]]
    PROVE  history' \in [Objects -> Seq(Values)]
<1>1. \A o \in D : P[o] \in Values
    BY PageFacts
<1> QED
    BY <1>1 DEF TypeOK

LEMMA NextTypes == TypeOK /\ Locked /\ Listed /\ PerceptionListed /\ [Next]_vars => TypeOK'
<1> SUFFICES ASSUME TypeOK, Locked, Listed, PerceptionListed, [Next]_vars PROVE TypeOK'
    OBVIOUS
<1> USE SyncAssumption
<1>1. ASSUME NEW o \in Objects, Edit(o) PROVE TypeOK'
  <2>1. PICK value \in Contents \cup {"deleted"} : live' = [live EXCEPT ![o] = value]
      BY <1>1 DEF Edit
  <2>2. live' \in [Objects -> Values]
      BY <2>1 DEF TypeOK, Values
  <2>3. SourceOf[o] \in Sources /\ rev[SourceOf[o]] \in Nat
      BY SourceOfObject DEF TypeOK, Revisions
  <2>4. /\ rev' = [rev EXCEPT ![SourceOf[o]] = @ + 1]
        /\ changed' = [changed EXCEPT ![o] = rev[SourceOf[o]] + 1]
      BY <1>1 DEF Edit
  <2>5. rev' \in [Sources -> Revisions] /\ changed' \in [Objects -> Revisions]
      BY <2>3, <2>4 DEF TypeOK, Revisions
  <2> QED
      BY <1>1, <2>2, <2>5 DEF Edit, TypeOK
<1>2. ASSUME NEW k \in Syncs, NEW s \in Connected, runSourceSync(k, s) PROVE TypeOK'
  <2>1. sync' \in [Syncs -> [pc: {"idle", "started", "listed"}, source: Connected \cup {"none"},
                             cursor: Revisions, page: Pages, next: Revisions]]
      BY <1>2, NoPageIsPage DEF runSourceSync, TypeOK, Idle, Revisions, Sources
  <2> QED
      BY <1>2, <2>1 DEF runSourceSync, TypeOK
<1>3. ASSUME NEW k \in Syncs, ListPage(k) PROVE TypeOK'
  <2>1. sync[k].source \in Connected
      BY <1>3 DEF ListPage, Locked
  <2>2. PICK D \in MayList(sync[k].source, sync[k].cursor) :
            sync' = [sync EXCEPT ![k].pc = "listed", ![k].page = listChanges(D),
                                 ![k].next = rev[sync[k].source]]
      BY <1>3 DEF ListPage
  <2>3. D \subseteq Objects
      BY DEF MayList, Existing
  <2>4. listChanges(D) \in Pages /\ rev[sync[k].source] \in Revisions
      BY <2>1, <2>3, ListedPages DEF TypeOK, Sources
  <2>5. sync' \in [Syncs -> [pc: {"idle", "started", "listed"}, source: Connected \cup {"none"},
                             cursor: Revisions, page: Pages, next: Revisions]]
    <3>1. sync[k] \in [pc: {"idle", "started", "listed"}, source: Connected \cup {"none"},
                       cursor: Revisions, page: Pages, next: Revisions]
        BY DEF TypeOK
    <3>2. [sync[k] EXCEPT !.pc = "listed", !.page = listChanges(D),
                          !.next = rev[sync[k].source]]
            \in [pc: {"idle", "started", "listed"}, source: Connected \cup {"none"},
                 cursor: Revisions, page: Pages, next: Revisions]
        BY <2>4, <3>1
    <3> QED
        BY <2>2, <3>2 DEF TypeOK
  <2> QED
      BY <1>3, <2>5 DEF ListPage, TypeOK
<1>4. ASSUME NEW k \in Syncs, SyncCommits(k) PROVE TypeOK'
  <2> DEFINE page == sync[k].page
             new == {o \in DOMAIN page : ~Stored(o, page[o])}
  <2>1. /\ row' = [o \in Records |-> IF o \in new THEN mapRecord(row[o], page[o]) ELSE row[o]]
        /\ history' = [o \in Objects |->
                IF o \in new THEN Append(history[o], page[o]) ELSE history[o]]
        /\ cursor' = [cursor EXCEPT ![sync[k].source] = sync[k].next]
        /\ sync' = [sync EXCEPT ![k] = Idle]
        /\ UNCHANGED <<live, rev, changed, artifact, synthesised, perception>>
        /\ sync[k].pc = "listed"
      BY <1>4 DEF SyncCommits
  <2>2. page \in Pages /\ \A o \in new : page[o] \in Contents
      BY <2>1 DEF TypeOK, Listed
  <2>3. history' \in [Objects -> Seq(Values)]
      BY <2>1, <2>2, HistoryTypes
  <2>4. ASSUME NEW o \in Records, o \in new
        PROVE  mapRecord(row[o], page[o]) \in
                   [hash: Contents \cup {"absent"}, current: Contents \cup {"absent"},
                    versions: SUBSET Contents, documents: Evidential \cup {"absent"}]
    <3>1. row[o] \in [hash: Contents \cup {"absent"}, current: Contents \cup {"absent"},
                      versions: SUBSET Contents, documents: Evidential \cup {"absent"}]
        BY DEF TypeOK
    <3>2. DocumentsOf(row[o], page[o]) \in Evidential \cup {"absent"}
        BY <3>1 DEF DocumentsOf
    <3>3. page[o] \in Contents
        BY <2>2, <2>4
    <3> HIDE DEF page
    <3> QED
        BY <3>1, <3>2, <3>3 DEF mapRecord
  <2>5. row' \in [Records ->
            [hash: Contents \cup {"absent"}, current: Contents \cup {"absent"},
             versions: SUBSET Contents, documents: Evidential \cup {"absent"}]]
      BY <2>1, <2>4 DEF TypeOK
  <2>6. cursor' \in [Sources -> Revisions]
      BY <2>1 DEF TypeOK
  <2>7. sync' \in [Syncs -> [pc: {"idle", "started", "listed"}, source: Connected \cup {"none"},
                             cursor: Revisions, page: Pages, next: Revisions]]
      BY <2>1, NoPageIsPage DEF TypeOK, Idle, Revisions
  <2> QED
      BY <2>1, <2>3, <2>5, <2>6, <2>7 DEF TypeOK
<1>5. ASSUME NEW k \in Syncs, SyncFails(k) PROVE TypeOK'
  <2>1. sync' \in [Syncs -> [pc: {"idle", "started", "listed"}, source: Connected \cup {"none"},
                             cursor: Revisions, page: Pages, next: Revisions]]
      BY <1>5, NoPageIsPage DEF SyncFails, TypeOK, Idle, Revisions
  <2> QED
      BY <1>5, <2>1 DEF SyncFails, TypeOK
<1>6. ASSUME NEW k \in Perceptions, PerceptionLists(k) PROVE TypeOK'
  <2> DEFINE D == UNION {IF Changes(s, cursor[s]) = {} THEN {} ELSE Existing(s) : s \in External}
  <2>1. D \in SUBSET Objects
      BY DEF Existing
  <2>2. /\ perception' = [perception EXCEPT ![k] =
                [pc |-> "listed", page |-> listChanges(D), next |-> [s \in External |-> rev[s]]]]
        /\ UNCHANGED <<live, rev, changed, cursor, row, artifact, history, synthesised, sync>>
      BY <1>6 DEF PerceptionLists
  <2>3. listChanges(D) \in Pages
      BY <2>1, ListedPages
  <2>4. [s \in External |-> rev[s]] \in [External -> Revisions]
      BY DEF TypeOK, Sources
  <2> HIDE DEF D
  <2>5. perception' \in [Perceptions ->
            [pc: {"idle", "listed"}, page: Pages, next: [External -> Revisions]]]
      BY <2>2, <2>3, <2>4 DEF TypeOK
  <2> QED
      BY <2>2, <2>5 DEF TypeOK
<1>7. ASSUME NEW k \in Perceptions, PerceptionCommits(k) PROVE TypeOK'
  <2> DEFINE page == perception[k].page
             persisted == [o \in Artifacts |->
                 IF o \in DOMAIN page THEN persistArtifact(artifact[o], page[o]) ELSE artifact[o]]
  <2>1. /\ artifact' = persisted
        /\ history' = [o \in Objects |->
                IF o \in DOMAIN page THEN Append(history[o], page[o]) ELSE history[o]]
        /\ cursor' = [s \in Sources |->
                IF s \in External THEN perception[k].next[s] ELSE cursor[s]]
        /\ synthesised' = synthesised \cup {Corpus(persisted)}
        /\ perception' = [perception EXCEPT ![k] = Quiet]
        /\ UNCHANGED <<live, rev, changed, row, sync>>
      BY <1>7 DEF PerceptionCommits
  <2>2. page \in Pages /\ \A o \in DOMAIN page : page[o] \in Values
      BY PageFacts DEF TypeOK
  <2>3. history' \in [Objects -> Seq(Values)]
      BY <2>1, <2>2, HistoryTypes
  <2>4. ASSUME NEW o \in Artifacts, o \in DOMAIN page
        PROVE  persistArtifact(artifact[o], page[o]) \in
                   [current: Values, versions: SUBSET Values, retired: BOOLEAN,
                    observed: SUBSET Evidential]
      BY <2>2, <2>4 DEF TypeOK, persistArtifact, RetireObservations
  <2>5. persisted \in [Artifacts -> [current: Values, versions: SUBSET Values,
                                     retired: BOOLEAN, observed: SUBSET Evidential]]
      BY <2>4 DEF TypeOK
  <2>6. Corpus(persisted) \in [Artifacts -> Values]
      BY <2>5 DEF Corpus, Values
  <2>7. cursor' \in [Sources -> Revisions]
      BY <2>1 DEF TypeOK
  <2>8. perception' \in [Perceptions ->
            [pc: {"idle", "listed"}, page: Pages, next: [External -> Revisions]]]
      BY <2>1, NoPageIsPage DEF TypeOK, Quiet, Revisions
  <2> HIDE DEF persisted
  <2> QED
      BY <2>1, <2>3, <2>5, <2>6, <2>7, <2>8 DEF TypeOK
<1>8. ASSUME NEW k \in Perceptions, PerceptionFails(k) PROVE TypeOK'
  <2>1. perception' \in [Perceptions ->
            [pc: {"idle", "listed"}, page: Pages, next: [External -> Revisions]]]
      BY <1>8, NoPageIsPage DEF PerceptionFails, TypeOK, Quiet, Revisions
  <2> QED
      BY <1>8, <2>1 DEF PerceptionFails, TypeOK
<1>9. CASE UNCHANGED vars
    BY <1>9 DEF vars, TypeOK
<1> QED
    BY <1>1, <1>2, <1>3, <1>4, <1>5, <1>6, <1>7, <1>8, <1>9 DEF Next

-----------------------------------------------------------------------------
(* The steps, one conjunct at a time *)

\* What a change in a source does.
LEMMA EditFacts ==
    ASSUME TypeOK, NEW o \in Objects, Edit(o)
    PROVE  /\ SourceOf[o] \in Sources
           /\ changed'[o] = rev[SourceOf[o]] + 1
           /\ live'[o] \in Contents \cup {"deleted"}
           /\ o \in Records => live'[o] \in Contents
           /\ \A x \in Objects \ {o} : changed'[x] = changed[x] /\ live'[x] = live[x]
           /\ rev'[SourceOf[o]] = rev[SourceOf[o]] + 1
           /\ \A s \in Sources \ {SourceOf[o]} : rev'[s] = rev[s]
           /\ \A s \in Sources : rev[s] \in Nat
           /\ \A x \in Objects : changed[x] \in Nat
           /\ \A s \in Sources : cursor[s] \in Nat
           /\ UNCHANGED <<cursor, row, artifact, history, synthesised, sync, perception>>
<1>1. PICK value \in IF SourceOf[o] \in External /\ live[o] # "absent"
                     THEN Contents \cup {"deleted"} ELSE Contents :
          live' = [live EXCEPT ![o] = value]
    BY DEF Edit
<1>2. /\ rev' = [rev EXCEPT ![SourceOf[o]] = @ + 1]
      /\ changed' = [changed EXCEPT ![o] = rev[SourceOf[o]] + 1]
      /\ UNCHANGED <<cursor, row, artifact, history, synthesised, sync, perception>>
    BY DEF Edit
<1>3. SourceOf[o] \in Sources /\ (o \in Records => SourceOf[o] \notin External)
    BY SourceOfObject
<1>4. live'[o] = value /\ \A x \in Objects \ {o} : live'[x] = live[x]
    BY <1>1 DEF TypeOK
<1>5. /\ changed'[o] = rev[SourceOf[o]] + 1
      /\ \A x \in Objects \ {o} : changed'[x] = changed[x]
      /\ rev'[SourceOf[o]] = rev[SourceOf[o]] + 1
      /\ \A s \in Sources \ {SourceOf[o]} : rev'[s] = rev[s]
      /\ \A s \in Sources : rev[s] \in Nat /\ cursor[s] \in Nat
      /\ \A x \in Objects : changed[x] \in Nat
    BY <1>2, <1>3 DEF TypeOK, Revisions
<1> QED
    BY <1>1, <1>2, <1>3, <1>4, <1>5

\* What a commit of a connector sync does.
LEMMA SyncCommitFacts ==
    ASSUME TypeOK, Locked, Listed, NEW k \in Syncs, SyncCommits(k)
    PROVE  LET page == sync[k].page
               s == sync[k].source
           IN  /\ sync[k].pc = "listed" /\ s \in Connected
               /\ DOMAIN page \subseteq Records
               /\ \A o \in DOMAIN page : SourceOf[o] = s /\ page[o] \in Contents
               /\ cursor'[s] = sync[k].next
               /\ \A x \in Sources \ {s} : cursor'[x] = cursor[x]
               /\ \A o \in Records :
                   IF o \in DOMAIN page /\ ~Stored(o, page[o])
                   THEN /\ row'[o] = mapRecord(row[o], page[o])
                        /\ history'[o] = Append(history[o], page[o])
                   ELSE row'[o] = row[o] /\ history'[o] = history[o]
               /\ \A o \in Artifacts : history'[o] = history[o]
               /\ sync'[k] = Idle /\ \A l \in Syncs \ {k} : sync'[l] = sync[l]
               /\ UNCHANGED <<live, rev, changed, artifact, synthesised, perception>>
<1> DEFINE page == sync[k].page
           s == sync[k].source
<1>1. /\ sync[k].pc = "listed"
      /\ row' = [o \in Records |-> IF o \in {x \in DOMAIN page : ~Stored(x, page[x])}
                                    THEN mapRecord(row[o], page[o]) ELSE row[o]]
      /\ history' = [o \in Objects |-> IF o \in {x \in DOMAIN page : ~Stored(x, page[x])}
                                        THEN Append(history[o], page[o]) ELSE history[o]]
      /\ cursor' = [cursor EXCEPT ![s] = sync[k].next]
      /\ sync' = [sync EXCEPT ![k] = Idle]
      /\ UNCHANGED <<live, rev, changed, artifact, synthesised, perception>>
    BY DEF SyncCommits
<1>2. s \in Connected /\ s \in Sources
    BY <1>1 DEF Locked, Sources
<1>3. \A o \in DOMAIN page : SourceOf[o] = s /\ page[o] \in Contents
    BY <1>1 DEF Listed
<1>4. DOMAIN page \subseteq Objects
    BY PageFacts DEF TypeOK
<1>5. DOMAIN page \subseteq Records
    BY <1>2, <1>3, <1>4 DEF Records
<1>6. \A o \in Artifacts : o \in Objects /\ o \notin DOMAIN page
    BY <1>5 DEF Artifacts
<1>7. cursor'[s] = sync[k].next /\ \A x \in Sources \ {s} : cursor'[x] = cursor[x]
    BY <1>1, <1>2 DEF TypeOK
<1>8. sync'[k] = Idle /\ \A l \in Syncs \ {k} : sync'[l] = sync[l]
    BY <1>1 DEF TypeOK
<1>9. \A o \in Records : o \in Objects
    BY DEF Records
<1> HIDE DEF page, s
<1>10. \A o \in Records :
          IF o \in DOMAIN page /\ ~Stored(o, page[o])
          THEN /\ row'[o] = mapRecord(row[o], page[o])
               /\ history'[o] = Append(history[o], page[o])
          ELSE row'[o] = row[o] /\ history'[o] = history[o]
    BY <1>1, <1>9
<1>11. \A o \in Artifacts : history'[o] = history[o]
    BY <1>1, <1>6
<1> QED
    BY <1>1, <1>2, <1>3, <1>5, <1>7, <1>8, <1>10, <1>11 DEF page, s

\* What a commit of a perception sync does.
LEMMA PerceptionCommitFacts ==
    ASSUME TypeOK, PerceptionListed, NEW k \in Perceptions, PerceptionCommits(k)
    PROVE  LET page == perception[k].page
           IN  /\ \A o \in DOMAIN page : o \in Artifacts /\ page[o] \in Values
               /\ \A o \in Artifacts :
                   IF o \in DOMAIN page
                   THEN /\ artifact'[o] = persistArtifact(artifact[o], page[o])
                        /\ history'[o] = Append(history[o], page[o])
                   ELSE artifact'[o] = artifact[o] /\ history'[o] = history[o]
               /\ \A o \in Records : history'[o] = history[o]
               /\ \A s \in Connected : cursor'[s] = cursor[s]
               /\ Corpus(artifact') \in synthesised'
               /\ perception'[k] = Quiet
               /\ \A l \in Perceptions \ {k} : perception'[l] = perception[l]
               /\ UNCHANGED <<live, rev, changed, row, sync>>
<1> DEFINE page == perception[k].page
           persisted == [o \in Artifacts |->
               IF o \in DOMAIN page THEN persistArtifact(artifact[o], page[o]) ELSE artifact[o]]
<1>1. /\ perception[k].pc = "listed"
      /\ artifact' = persisted
      /\ history' = [o \in Objects |->
              IF o \in DOMAIN page THEN Append(history[o], page[o]) ELSE history[o]]
      /\ cursor' = [s \in Sources |->
              IF s \in External THEN perception[k].next[s] ELSE cursor[s]]
      /\ synthesised' = synthesised \cup {Corpus(persisted)}
      /\ perception' = [perception EXCEPT ![k] = Quiet]
      /\ UNCHANGED <<live, rev, changed, row, sync>>
    BY DEF PerceptionCommits
<1>2. \A o \in DOMAIN page : o \in Artifacts /\ page[o] \in Values
    BY <1>1, PageFacts DEF TypeOK, PerceptionListed
<1>3. \A o \in Records : o \in Objects /\ o \notin DOMAIN page
    BY <1>2 DEF Records, Artifacts
<1>4. \A s \in Connected : s \in Sources /\ s \notin External
    BY SyncAssumption DEF Sources
<1>5. \A o \in Artifacts : o \in Objects
    BY DEF Artifacts
<1>6. perception'[k] = Quiet /\ \A l \in Perceptions \ {k} : perception'[l] = perception[l]
    BY <1>1 DEF TypeOK
<1>7. Corpus(artifact') \in synthesised'
    BY <1>1
<1> HIDE DEF page
<1>8. \A o \in Artifacts :
         IF o \in DOMAIN page
         THEN /\ artifact'[o] = persistArtifact(artifact[o], page[o])
              /\ history'[o] = Append(history[o], page[o])
         ELSE artifact'[o] = artifact[o] /\ history'[o] = history[o]
    BY <1>1, <1>5
<1>9. \A o \in Records : history'[o] = history[o]
    BY <1>1, <1>3
<1>10. \A s \in Connected : cursor'[s] = cursor[s]
    BY <1>1, <1>4
<1> QED
    BY <1>1, <1>2, <1>6, <1>7, <1>8, <1>9, <1>10 DEF page

LEMMA NumberedStep == IInv /\ [Next]_vars => Numbered'
<1> SUFFICES ASSUME IInv, [Next]_vars PROVE Numbered'
    OBVIOUS
<1> USE DEF IInv
<1>1. ASSUME NEW o \in Objects, Edit(o) PROVE Numbered'
  <2>1. \A x \in Objects : SourceOf[x] \in Sources
      BY SourceOfObject
  <2>2. \A x \in Objects : changed'[x] <= rev'[SourceOf[x]]
      BY <1>1, <2>1, EditFacts DEF Numbered
  <2>3. \A s \in Connected : cursor'[s] <= rev'[s]
      BY <1>1, EditFacts DEF Numbered, Sources
  <2>4. \A x \in Records : live'[x] \in Contents \cup {"absent"}
      BY <1>1, EditFacts DEF Numbered, Records
  <2> QED
      BY <2>2, <2>3, <2>4 DEF Numbered
<1>2. ASSUME NEW k \in Syncs, SyncCommits(k) PROVE Numbered'
  <2>1. \A s \in Connected : cursor'[s] <= rev'[s]
      BY <1>2, SyncCommitFacts DEF Numbered, Listed, Sources
  <2> QED
      BY <1>2, <2>1, SyncCommitFacts DEF Numbered
<1>3. ASSUME NEW k \in Perceptions, PerceptionCommits(k) PROVE Numbered'
    BY <1>3, PerceptionCommitFacts DEF Numbered
<1>4. ASSUME UNCHANGED <<live, rev, changed, cursor>> PROVE Numbered'
    BY <1>4 DEF Numbered
<1> QED
    BY <1>1, <1>2, <1>3, <1>4
    DEF Next, vars, runSourceSync, ListPage, SyncFails, PerceptionLists, PerceptionFails

\* A step of sync k alone.
LEMMA OneSync ==
    ASSUME TypeOK, NEW k \in Syncs, NEW row1, sync' = [sync EXCEPT ![k] = row1]
    PROVE  sync'[k] = row1 /\ \A l \in Syncs \ {k} : sync'[l] = sync[l]
    BY DEF TypeOK

LEMMA ListPageFacts ==
    ASSUME TypeOK, NEW k \in Syncs, ListPage(k)
    PROVE  /\ sync[k].pc = "started" /\ sync'[k].pc = "listed"
           /\ sync'[k].source = sync[k].source /\ sync'[k].cursor = sync[k].cursor
           /\ sync'[k].next = rev[sync[k].source]
           /\ \E D \in MayList(sync[k].source, sync[k].cursor) : sync'[k].page = listChanges(D)
           /\ \A l \in Syncs \ {k} : sync'[l] = sync[l]
           /\ UNCHANGED <<live, rev, changed, cursor, row, artifact, history, synthesised,
                          perception>>
<1>1. PICK D \in MayList(sync[k].source, sync[k].cursor) :
          sync' = [sync EXCEPT ![k] = [sync[k] EXCEPT !.pc = "listed", !.page = listChanges(D),
                                                      !.next = rev[sync[k].source]]]
    BY DEF ListPage
<1>2. /\ sync'[k] = [sync[k] EXCEPT !.pc = "listed", !.page = listChanges(D),
                                     !.next = rev[sync[k].source]]
      /\ \A l \in Syncs \ {k} : sync'[l] = sync[l]
    BY <1>1, OneSync
<1>3. sync[k] \in [pc: {"idle", "started", "listed"}, source: Connected \cup {"none"},
                   cursor: Revisions, page: Pages, next: Revisions]
    BY DEF TypeOK
<1> QED
    BY <1>2, <1>3 DEF ListPage

LEMMA StartFacts ==
    ASSUME TypeOK, NEW k \in Syncs, NEW s \in Connected, runSourceSync(k, s)
    PROVE  /\ \A l \in Syncs : sync[l].pc = "idle"
           /\ sync'[k].pc = "started" /\ sync'[k].source = s /\ sync'[k].cursor = cursor[s]
           /\ \A l \in Syncs \ {k} : sync'[l] = sync[l]
           /\ UNCHANGED <<live, rev, changed, cursor, row, artifact, history, synthesised,
                          perception>>
<1> DEFINE started == [Idle EXCEPT !.pc = "started", !.source = s, !.cursor = cursor[s]]
<1>1. sync' = [sync EXCEPT ![k] = started] /\ ~CoreLocked
    BY DEF runSourceSync
<1>2. started.pc = "started" /\ started.source = s /\ started.cursor = cursor[s]
    BY DEF Idle
<1> HIDE DEF started
<1>3. sync'[k] = started /\ \A l \in Syncs \ {k} : sync'[l] = sync[l]
    BY <1>1, OneSync
<1> QED
    BY <1>1, <1>2, <1>3 DEF runSourceSync, CoreLocked

LEMMA FailFacts ==
    ASSUME TypeOK, NEW k \in Syncs, SyncFails(k)
    PROVE  /\ sync'[k].pc = "idle"
           /\ \A l \in Syncs \ {k} : sync'[l] = sync[l]
           /\ UNCHANGED <<live, rev, changed, cursor, row, artifact, history, synthesised,
                          perception>>
<1>1. sync' = [sync EXCEPT ![k] = Idle]
    BY DEF SyncFails
<1>2. sync'[k] = Idle /\ \A l \in Syncs \ {k} : sync'[l] = sync[l]
    BY <1>1, OneSync
<1> QED
    BY <1>2 DEF SyncFails, Idle

LEMMA LockedStep == IInv /\ [Next]_vars => Locked'
<1> SUFFICES ASSUME IInv, [Next]_vars PROVE Locked'
    OBVIOUS
<1> USE DEF IInv
<1>1. ASSUME NEW k \in Syncs, NEW s \in Connected, runSourceSync(k, s) PROVE Locked'
    BY <1>1, StartFacts DEF Locked
<1>2. ASSUME NEW k \in Syncs, ListPage(k) PROVE Locked'
    BY <1>2, ListPageFacts DEF Locked
<1>3. ASSUME NEW k \in Syncs, SyncCommits(k) PROVE Locked'
  <2>1. sync'[k].pc = "idle" /\ \A l \in Syncs \ {k} : sync'[l] = sync[l]
      BY <1>3, SyncCommitFacts DEF Idle
  <2>2. \A l \in Syncs \ {k} : sync[l].pc = "idle"
      BY <1>3, SyncCommitFacts DEF Locked
  <2> QED
      BY <2>1, <2>2 DEF Locked
<1>4. ASSUME NEW k \in Syncs, SyncFails(k) PROVE Locked'
    BY <1>4, FailFacts DEF Locked
<1>5. ASSUME NEW k \in Perceptions, PerceptionCommits(k) PROVE Locked'
    BY <1>5, PerceptionCommitFacts DEF Locked
<1>6. ASSUME UNCHANGED <<cursor, sync>> PROVE Locked'
    BY <1>6 DEF Locked
<1> QED
    BY <1>1, <1>2, <1>3, <1>4, <1>5, <1>6
    DEF Next, vars, Edit, PerceptionLists, PerceptionFails

LEMMA ListedStep == IInv /\ [Next]_vars => Listed'
<1> SUFFICES ASSUME IInv, [Next]_vars PROVE Listed'
    OBVIOUS
<1> USE DEF IInv
<1>1. ASSUME NEW o \in Objects, Edit(o) PROVE Listed'
  <2> SUFFICES ASSUME NEW k \in Syncs, sync[k].pc = "listed"
               PROVE  LET page == sync[k].page
                          s == sync[k].source
                      IN  /\ sync[k].next <= rev'[s]
                          /\ \A x \in Objects :
                              /\ SourceOf[x] = s /\ live'[x] # "absent"
                              /\ changed'[x] <= sync[k].next
                              /\ x \in DOMAIN page \/ changed'[x] > sync[k].cursor
                              => x \in DOMAIN page /\ page[x] = live'[x]
      BY <1>1, EditFacts DEF Listed
  <2>1. sync[k].source \in Sources /\ sync[k].next \in Nat
      BY DEF Locked, Sources, TypeOK, Revisions
  <2>2. sync[k].next <= rev[sync[k].source]
      BY DEF Listed
  <2>3. sync[k].next <= rev'[sync[k].source]
      BY <1>1, <2>1, <2>2, EditFacts
  <2>4. SourceOf[o] = sync[k].source => ~(changed'[o] <= sync[k].next)
      BY <1>1, <2>1, <2>2, EditFacts
  <2>5. \A x \in Objects \ {o} : changed'[x] = changed[x] /\ live'[x] = live[x]
      BY <1>1, EditFacts
  <2> QED
      BY <2>3, <2>4, <2>5 DEF Listed
<1>2. ASSUME NEW k \in Syncs, NEW s \in Connected, runSourceSync(k, s) PROVE Listed'
    BY <1>2, StartFacts DEF Listed
<1>3. ASSUME NEW k \in Syncs, ListPage(k) PROVE Listed'
  <2> DEFINE s == sync[k].source
  <2>1. PICK D \in MayList(s, sync[k].cursor) : sync'[k].page = listChanges(D)
      BY <1>3, ListPageFacts
  <2>2. s \in Connected /\ s \in Sources /\ s \notin External
      BY <1>3, ListPageFacts, SyncAssumption DEF Locked, Sources
  <2>3. D \subseteq Existing(s) /\ Changes(s, sync[k].cursor) \subseteq D
      BY DEF MayList
  <2>4. DOMAIN sync'[k].page = D /\ \A o \in D : sync'[k].page[o] = live[o]
      BY <2>1, <2>3, ListedPages DEF Existing
  <2>5. \A o \in D : o \in Records /\ SourceOf[o] = s /\ live[o] \in Contents
      BY <2>2, <2>3 DEF Existing, Records, Numbered
  <2>6. \A o \in Objects : SourceOf[o] = s /\ live[o] # "absent" /\ changed[o] > sync[k].cursor
            => o \in D
      BY <2>3 DEF Changes, Existing
  <2>7. rev[s] <= rev[s]
      BY <2>2 DEF TypeOK, Revisions
  <2> QED
      BY <1>3, <2>4, <2>5, <2>6, <2>7, ListPageFacts DEF Listed
<1>4. ASSUME NEW k \in Syncs, SyncCommits(k) PROVE Listed'
    BY <1>4, SyncCommitFacts DEF Listed, Idle
<1>5. ASSUME NEW k \in Syncs, SyncFails(k) PROVE Listed'
    BY <1>5, FailFacts DEF Listed
<1>6. ASSUME UNCHANGED <<live, rev, changed, sync>> PROVE Listed'
    BY <1>6 DEF Listed
<1> QED
    BY <1>1, <1>2, <1>3, <1>4, <1>5, <1>6
    DEF Next, vars, PerceptionLists, PerceptionCommits, PerceptionFails

LEMMA PerceptionListedStep == IInv /\ [Next]_vars => PerceptionListed'
<1> SUFFICES ASSUME IInv, [Next]_vars PROVE PerceptionListed'
    OBVIOUS
<1> USE DEF IInv
<1>1. ASSUME NEW k \in Perceptions, PerceptionLists(k) PROVE PerceptionListed'
  <2> DEFINE D == UNION {IF Changes(s, cursor[s]) = {} THEN {} ELSE Existing(s) : s \in External}
  <2>1. D \subseteq Artifacts
      BY SyncAssumption DEF Existing, Artifacts, Records
  <2>2. perception' = [perception EXCEPT ![k] =
            [pc |-> "listed", page |-> listChanges(D), next |-> [s \in External |-> rev[s]]]]
      BY <1>1 DEF PerceptionLists
  <2>3. DOMAIN listChanges(D) = D
      BY DEF listChanges
  <2> HIDE DEF D
  <2>4. perception'[k].page = listChanges(D)
      BY <2>2 DEF TypeOK
  <2>5. \A l \in Perceptions \ {k} : perception'[l] = perception[l]
      BY <2>2 DEF TypeOK
  <2> QED
      BY <2>1, <2>3, <2>4, <2>5 DEF PerceptionListed
<1>2. ASSUME NEW k \in Perceptions, PerceptionCommits(k) PROVE PerceptionListed'
    BY <1>2, PerceptionCommitFacts DEF PerceptionListed, Quiet
<1>3. ASSUME NEW k \in Perceptions, PerceptionFails(k) PROVE PerceptionListed'
    BY <1>3 DEF PerceptionListed, PerceptionFails, Quiet, TypeOK
<1>4. ASSUME UNCHANGED perception PROVE PerceptionListed'
    BY <1>4 DEF PerceptionListed
<1> QED
    BY <1>1, <1>2, <1>3, <1>4
    DEF Next, vars, Edit, runSourceSync, ListPage, SyncCommits, SyncFails

LEMMA CursorStep == IInv /\ [Next]_vars => CursorCoversContent'
<1> SUFFICES ASSUME IInv, [Next]_vars PROVE CursorCoversContent'
    OBVIOUS
<1> USE DEF IInv
<1>1. ASSUME NEW o \in Objects, Edit(o) PROVE CursorCoversContent'
  <2> SUFFICES ASSUME NEW x \in Records, live'[x] # "absent",
                      changed'[x] <= cursor'[SourceOf[x]]
               PROVE  row'[x].hash = live'[x] /\ row'[x].current = live'[x]
      BY DEF CursorCoversContent
  <2>1. SourceOf[x] \in Connected /\ SourceOf[x] \in Sources /\ x \in Objects
      BY SourceOfObject DEF Records
  <2>2. x # o
      BY <1>1, <2>1, EditFacts DEF Numbered
  <2> QED
      BY <1>1, <2>1, <2>2, EditFacts DEF CursorCoversContent
<1>2. ASSUME NEW k \in Syncs, SyncCommits(k) PROVE CursorCoversContent'
  <2> DEFINE page == sync[k].page
             s == sync[k].source
  <2> SUFFICES ASSUME NEW x \in Records, live[x] # "absent",
                      changed[x] <= cursor'[SourceOf[x]]
               PROVE  row'[x].hash = live[x] /\ row'[x].current = live[x]
      BY <1>2, SyncCommitFacts DEF CursorCoversContent
  <2>1. SourceOf[x] \in Sources /\ x \in Objects
      BY SourceOfObject DEF Records
  <2>2. CASE SourceOf[x] # s
    <3>1. x \notin DOMAIN page /\ cursor'[SourceOf[x]] = cursor[SourceOf[x]]
        BY <1>2, <2>1, <2>2, SyncCommitFacts
    <3>2. row'[x] = row[x]
        BY <1>2, <3>1, SyncCommitFacts
    <3> QED
        BY <3>1, <3>2 DEF CursorCoversContent
  <2>3. CASE SourceOf[x] = s /\ (x \in DOMAIN page \/ changed[x] > sync[k].cursor)
    <3>1. changed[x] <= sync[k].next
        BY <1>2, <2>3, SyncCommitFacts
    <3>2. x \in DOMAIN page /\ page[x] = live[x]
        BY <1>2, <2>1, <2>3, <3>1, SyncCommitFacts DEF Listed
    <3>3. CASE Stored(x, page[x])
      <4>1. row'[x] = row[x]
          BY <1>2, <3>3, SyncCommitFacts
      <4> QED
          BY <3>2, <3>3, <4>1 DEF Stored, ChangesAnnouncedOnce
    <3>4. CASE ~Stored(x, page[x])
      <4>1. row'[x] = mapRecord(row[x], page[x])
          BY <1>2, <3>2, <3>4, SyncCommitFacts
      <4>2. row[x] \in [hash: Contents \cup {"absent"}, current: Contents \cup {"absent"},
                        versions: SUBSET Contents, documents: Evidential \cup {"absent"}]
          BY DEF TypeOK
      <4> QED
          BY <3>2, <4>1, <4>2 DEF mapRecord
    <3> QED
        BY <3>3, <3>4
  <2>4. CASE SourceOf[x] = s /\ ~(x \in DOMAIN page \/ changed[x] > sync[k].cursor)
    <3>1. sync[k].cursor = cursor[s]
        BY <1>2, SyncCommitFacts DEF Locked
    <3>2. changed[x] <= cursor[SourceOf[x]]
        BY <2>1, <2>4, <3>1 DEF TypeOK, Revisions
    <3>3. row'[x] = row[x]
        BY <1>2, <2>4, SyncCommitFacts
    <3> QED
        BY <3>2, <3>3 DEF CursorCoversContent
  <2> QED
      BY <2>2, <2>3, <2>4
<1>3. ASSUME NEW k \in Perceptions, PerceptionCommits(k) PROVE CursorCoversContent'
  <2>1. \A x \in Records : cursor'[SourceOf[x]] = cursor[SourceOf[x]]
      BY <1>3, PerceptionCommitFacts, SourceOfObject DEF Records
  <2> QED
      BY <1>3, <2>1, PerceptionCommitFacts DEF CursorCoversContent
<1>4. ASSUME UNCHANGED <<live, changed, cursor, row>> PROVE CursorCoversContent'
    BY <1>4 DEF CursorCoversContent
<1> QED
    BY <1>1, <1>2, <1>3, <1>4
    DEF Next, vars, runSourceSync, ListPage, SyncFails, PerceptionLists, PerceptionFails

LEMMA AnnouncedStep == IInv /\ [Next]_vars => ChangesAnnouncedOnce'
<1> SUFFICES ASSUME IInv, [Next]_vars PROVE ChangesAnnouncedOnce'
    OBVIOUS
<1> USE DEF IInv
<1>1. ASSUME NEW k \in Syncs, SyncCommits(k) PROVE ChangesAnnouncedOnce'
  <2> DEFINE page == sync[k].page
  <2> SUFFICES ASSUME NEW x \in Records
               PROVE  /\ \A i \in 2..Len(history'[x]) : history'[x][i] # history'[x][i - 1]
                      /\ row'[x].hash = LastOf(history'[x])
                      /\ row'[x].current = LastOf(history'[x])
                      /\ row'[x].versions = {history'[x][i] : i \in DOMAIN history'[x]}
                      /\ LastShown(history'[x], row'[x].documents)
      BY DEF ChangesAnnouncedOnce
  <2>1. CASE x \in DOMAIN page /\ ~Stored(x, page[x])
    <3> DEFINE seq == history[x]
               v == page[x]
               n == Len(seq) + 1
    <3>1. row'[x] = mapRecord(row[x], v) /\ history'[x] = Append(seq, v) /\ v \in Contents
        BY <1>1, <2>1, SyncCommitFacts
    <3>2. seq \in Seq(Values) /\ v \in Values
        BY <3>1 DEF TypeOK, Values, Records
    <3>3. /\ DOMAIN history'[x] = DOMAIN seq \cup {n} /\ history'[x][n] = v
          /\ \A i \in DOMAIN seq : history'[x][i] = seq[i]
          /\ DOMAIN seq = 1..Len(seq) /\ Len(seq) \in Nat /\ Len(history'[x]) = n
          /\ LastOf(history'[x]) = v
        BY <3>1, <3>2, AppendFacts
    <3>4. row[x] \in [hash: Contents \cup {"absent"}, current: Contents \cup {"absent"},
                      versions: SUBSET Contents, documents: Evidential \cup {"absent"}]
        BY DEF TypeOK
    <3>5. /\ row'[x].hash = v /\ row'[x].current = v
          /\ row'[x].versions = row[x].versions \cup {v}
          /\ row'[x].documents = IF v \in Evidential THEN v ELSE row[x].documents
        BY <3>1, <3>4 DEF mapRecord, DocumentsOf
    <3>6. Len(seq) > 0 => seq[Len(seq)] # v
        BY <2>1, <3>2 DEF ChangesAnnouncedOnce, Stored, LastOf, Last
    <3>7. \A i \in 2..Len(seq) : seq[i] # seq[i - 1]
        BY DEF ChangesAnnouncedOnce
    <3>8. row[x].versions = {seq[i] : i \in DOMAIN seq}
        BY DEF ChangesAnnouncedOnce
    <3>9. LastShown(history'[x], row'[x].documents)
      <4>1. LastShown(seq, row[x].documents)
          BY DEF ChangesAnnouncedOnce
      <4> QED
          BY <3>1, <3>2, <3>5, <4>1, LastShownAppend
    <3> HIDE DEF seq, v, n
    <3>10. \A i \in 2..n : history'[x][i] # history'[x][i - 1]
      <4>1. ASSUME NEW i \in 2..n PROVE history'[x][i] # history'[x][i - 1]
        <5>1. CASE i = n
            BY <3>3, <3>6, <5>1 DEF n
        <5>2. CASE i # n
            BY <3>3, <3>7, <5>2 DEF n
        <5> QED
            BY <5>1, <5>2
      <4> QED
          BY <4>1
    <3>11. row'[x].versions = {history'[x][i] : i \in DOMAIN history'[x]}
        BY <3>3, <3>5, <3>8
    <3> QED
        BY <3>3, <3>5, <3>9, <3>10, <3>11
  <2>2. CASE ~(x \in DOMAIN page /\ ~Stored(x, page[x]))
    <3>1. row'[x] = row[x] /\ history'[x] = history[x]
        BY <1>1, <2>2, SyncCommitFacts
    <3> QED
        BY <3>1 DEF ChangesAnnouncedOnce
  <2> QED
      BY <2>1, <2>2
<1>2. ASSUME NEW k \in Perceptions, PerceptionCommits(k) PROVE ChangesAnnouncedOnce'
    BY <1>2, PerceptionCommitFacts DEF ChangesAnnouncedOnce
<1>3. ASSUME UNCHANGED <<row, history>> PROVE ChangesAnnouncedOnce'
    BY <1>3 DEF ChangesAnnouncedOnce
<1> QED
    BY <1>1, <1>2, <1>3
    DEF Next, vars, Edit, runSourceSync, ListPage, SyncFails, PerceptionLists, PerceptionFails

LEMMA TombstoneStep == IInv /\ [Next]_vars => TombstonesRetire'
<1> SUFFICES ASSUME IInv, [Next]_vars PROVE TombstonesRetire'
    OBVIOUS
<1> USE DEF IInv
<1>1. ASSUME NEW k \in Syncs, SyncCommits(k) PROVE TombstonesRetire'
  <2>1. UNCHANGED <<artifact, synthesised>> /\ \A o \in Artifacts : history'[o] = history[o]
      BY <1>1, SyncCommitFacts
  <2> QED
      BY <2>1 DEF TombstonesRetire, Corpus
<1>2. ASSUME NEW k \in Perceptions, PerceptionCommits(k) PROVE TombstonesRetire'
  <2> DEFINE page == perception[k].page
  <2> SUFFICES ASSUME NEW o \in Artifacts
               PROVE  /\ artifact'[o].retired <=> LastOf(history'[o]) = "deleted"
                      /\ artifact'[o].observed =
                          {history'[o][i] : i \in SinceTombstone(history'[o])} \cap Evidential
      BY <1>2, PerceptionCommitFacts DEF TombstonesRetire
  <2>1. CASE o \in DOMAIN page
    <3> DEFINE seq == history[o]
               v == page[o]
    <3>1. /\ artifact'[o] = persistArtifact(artifact[o], v)
          /\ history'[o] = Append(seq, v) /\ v \in Values
        BY <1>2, <2>1, PerceptionCommitFacts
    <3>2. seq \in Seq(Values)
        BY DEF TypeOK, Artifacts
    <3>3. LastOf(history'[o]) = v
        BY <3>1, <3>2, AppendFacts
    <3>4. artifact[o].observed = {seq[i] : i \in SinceTombstone(seq)} \cap Evidential
        BY DEF TombstonesRetire
    <3>5. "deleted" \notin Evidential
        BY SyncAssumption
    <3> HIDE DEF seq, v
    <3> DEFINE longer == Append(seq, v)
               active == {longer[i] : i \in SinceTombstone(longer)}
    <3>6. active = IF v = "deleted" THEN {} ELSE {seq[i] : i \in SinceTombstone(seq)} \cup {v}
        BY <3>1, <3>2, SinceTombstoneAppend
    <3>7. {history'[o][i] : i \in SinceTombstone(history'[o])} = active
        BY <3>1
    <3>8. /\ artifact'[o].retired = (v = "deleted")
          /\ artifact'[o].observed =
              (IF v = "deleted" THEN {} ELSE artifact[o].observed) \cup ({v} \cap Evidential)
        BY <3>1 DEF persistArtifact, RetireObservations
    <3> HIDE DEF active
    <3>9. artifact'[o].observed = active \cap Evidential
        BY <3>4, <3>5, <3>6, <3>8
    <3> QED
        BY <3>3, <3>7, <3>8, <3>9
  <2>2. CASE o \notin DOMAIN page
    <3>1. artifact'[o] = artifact[o] /\ history'[o] = history[o]
        BY <1>2, <2>2, PerceptionCommitFacts
    <3> QED
        BY <3>1 DEF TombstonesRetire
  <2> QED
      BY <2>1, <2>2
<1>3. ASSUME UNCHANGED <<artifact, history, synthesised>> PROVE TombstonesRetire'
    BY <1>3 DEF TombstonesRetire, Corpus
<1> QED
    BY <1>1, <1>2, <1>3
    DEF Next, vars, Edit, runSourceSync, ListPage, SyncFails, PerceptionLists, PerceptionFails

-----------------------------------------------------------------------------
(* The theorems *)

\* The inductive invariant: what is stored, what the cursors claim and what
\* the syncs under way hold fit together.
THEOREM SyncInvariant == Spec => []IInv
<1>1. IInv /\ [Next]_vars => IInv'
  <2> SUFFICES ASSUME IInv, [Next]_vars PROVE IInv'
      OBVIOUS
  <2>1. TypeOK'
      BY NextTypes DEF IInv
  <2> QED
      BY <2>1, NumberedStep, LockedStep, ListedStep, PerceptionListedStep, CursorStep,
         AnnouncedStep, TombstoneStep DEF IInv
<1> QED
    BY <1>1, InitIInv, PTL DEF Spec

\* Every variable keeps its type.
THEOREM TypeCorrect == Spec => []TypeOK
<1>1. IInv => TypeOK
    BY DEF IInv
<1> QED
    BY <1>1, SyncInvariant, PTL

\* runSourceSync: a stored cursor claims no change that was not ingested, with
\* any number of syncs that overlap, fail and race with the source.
THEOREM CursorCoversContentHolds == Spec => []CursorCoversContent
<1>1. IInv => CursorCoversContent
    BY DEF IInv
<1> QED
    BY <1>1, SyncInvariant, PTL

\* runSourceSync and mapRecord: every change is announced once, and the stored
\* hash, version and documents are those the announcements add up to.
THEOREM ChangesAnnouncedOnceHolds == Spec => []ChangesAnnouncedOnce
<1>1. IInv => ChangesAnnouncedOnce
    BY DEF IInv
<1> QED
    BY <1>1, SyncInvariant, PTL

\* syncSimulatedExternalSources: a tombstone retires the artifact and all its
\* observations, and what is stored has been synthesised.
THEOREM TombstonesRetireHolds == Spec => []TombstonesRetire
<1>1. IInv => TombstonesRetire
    BY DEF IInv
<1> QED
    BY <1>1, SyncInvariant, PTL

=============================================================================
