----------------------------- MODULE SourceSync -----------------------------
(***************************************************************************)
(* How content enters the system.  A connector sync lists what a source    *)
(* changed since its cursor, skips the records whose hash is stored, maps  *)
(* the others to content and evidence and announces them; a perception     *)
(* sync copies the artifacts of an external source, retires what a         *)
(* tombstone deletes and has the result synthesised.  Each is one          *)
(* transaction of the ingestion role.                                      *)
(*                                                                         *)
(* A connector sync first rewrites the core resources, and so holds their  *)
(* row locks until it commits: no other one reads a cursor meanwhile.  A   *)
(* perception sync reads its cursor and lists before the first row it      *)
(* locks.  What the transaction then does nobody sees before its commit,   *)
(* and it is one step.                                                     *)
(*                                                                         *)
(* The sources are external: a record's content is a value, its hash the   *)
(* value itself, and a cursor the number of changes its source has made.   *)
(* The fixtures of the repository are such sources with few changes.  What *)
(* an announced change sets off is ControlPlaneQueue's.                    *)
(***************************************************************************)
EXTENDS Naturals, Sequences, FiniteSets, SequencesExt

CONSTANTS
    Connected,      \* sources that have a connector
    External,       \* external_source_connections
    Objects,        \* source_objects
    SourceOf,       \* the source of each object
    Contents,       \* what an object may hold
    Evidential,     \* contents with evidence, or with an observable signal
    Syncs,          \* runs of a connector
    Perceptions,    \* runs of syncSimulatedExternalSources
    MaxEdits        \* bound: changes in the sources

ASSUME SyncAssumption ==
    /\ Connected \cap External = {}
    /\ SourceOf \in [Objects -> Connected \cup External]
    /\ Evidential \subseteq Contents
    /\ {"absent", "deleted"} \cap Contents = {}
    /\ MaxEdits \in Nat

VARIABLES
    live,           \* live[o]: what the source holds
    rev,            \* rev[s]: how many changes s has made
    changed,        \* changed[o]: the last of them that was to o
    cursor,         \* sources.cursor, external_source_connections.cursor
    row,            \* row[o]: a connected object and what it was mapped to
    artifact,       \* artifact[o]: an external object and its observations
    history,        \* history[o]: the versions of o in the order of their events
    synthesised,    \* the corpora that perception syncs gave to discovery
    sync,           \* sync[k]: what a connector sync is doing
    perception      \* perception[k]: what a perception sync is doing

vars == <<live, rev, changed, cursor, row, artifact, history, synthesised, sync,
          perception>>

Sources == Connected \cup External
Records == {o \in Objects : SourceOf[o] \in Connected}
Artifacts == Objects \ Records

Revisions == Nat
Values == Contents \cup {"absent", "deleted"}

Pages == UNION {[D -> Values] : D \in SUBSET Objects}

NoPage == [o \in {} |-> "absent"]

Idle == [pc |-> "idle", source |-> "none", cursor |-> 0, page |-> NoPage, next |-> 0]

NoRow == [hash |-> "absent", current |-> "absent", versions |-> {}, documents |-> "absent"]

NoArtifact == [current |-> "absent", versions |-> {}, retired |-> FALSE, observed |-> {}]

TypeOK ==
    /\ live \in [Objects -> Values]
    /\ rev \in [Sources -> Revisions]
    /\ changed \in [Objects -> Revisions]
    /\ cursor \in [Sources -> Revisions]
    /\ row \in [Records -> [hash: Contents \cup {"absent"}, current: Contents \cup {"absent"},
                            versions: SUBSET Contents, documents: Evidential \cup {"absent"}]]
    /\ artifact \in [Artifacts -> [current: Values, versions: SUBSET Values,
                                   retired: BOOLEAN, observed: SUBSET Evidential]]
    /\ history \in [Objects -> Seq(Values)]
    /\ synthesised \subseteq [Artifacts -> Values]
    /\ sync \in [Syncs ->
        [pc: {"idle", "started", "listed"}, source: Connected \cup {"none"},
         cursor: Revisions, page: Pages, next: Revisions]]
    /\ perception \in [Perceptions ->
        [pc: {"idle", "listed"}, page: Pages, next: [External -> Revisions]]]

Quiet == [pc |-> "idle", page |-> NoPage, next |-> [s \in External |-> 0]]

Init ==
    /\ live = [o \in Objects |-> "absent"]
    /\ rev = [s \in Sources |-> 0]
    /\ changed = [o \in Objects |-> 0]
    /\ cursor = [s \in Sources |-> 0]
    /\ row = [o \in Records |-> NoRow]
    /\ artifact = [o \in Artifacts |-> NoArtifact]
    /\ history = [o \in Objects |-> <<>>]
    /\ synthesised = {}
    /\ sync = [k \in Syncs |-> Idle]
    /\ perception = [k \in Perceptions |-> Quiet]

-----------------------------------------------------------------------------
(* The sources *)

\* A source writes an object; an external one may delete it.  A connector has
\* no way to report a deletion.
Edit(o) ==
    LET s == SourceOf[o]
        writable == IF s \in External /\ live[o] # "absent"
                    THEN Contents \cup {"deleted"} ELSE Contents
    IN  /\ FoldFunction(LAMBDA n, m : n + m, 0, rev) < MaxEdits
        /\ \E value \in writable \ {live[o]} : live' = [live EXCEPT ![o] = value]
        /\ rev' = [rev EXCEPT ![s] = @ + 1]
        /\ changed' = [changed EXCEPT ![o] = rev[s] + 1]
        /\ UNCHANGED <<cursor, row, artifact, history, synthesised, sync, perception>>

Existing(s) == {o \in Objects : SourceOf[o] = s /\ live[o] # "absent"}

Changes(s, since) == {o \in Existing(s) : changed[o] > since}

\* A page lists what changed since the cursor, perhaps with records that did
\* not, and is empty if nothing changed.
MayList(s, since) ==
    IF Changes(s, since) = {} THEN {{}}
    ELSE {D \in SUBSET Existing(s) : Changes(s, since) \subseteq D}

listChanges(D) == [o \in D |-> live[o]]

-----------------------------------------------------------------------------
(* runSourceSync, runCrmSync *)

\* Mutant: a sync of a source that is there already locks nothing.
NothingLocked == FALSE

\* The row locks of ensureCoreResources, from before the cursor is read.
CoreLocked == \E k \in Syncs : sync[k].pc # "idle"

runSourceSync(k, s) ==
    /\ ~CoreLocked
    /\ sync' = [sync EXCEPT ![k] = [Idle EXCEPT !.pc = "started", !.source = s,
                                               !.cursor = cursor[s]]]
    /\ UNCHANGED <<live, rev, changed, cursor, row, artifact, history, synthesised,
                   perception>>

ListPage(k) ==
    /\ sync[k].pc = "started"
    /\ \E D \in MayList(sync[k].source, sync[k].cursor) :
        sync' = [sync EXCEPT ![k].pc = "listed", ![k].page = listChanges(D),
                             ![k].next = rev[sync[k].source]]
    /\ UNCHANGED <<live, rev, changed, cursor, row, artifact, history, synthesised,
                   perception>>

\* Mutant: a record is skipped if its version is stored, current or not.
VersionStored(o, value) == value \in row[o].versions

Stored(o, value) == row[o].hash = value

\* Mutant: documents are written for every record.
DocumentsRegardless(r, value) == value

\* Mutant: a version that was stored before is not made active again.
DocumentsOnce(r, value) ==
    IF value \in Evidential /\ value \notin r.versions THEN value ELSE r.documents

\* The search documents of the record's evidence.  A record without evidence
\* returns before the older documents are deactivated.
DocumentsOf(r, value) == IF value \in Evidential THEN value ELSE r.documents

mapRecord(r, value) ==
    [r EXCEPT !.hash = value, !.current = value, !.versions = @ \cup {value},
              !.documents = DocumentsOf(r, value)]

\* The records, the cursor, the run and its events, in one commit.
SyncCommits(k) ==
    LET page == sync[k].page
        new == {o \in DOMAIN page : ~Stored(o, page[o])}
    IN  /\ sync[k].pc = "listed"
        /\ row' = [o \in Records |-> IF o \in new THEN mapRecord(row[o], page[o]) ELSE row[o]]
        /\ history' = [o \in Objects |->
                IF o \in new THEN Append(history[o], page[o]) ELSE history[o]]
        /\ cursor' = [cursor EXCEPT ![sync[k].source] = sync[k].next]
        /\ sync' = [sync EXCEPT ![k] = Idle]
        /\ UNCHANGED <<live, rev, changed, artifact, synthesised, perception>>

\* The connector throws, the database refuses, or the process dies.  The run
\* marked 'failed', if that update succeeds at all, is rolled back as well.
SyncFails(k) ==
    /\ sync[k].pc # "idle"
    /\ sync' = [sync EXCEPT ![k] = Idle]
    /\ UNCHANGED <<live, rev, changed, cursor, row, artifact, history, synthesised,
                   perception>>

-----------------------------------------------------------------------------
(* syncSimulatedExternalSources *)

PerceptionLists(k) ==
    /\ perception[k].pc = "idle"
    /\ perception' = [perception EXCEPT ![k] =
        [pc |-> "listed",
         page |-> listChanges(UNION {IF Changes(s, cursor[s]) = {} THEN {} ELSE Existing(s) :
                                     s \in External}),
         next |-> [s \in External |-> rev[s]]]]
    /\ UNCHANGED <<live, rev, changed, cursor, row, artifact, history, synthesised, sync>>

\* Mutant: a tombstone retires the observations of the current version only.
RetireCurrent(a) == a.observed \ {a.current}

RetireObservations(a) == {}

\* The artifact, its version, its status, and the observations made of it.  A
\* new version leaves the observations of the older ones active.
persistArtifact(a, value) ==
    [current |-> value,
     versions |-> a.versions \cup {value},
     retired |-> value = "deleted",
     observed |-> (IF value = "deleted" THEN RetireObservations(a) ELSE a.observed)
                      \cup ({value} \cap Evidential)]

Corpus(artifacts) ==
    [o \in Artifacts |-> IF artifacts[o].retired THEN "absent" ELSE artifacts[o].current]

PerceptionCommits(k) ==
    LET page == perception[k].page
        persisted == [o \in Artifacts |->
            IF o \in DOMAIN page THEN persistArtifact(artifact[o], page[o]) ELSE artifact[o]]
    IN  /\ perception[k].pc = "listed"
        /\ artifact' = persisted
        /\ history' = [o \in Objects |->
                IF o \in DOMAIN page THEN Append(history[o], page[o]) ELSE history[o]]
        /\ cursor' = [s \in Sources |->
                IF s \in External THEN perception[k].next[s] ELSE cursor[s]]
        /\ synthesised' = synthesised \cup {Corpus(persisted)}
        /\ perception' = [perception EXCEPT ![k] = Quiet]
        /\ UNCHANGED <<live, rev, changed, row, sync>>

PerceptionFails(k) ==
    /\ perception[k].pc = "listed"
    /\ perception' = [perception EXCEPT ![k] = Quiet]
    /\ UNCHANGED <<live, rev, changed, cursor, row, artifact, history, synthesised, sync>>

Next ==
    \/ \E o \in Objects : Edit(o)
    \/ \E k \in Syncs, s \in Connected : runSourceSync(k, s)
    \/ \E k \in Syncs : ListPage(k)
    \/ \E k \in Syncs : SyncCommits(k)
    \/ \E k \in Syncs : SyncFails(k)
    \/ \E k \in Perceptions : PerceptionLists(k)
    \/ \E k \in Perceptions : PerceptionCommits(k)
    \/ \E k \in Perceptions : PerceptionFails(k)

Spec == Init /\ [][Next]_vars

-----------------------------------------------------------------------------
(* Properties *)

\* The newest of an object's announced versions.
LastOf(seq) == IF seq = <<>> THEN "absent" ELSE Last(seq)

\* v is the newest of them with evidence, "absent" if none has any.
LastShown(seq, v) ==
    \/ v = "absent" /\ \A i \in DOMAIN seq : seq[i] \notin Evidential
    \/ \E i \in DOMAIN seq :
        /\ seq[i] \in Evidential /\ v = seq[i]
        /\ \A j \in DOMAIN seq : j > i => seq[j] \notin Evidential

\* A connector's cursor never claims a change that was not ingested: whatever
\* the source changes while a sync runs, whichever syncs fail, and also when a
\* content returns that was stored before, an object whose last change is
\* behind the cursor is stored as the source holds it.
CursorCoversContent ==
    \A o \in Records :
        live[o] # "absent" /\ changed[o] <= cursor[SourceOf[o]] =>
            row[o].hash = live[o] /\ row[o].current = live[o]

\* The announced changes explain what is stored of a record, each of them
\* announced once: a replayed sync manufactures no event and no version, the
\* current version is the last one announced, and the documents that searches
\* find are those of the last version that had evidence.
ChangesAnnouncedOnce ==
    \A o \in Records :
        /\ \A i \in 2..Len(history[o]) : history[o][i] # history[o][i - 1]
        /\ row[o].hash = LastOf(history[o])
        /\ row[o].current = LastOf(history[o])
        /\ row[o].versions = {history[o][i] : i \in DOMAIN history[o]}
        /\ LastShown(history[o], row[o].documents)

\* docs/simulated-source-perception.md: "A source tombstone retires its
\* canonical artifact and derived observations."  The active observations of an
\* artifact are those of the versions since its last tombstone, none while it
\* is deleted, also when perception syncs overlap or an artifact returns as it
\* was; and what is stored now has been synthesised.
SinceTombstone(seq) ==
    {i \in DOMAIN seq : \A n \in i..Len(seq) : seq[n] # "deleted"}

TombstonesRetire ==
    /\ \A o \in Artifacts :
        /\ artifact[o].retired <=> LastOf(history[o]) = "deleted"
        /\ artifact[o].observed =
            {history[o][i] : i \in SinceTombstone(history[o])} \cap Evidential
    /\ (\E o \in Artifacts : artifact[o] # NoArtifact) => Corpus(artifact) \in synthesised

=============================================================================
