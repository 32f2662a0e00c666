------------------------------ MODULE Retrieval ------------------------------
(***************************************************************************)
(* The shared knowledge base and the cache in front of it: indexDocument   *)
(* with storeVersion, hasCompleteChunks, replaceChunks and ensureSource of *)
(* knowledgeRepository.ts on one side, retrieveEvidence and                *)
(* retrievalCache.ts on the other.                                         *)
(*                                                                         *)
(* One page of one source is indexed by several indexers, the scheduled    *)
(* crawl and live promotion, while readers ask one cacheable question.     *)
(* A cached row carries the revision of the knowledge base it was computed *)
(* from.  An edition of the page stands for its time of retrieval.         *)
(***************************************************************************)
EXTENDS Integers, FiniteSets

CONSTANTS
  Indexers, Readers,
  Contents,       \* texts of the page
  MaxEditions,    \* bound on changes of the page
  MaxRevision,    \* bound on changes of the knowledge base
  NoRow,          \* no row in source_versions or retrieval_cache, no document
  NoEvidence      \* retrieval finds nothing

\* What the registry says of the source: its trust, or that it is volatile.
Registry == {"official", "community", "volatile"}

Version == [at : 1..MaxEditions, id : 1..Cardinality(Contents)]
Document == [content : Contents, at : 1..MaxEditions]
Evidence == [chunks : 1..MaxRevision, scored : Registry]
Row == [revision : 0..MaxRevision, evidence : Evidence]

ASSUME BoundAssumption ==
  IsFiniteSet(Contents) /\ MaxEditions \in Nat \ {0} /\ MaxRevision \in Nat

ASSUME NullAssumption == NoRow \notin Version \cup Row \cup Document /\ NoEvidence \notin Evidence

VARIABLES
  page, edition,  \* the text of the page now, and which edition that is
  versions,       \* source_versions of the page, by content
  chunks,         \* knowledge_chunks of each: the revision that wrote them
  registry,       \* knowledge_sources.registry
  revision,       \* knowledge_revision
  cache,          \* the row of retrieval_cache for the question
  ipc, document,  \* where an indexer is, and the document it fetched
  rpc,            \* where a reader is
  fingerprint,    \* the revision its snapshot had
  observed,       \* the revision of the stale row it saw
  result,         \* the evidence it has
  reverted,       \* history: the page went back to an earlier text
  published,      \* history: texts the page has had
  completed,      \* history: documents indexed to the end
  recent          \* history: what retrieval found in the course of a call

webVars == <<page, edition, reverted, published>>
kbVars == <<versions, chunks, registry, revision>>
indexerVars == <<ipc, document, completed>>
readerVars == <<rpc, fingerprint, observed, result>>
vars == <<page, edition, versions, chunks, registry, revision, cache, ipc, document, rpc,
          fingerprint, observed, result, reverted, published, completed, recent>>

TypeOK ==
  /\ page \in Contents /\ edition \in 1..MaxEditions
  /\ versions \in [Contents -> Version \cup {NoRow}]
  /\ chunks \in [Contents -> 0..MaxRevision]
  /\ registry \in Registry
  /\ revision \in 0..MaxRevision
  /\ cache \in Row \cup {NoRow}
  /\ ipc \in [Indexers -> {"idle", "store", "check", "replace"}]
  /\ document \in [Indexers -> Document \cup {NoRow}]
  /\ rpc \in [Readers -> {"idle", "clean", "query", "check", "write", "done"}]
  /\ fingerprint \in [Readers -> 0..MaxRevision]
  /\ observed \in [Readers -> 0..MaxRevision]
  /\ result \in [Readers -> Evidence \cup {NoEvidence}]
  /\ reverted \in BOOLEAN
  /\ published \in SUBSET Contents
  /\ completed \in SUBSET Document
  /\ recent \in [Readers -> SUBSET (Evidence \cup {NoEvidence})]

Init ==
  /\ page \in Contents /\ edition = 1
  /\ versions = [c \in Contents |-> NoRow]
  /\ chunks = [c \in Contents |-> 0]
  /\ registry = "official"
  /\ revision = 0
  /\ cache = NoRow
  /\ ipc = [i \in Indexers |-> "idle"]
  /\ document = [i \in Indexers |-> NoRow]
  /\ rpc = [r \in Readers |-> "idle"]
  /\ fingerprint = [r \in Readers |-> 0]
  /\ observed = [r \in Readers |-> 0]
  /\ result = [r \in Readers |-> NoEvidence]
  /\ reverted = FALSE /\ published = {page}
  /\ completed = {}
  /\ recent = [r \in Readers |-> {}]

IndexerAt(i, stage) == ipc' = [ipc EXCEPT ![i] = stage]
ReaderAt(r, stage) == rpc' = [rpc EXCEPT ![r] = stage]

-----------------------------------------------------------------------------
(* RETRIEVAL_SQL: the chunks of the newest version of a page that has any. *)

Indexed == {c \in Contents : chunks[c] # 0}

\* Broken: ORDER BY id instead of retrieved_at, id.
Newer_ById(c, d) == versions[c].id >= versions[d].id

Newer(c, d) ==
  \/ versions[c].at > versions[d].at
  \/ versions[c].at = versions[d].at /\ versions[c].id >= versions[d].id

Newest == CHOOSE c \in Indexed : \A d \in Indexed : Newer(c, d)

Retrieved ==
  IF Indexed = {} THEN NoEvidence ELSE [chunks |-> chunks[Newest], scored |-> registry]

-----------------------------------------------------------------------------
(* The web and the operator.                                               *)

Publish(c) ==
  /\ edition < MaxEditions
  /\ c # page
  /\ page' = c /\ edition' = edition + 1
  /\ reverted' = (reverted \/ c \in published)
  /\ published' = published \cup {c}
  /\ UNCHANGED <<kbVars, cache, indexerVars, readerVars>>

\* ensureSource with a changed registry entry; an unchanged one does nothing.
EnsureSource(entry) ==
  /\ revision < MaxRevision
  /\ entry # registry
  /\ registry' = entry
  /\ revision' = revision + 1
  /\ UNCHANGED <<webVars, versions, chunks, cache, indexerVars, readerVars>>

-----------------------------------------------------------------------------
(* indexDocument.                                                          *)

Fetch(i) ==
  /\ ipc[i] = "idle"
  /\ document' = [document EXCEPT ![i] = [content |-> page, at |-> edition]]
  /\ IndexerAt(i, "store")
  /\ UNCHANGED <<webVars, kbVars, cache, completed, readerVars>>

\* storeVersion: INSERT ... ON CONFLICT DO NOTHING.
Store(i) ==
  LET d == document[i]
      id == Cardinality({c \in Contents : versions[c] # NoRow}) + 1
  IN /\ ipc[i] = "store"
     /\ versions' = IF versions[d.content] = NoRow
                    THEN [versions EXCEPT ![d.content] = [at |-> d.at, id |-> id]]
                    ELSE versions
     /\ IndexerAt(i, "check")
     /\ UNCHANGED <<webVars, chunks, registry, revision, cache, document, completed, readerVars>>

\* The indexer is done with its document.
Finish(i) == document' = [document EXCEPT ![i] = NoRow] /\ IndexerAt(i, "idle")

Complete(i) == completed' = completed \cup {document[i]} /\ Finish(i)

\* hasCompleteChunks: then nothing is left to do, else the chunks are embedded.
CheckChunks(i) ==
  /\ ipc[i] = "check"
  /\ IF chunks[document[i].content] # 0
     THEN Complete(i)
     ELSE IndexerAt(i, "replace") /\ UNCHANGED <<document, completed>>
  /\ UNCHANGED <<webVars, kbVars, cache, readerVars>>

\* The transaction of replaceChunks: delete, insert with new ids, revision + 1.
NewChunks(c) ==
  /\ chunks' = [chunks EXCEPT ![c] = revision + 1]
  /\ revision' = revision + 1
  /\ UNCHANGED <<versions, registry>>

ReplaceChunks(i) ==
  /\ ipc[i] = "replace"
  /\ revision < MaxRevision
  /\ NewChunks(document[i].content)
  /\ Complete(i)
  /\ UNCHANGED <<webVars, cache, readerVars>>

\* A query or the embedder fails, the deadline passes, or the signal is seen
\* after the COMMIT of replaceChunks: the document counts as not indexed.
IndexFails(i) ==
  /\ ipc[i] # "idle"
  /\ \/ UNCHANGED kbVars
     \/ ipc[i] = "replace" /\ revision < MaxRevision /\ NewChunks(document[i].content)
  /\ Finish(i)
  /\ UNCHANGED <<webVars, cache, completed, readerVars>>

-----------------------------------------------------------------------------
(* retrieveEvidence.                                                       *)

\* The chunks a row names still exist and their source is not volatile.
Hydrates(e) == registry # "volatile" /\ \E c \in Contents : chunks[c] = e.chunks

Hit == cache # NoRow /\ cache.revision = revision /\ Hydrates(cache.evidence)

\* withRetrievalCacheSnapshot answers: revision, row and chunks are read in
\* one REPEATABLE READ snapshot.
ReadHit(r) ==
  /\ rpc[r] = "idle"
  /\ Hit
  /\ result' = [result EXCEPT ![r] = cache.evidence]
  /\ ReaderAt(r, "done")
  /\ UNCHANGED <<webVars, kbVars, cache, indexerVars, fingerprint, observed>>

\* It does not: no row, a stale one, one that does not hydrate, or one that has
\* expired, which may be any row.
ReadMiss(r) ==
  LET stale == cache # NoRow /\ cache.revision # revision
  IN /\ rpc[r] = "idle"
     /\ fingerprint' = [fingerprint EXCEPT ![r] = revision]
     /\ observed' = [observed EXCEPT ![r] = IF stale THEN cache.revision ELSE 0]
     /\ ReaderAt(r, IF stale THEN "clean" ELSE "query")
     /\ UNCHANGED <<webVars, kbVars, cache, indexerVars, result>>

\* Broken: DELETE by the key alone.
DeleteStale_AnyRow(r) ==
  /\ rpc[r] = "clean"
  /\ cache' \in {cache, NoRow}
  /\ observed' = [observed EXCEPT ![r] = 0]
  /\ ReaderAt(r, "query")
  /\ UNCHANGED <<webVars, kbVars, indexerVars, fingerprint, result>>

\* deleteStaleRetrievalCache, unless the database reports contention.
DeleteStale(r) ==
  /\ rpc[r] = "clean"
  /\ cache' \in {cache, IF cache # NoRow /\ cache.revision = observed[r] THEN NoRow ELSE cache}
  /\ observed' = [observed EXCEPT ![r] = 0]
  /\ ReaderAt(r, "query")
  /\ UNCHANGED <<webVars, kbVars, indexerVars, fingerprint, result>>

\* After the embedding, in a transaction of its own.
Query(r) ==
  /\ rpc[r] = "query"
  /\ result' = [result EXCEPT ![r] = Retrieved]
  /\ ReaderAt(r, IF Retrieved = NoEvidence \/ registry = "volatile" THEN "done" ELSE "check")
  /\ UNCHANGED <<webVars, kbVars, cache, indexerVars, fingerprint, observed>>

\* Broken: what was retrieved is cached whatever happened since the snapshot.
CheckFingerprint_Always(r) ==
  /\ rpc[r] = "check"
  /\ fingerprint' = [fingerprint EXCEPT ![r] = revision]
  /\ ReaderAt(r, "write")
  /\ UNCHANGED <<webVars, kbVars, cache, indexerVars, observed, result>>

\* writeRetrievalCache compares the revision, in a READ COMMITTED transaction.
CheckFingerprint(r) ==
  /\ rpc[r] = "check"
  /\ ReaderAt(r, IF fingerprint[r] = revision THEN "write" ELSE "done")
  /\ UNCHANGED <<webVars, kbVars, cache, indexerVars, fingerprint, observed, result>>

\* It writes a moment later, unless the database reports contention.
WriteCache(r) ==
  /\ rpc[r] = "write"
  /\ cache' \in {cache, [revision |-> fingerprint[r], evidence |-> result[r]]}
  /\ ReaderAt(r, "done")
  /\ UNCHANGED <<webVars, kbVars, indexerVars, fingerprint, observed, result>>

\* The evidence is returned, or an error or the deadline ended the call.
EndCall(r) ==
  /\ rpc[r] # "idle"
  /\ ReaderAt(r, "idle")
  /\ result' = [result EXCEPT ![r] = NoEvidence]
  /\ fingerprint' = [fingerprint EXCEPT ![r] = 0]
  /\ observed' = [observed EXCEPT ![r] = 0]
  /\ UNCHANGED <<webVars, kbVars, cache, indexerVars>>

-----------------------------------------------------------------------------
\* What retrieval finds while a call is in progress.
Observe ==
  recent' = [r \in Readers |->
               CASE rpc'[r] = "idle" -> {}
                 [] rpc[r] = "idle"  -> {Retrieved, Retrieved'}
                 [] OTHER            -> recent[r] \cup {Retrieved'}]

Step ==
  \/ \E c \in Contents : Publish(c)
  \/ \E entry \in Registry : EnsureSource(entry)
  \/ \E i \in Indexers :
       Fetch(i) \/ Store(i) \/ CheckChunks(i) \/ ReplaceChunks(i) \/ IndexFails(i)
  \/ \E r \in Readers :
       \/ ReadHit(r) \/ ReadMiss(r) \/ DeleteStale(r) \/ Query(r)
       \/ CheckFingerprint(r) \/ WriteCache(r) \/ EndCall(r)

Next == Step /\ Observe

Spec == Init /\ [][Next]_vars

-----------------------------------------------------------------------------
\* A row that carries the current revision holds what retrieval would find
\* now, of a source that is not volatile: a change of the chunks or of the
\* registry makes it a miss, and no reader brings an old result in under
\* a new revision.
CacheIsCurrent ==
  cache # NoRow /\ cache.revision = revision =>
    cache.evidence = Retrieved /\ registry # "volatile"

\* Cached or not, the evidence a call returns is what retrieval would have
\* found at some moment of that call.
ServedWasCurrent ==
  \A r \in Readers : rpc[r] = "done" => result[r] \in recent[r]

\* Neither the cache nor a call that uses it gives evidence out of its time.
EvidenceIsCurrent == CacheIsCurrent /\ ServedWasCurrent

\* Cleaning up never removes a row another reader has refreshed meanwhile.
DeletedIsStale ==
  [][cache # NoRow /\ cache' = NoRow => cache.revision # revision]_vars

\* Retrieval uses a version fetched no earlier than any document that has been
\* indexed.
UsesLatestIndexed == \A d \in completed : versions[Newest].at >= d.at

\* While the page only moves on, retrieval uses the latest of what was indexed,
\* in whatever order concurrent indexers stored and finished it.
LatestWins == ~reverted => UsesLatestIndexed
=============================================================================
