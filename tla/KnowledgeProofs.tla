--------------------------- MODULE KnowledgeProofs ---------------------------
(***************************************************************************)
(* Proofs about the two ends of the knowledge base, for any constants.     *)
(*                                                                         *)
(* Retrieval: what the cache serves is current.  The argument is the one   *)
(* the code relies on: as long as the revision stays, so does what         *)
(* retrieval finds, because every change of chunks or registry moves the   *)
(* revision, and a version that is stored without a change of the revision *)
(* has no chunks yet and cannot be the newest.                             *)
(*                                                                         *)
(* Crawl: what the knowledge worker stores is true.  A crawl writes a      *)
(* state only over the one it has read, and last; what it has read is true *)
(* and stays so, since the index only grows; so what it writes is true.    *)
(* Rows of jobs come and go in the order in which they were sent.  A site  *)
(* is crawled whole because a set of pages that contains the seed and what *)
(* its pages link to contains all that is reachable.                       *)
(***************************************************************************)
EXTENDS Retrieval, Crawl, FiniteSetTheorems, WellFoundedInduction, TLAPS

-----------------------------------------------------------------------------
(* Retrieval: its inductive invariant.                                     *)

\* TypeOK without the history of the readers.
StateOK ==
  /\ page \in Contents /\ edition \in 1..MaxEditions
  /\ versions \in [Contents -> Version \cup {NoRow}]
  /\ chunks \in [Contents -> 0..MaxRevision]
  /\ registry \in Registry
  /\ revision \in 0..MaxRevision
  /\ cache \in Row \cup {NoRow}
  /\ ipc \in [Indexers -> {"idle", "store", "check", "replace"}]
  /\ document \in [Indexers -> Document \cup {NoRow}]
  /\ rpc \in [Readers -> {"idle", "clean", "query", "check", "write", "done"}]
  /\ fingerprint \in [Readers -> 0..MaxRevision]
  /\ observed \in [Readers -> 0..MaxRevision]
  /\ result \in [Readers -> Evidence \cup {NoEvidence}]
  /\ reverted \in BOOLEAN
  /\ published \in SUBSET Contents
  /\ completed \in SUBSET Document

RecentOK == recent \in [Readers -> SUBSET (Evidence \cup {NoEvidence})]

\* Chunks belong to a stored version.
ChunksInv == \A c \in Contents : chunks[c] # 0 => versions[c] # NoRow

\* An indexer has a document, and beyond storeVersion its version exists.
IndexerInv ==
  \A i \in Indexers :
    /\ ipc[i] # "idle" => document[i] \in Document
    /\ ipc[i] \in {"check", "replace"} => versions[document[i].content] # NoRow

\* A row of the present revision is current.
CacheInv ==
  cache # NoRow =>
    /\ cache.revision <= revision
    /\ cache.revision = revision => cache.evidence = Retrieved /\ registry # "volatile"

\* What a reader is about to write is current if its snapshot still is; a row
\* it is about to delete is not.
ReaderInv ==
  \A r \in Readers :
    /\ fingerprint[r] <= revision
    /\ rpc[r] = "clean" => observed[r] < revision
    /\ rpc[r] \in {"check", "write"} =>
         /\ result[r] # NoEvidence
         /\ fingerprint[r] = revision => result[r] = Retrieved /\ registry # "volatile"

\* A call has seen what retrieval finds, and what it will return.
RecentInv ==
  \A r \in Readers : rpc[r] # "idle" =>
    /\ Retrieved \in recent[r]
    /\ rpc[r] \in {"check", "write", "done"} => result[r] \in recent[r]

KbInv == ChunksInv /\ IndexerInv

IInv == StateOK /\ RecentOK /\ KbInv /\ CacheInv /\ ReaderInv /\ RecentInv

-----------------------------------------------------------------------------
(* The newest version.                                                     *)

\* A set of numbers below a bound has a largest one.
LEMMA Largest ==
  ASSUME NEW k \in Nat, NEW T, T \subseteq 0..k, T # {}
  PROVE  \E m \in T : \A n \in T : n <= m
<1> DEFINE Gaps == {g \in Nat : \E t \in T : g = k - t}
<1>1. \A t \in T : k - t \in Gaps
  OBVIOUS
<1>2. Gaps \subseteq Nat /\ Gaps # {}
  BY <1>1
<1>3. PICK x \in Gaps : \A y \in Gaps : ~(<<y, x>> \in OpToRel(<, Nat))
  BY <1>2, WFMin, NatLessThanWellFounded
<1>4. \A y \in Gaps : ~(y < x)
  BY <1>2, <1>3, Zenon DEF OpToRel
<1>5. PICK m \in T : x = k - m
  OBVIOUS
<1>6. ASSUME NEW n \in T PROVE n <= m
  <2>1. ~(k - n < k - m)
    BY <1>1, <1>4, <1>5, <1>6
  <2>2. QED
    BY <2>1, <1>6
<1>7. QED
  BY <1>6

\* Newest is well defined as soon as something is indexed.
LEMMA NewestExists ==
  ASSUME StateOK, ChunksInv, Indexed # {}
  PROVE  /\ Newest \in Indexed
         /\ \A d \in Indexed : Newer(Newest, d)
<1>1. /\ Cardinality(Contents) \in Nat /\ MaxEditions \in Nat
      /\ \A c \in Indexed : versions[c] \in Version
  BY BoundAssumption, FS_CardinalityType DEF StateOK, ChunksInv, Indexed
<1> DEFINE Ats == {versions[c].at : c \in Indexed}
<1>2. Ats \subseteq 0..MaxEditions /\ Ats # {}
  BY <1>1 DEF Version
<1>3. PICK a \in Ats : \A b \in Ats : b <= a
  BY <1>1, <1>2, Largest
<1> DEFINE Ids == {versions[c].id : c \in {d \in Indexed : versions[d].at = a}}
<1>4. Ids \subseteq 0..Cardinality(Contents) /\ Ids # {}
  BY <1>1 DEF Version
<1>5. PICK m \in Ids : \A n \in Ids : n <= m
  BY <1>1, <1>4, Largest
<1>6. PICK c \in Indexed : versions[c].at = a /\ versions[c].id = m
  OBVIOUS
<1>7. ASSUME NEW d \in Indexed PROVE Newer(c, d)
  <2>1. versions[d].at <= a
    BY <1>3
  <2>2. versions[d].at = a => versions[d].id <= m
    BY <1>5
  <2>3. versions[d].at \in Nat /\ a \in Nat /\ versions[d].id \in Nat /\ m \in Nat
    BY <1>1, <1>2, <1>4 DEF Version
  <2>4. QED
    BY <1>6, <2>1, <2>2, <2>3 DEF Newer
<1>8. QED
  BY <1>6, <1>7, Zenon DEF Newest

RetrievedOK == Retrieved \in Evidence \cup {NoEvidence}

LEMMA RetrievedType == StateOK /\ ChunksInv => RetrievedOK
<1> SUFFICES ASSUME StateOK, ChunksInv
             PROVE  Retrieved \in Evidence \cup {NoEvidence}
  BY DEF RetrievedOK
<1>1. CASE Indexed = {}
  BY <1>1 DEF Retrieved
<1>2. CASE Indexed # {}
  <2>1. Newest \in Contents /\ chunks[Newest] # 0
    BY <1>2, NewestExists DEF Indexed
  <2>2. chunks[Newest] \in 1..MaxRevision /\ registry \in Registry
    BY <2>1, BoundAssumption DEF StateOK
  <2>3. [chunks |-> chunks[Newest], scored |-> registry] \in Evidence
    BY <2>2 DEF Evidence
  <2>4. QED
    BY <1>2, <2>3 DEF Retrieved
<1>3. QED
  BY <1>1, <1>2

\* Retrieval does not see a version without chunks.
LEMMA RetrievedSame ==
  ASSUME UNCHANGED <<chunks, registry>>,
         \A c \in Indexed : versions'[c] = versions[c]
  PROVE  Retrieved' = Retrieved
<1>1. Indexed' = Indexed
  BY DEF Indexed
<1>2. \A c, d \in Indexed : Newer(c, d)' <=> Newer(c, d)
  BY DEF Newer
<1>3. Newest' = Newest
  BY <1>1, <1>2 DEF Newest
<1>4. QED
  BY <1>1, <1>3 DEF Retrieved

-----------------------------------------------------------------------------
(* Initially.                                                              *)

LEMMA InitInv == Init => IInv
<1> SUFFICES ASSUME Init PROVE IInv
  OBVIOUS
<1>1. StateOK
  <2>1. reverted \in BOOLEAN /\ registry \in Registry /\ cache = NoRow
    BY DEF Init, Registry
  <2>2. edition \in 1..MaxEditions /\ revision \in 0..MaxRevision /\ 0 \in 0..MaxRevision
    BY BoundAssumption DEF Init
  <2>3. QED
    BY <2>1, <2>2 DEF Init, StateOK
<1>2. RecentOK /\ KbInv
  BY DEF Init, RecentOK, KbInv, ChunksInv, IndexerInv
<1>3. CacheInv /\ ReaderInv /\ RecentInv
  BY DEF Init, CacheInv, ReaderInv, RecentInv
<1>4. QED
  BY <1>1, <1>2, <1>3 DEF IInv

-----------------------------------------------------------------------------
(* Types.                                                                  *)

\* The row a new version gets: its id counts the rows there are.
LEMMA StoreType ==
  ASSUME StateOK, KbInv, NEW i \in Indexers, Store(i)
  PROVE  /\ versions' \in [Contents -> Version \cup {NoRow}]
         /\ versions'[document[i].content] # NoRow
<1> DEFINE stored == {c \in Contents : versions[c] # NoRow}
<1>1. document[i] \in Document
  BY DEF Store, KbInv, IndexerInv
<1>2. document[i].content \in Contents /\ document[i].at \in 1..MaxEditions
  BY <1>1 DEF Document
<1>3. CASE versions[document[i].content] = NoRow
  <2>1. document[i].content \notin stored /\ stored \subseteq Contents
    BY <1>3
  <2>2. IsFiniteSet(stored) /\ Cardinality(stored) <= Cardinality(Contents)
    BY BoundAssumption, <2>1, FS_Subset
  <2>3. stored # Contents
    BY <1>2, <2>1
  <2>4. Cardinality(stored) # Cardinality(Contents)
    BY BoundAssumption, <2>1, <2>3, FS_Subset
  <2>5. Cardinality(stored) \in Nat /\ Cardinality(Contents) \in Nat
    BY BoundAssumption, <2>2, FS_CardinalityType
  <2>6. Cardinality(stored) + 1 \in 1..Cardinality(Contents)
    BY <2>2, <2>4, <2>5
  <2>7. [at |-> document[i].at, id |-> Cardinality(stored) + 1] \in Version
    BY <1>2, <2>6 DEF Version
  <2>8. versions' = [versions EXCEPT ![document[i].content] =
                       [at |-> document[i].at, id |-> Cardinality(stored) + 1]]
    BY <1>3 DEF Store
  <2>9. QED
    BY <1>2, <2>7, <2>8, NullAssumption DEF StateOK
<1>4. CASE versions[document[i].content] # NoRow
  BY <1>2, <1>4 DEF Store, StateOK
<1>5. QED
  BY <1>3, <1>4

LEMMA IndexerType ==
  ASSUME StateOK, KbInv, NEW i \in Indexers,
         Fetch(i) \/ Store(i) \/ CheckChunks(i) \/ ReplaceChunks(i) \/ IndexFails(i)
  PROVE  StateOK'
<1> USE DEF StateOK, IndexerAt, webVars, kbVars, readerVars
<1>1. CASE Fetch(i)
  <2>1. [content |-> page, at |-> edition] \in Document
    BY DEF Document
  <2>2. QED
    BY <1>1, <2>1 DEF Fetch
<1>2. CASE Store(i)
  BY <1>2, StoreType DEF Store
<1>3. CASE CheckChunks(i)
  <2>1. document[i] \in Document
    BY <1>3 DEF CheckChunks, KbInv, IndexerInv
  <2>2. QED
    BY <1>3, <2>1 DEF CheckChunks, Complete, Finish
<1>4. CASE ReplaceChunks(i)
  <2>1. document[i] \in Document
    BY <1>4 DEF ReplaceChunks, KbInv, IndexerInv
  <2>2. revision + 1 \in 0..MaxRevision
    BY <1>4, BoundAssumption DEF ReplaceChunks
  <2>3. QED
    BY <1>4, <2>1, <2>2 DEF ReplaceChunks, NewChunks, Complete, Finish
<1>5. CASE IndexFails(i)
  <2>1. CASE UNCHANGED kbVars
    BY <1>5, <2>1 DEF IndexFails, Finish
  <2>2. CASE revision < MaxRevision /\ NewChunks(document[i].content)
    <3>1. revision + 1 \in 0..MaxRevision
      BY <2>2, BoundAssumption
    <3>2. QED
      BY <1>5, <2>2, <3>1 DEF IndexFails, NewChunks, Finish
  <2>3. QED
    BY <1>5, <2>1, <2>2 DEF IndexFails
<1>6. QED
  BY <1>1, <1>2, <1>3, <1>4, <1>5

LEMMA ReaderType ==
  ASSUME StateOK, KbInv, ReaderInv, NEW r \in Readers,
         \/ ReadHit(r) \/ ReadMiss(r) \/ DeleteStale(r) \/ Query(r)
         \/ CheckFingerprint(r) \/ WriteCache(r) \/ EndCall(r)
  PROVE  StateOK'
<1> USE DEF StateOK, ReaderAt, webVars, kbVars, indexerVars
<1>1. CASE ReadHit(r)
  <2>1. cache.evidence \in Evidence
    BY <1>1 DEF ReadHit, Hit, Row
  <2>2. QED
    BY <1>1, <2>1 DEF ReadHit
<1>2. CASE ReadMiss(r)
  <2>1. 0 \in 0..MaxRevision /\ (cache # NoRow => cache.revision \in 0..MaxRevision)
    BY BoundAssumption DEF Row
  <2>2. QED
    BY <1>2, <2>1 DEF ReadMiss
<1>3. CASE DeleteStale(r)
  BY <1>3, BoundAssumption DEF DeleteStale
<1>4. CASE Query(r)
  BY <1>4, RetrievedType DEF Query, KbInv, RetrievedOK
<1>5. CASE CheckFingerprint(r)
  BY <1>5 DEF CheckFingerprint
<1>6. CASE WriteCache(r)
  <2>1. result[r] \in Evidence
    BY <1>6 DEF WriteCache, ReaderInv
  <2>2. [revision |-> fingerprint[r], evidence |-> result[r]] \in Row
    BY <2>1 DEF Row
  <2>3. QED
    BY <1>6, <2>2 DEF WriteCache
<1>7. CASE EndCall(r)
  BY <1>7, BoundAssumption DEF EndCall
<1>8. QED
  BY <1>1, <1>2, <1>3, <1>4, <1>5, <1>6, <1>7

LEMMA StepType ==
  ASSUME StateOK, KbInv, ReaderInv, Step
  PROVE  StateOK'
<1>1. ASSUME NEW c \in Contents, Publish(c) PROVE StateOK'
  BY <1>1, BoundAssumption DEF StateOK, Publish, kbVars, indexerVars, readerVars
<1>2. ASSUME NEW entry \in Registry, EnsureSource(entry) PROVE StateOK'
  BY <1>2, BoundAssumption DEF StateOK, EnsureSource, webVars, indexerVars, readerVars
<1>3. QED
  BY <1>1, <1>2, IndexerType, ReaderType DEF Step

-----------------------------------------------------------------------------
(* The steps of the indexers.                                              *)

LEMMA KbStep ==
  ASSUME StateOK, KbInv, Step
  PROVE  KbInv'
<1> USE DEF KbInv, ChunksInv, IndexerInv
<1>1. CASE \E c \in Contents : Publish(c)
  BY <1>1 DEF Publish, kbVars, indexerVars
<1>2. CASE \E entry \in Registry : EnsureSource(entry)
  BY <1>2 DEF EnsureSource, indexerVars
<1>3. ASSUME NEW r \in Readers,
             \/ ReadHit(r) \/ ReadMiss(r) \/ DeleteStale(r) \/ Query(r)
             \/ CheckFingerprint(r) \/ WriteCache(r) \/ EndCall(r)
      PROVE  KbInv'
  BY <1>3 DEF ReadHit, ReadMiss, DeleteStale, Query, CheckFingerprint, WriteCache, EndCall,
     kbVars, indexerVars
<1>4. ASSUME NEW i \in Indexers, Fetch(i) PROVE KbInv'
  BY <1>4 DEF StateOK, Fetch, IndexerAt, Document, kbVars
<1>5. ASSUME NEW i \in Indexers, Store(i) PROVE KbInv'
  <2>1. versions'[document[i].content] # NoRow
    BY <1>5, StoreType
  <2>2. \A c \in Contents : versions[c] # NoRow => versions'[c] = versions[c]
    BY <1>5 DEF Store, StateOK
  <2>3. document[i].content \in Contents
    BY <1>5 DEF Store, Document
  <2>4. document'[i] = document[i]
    BY <1>5 DEF Store
  <2>5. ChunksInv'
    BY <1>5, <2>2 DEF Store
  <2>6. IndexerInv'
    BY <1>5, <2>1, <2>2, <2>4 DEF Store, StateOK, IndexerAt, Document
  <2>7. QED
    BY <2>5, <2>6
<1>6. ASSUME NEW i \in Indexers, CheckChunks(i) PROVE KbInv'
  BY <1>6 DEF StateOK, CheckChunks, Complete, Finish, IndexerAt, kbVars
<1>7. ASSUME NEW i \in Indexers, ReplaceChunks(i) \/ IndexFails(i) PROVE KbInv'
  <2>1. document[i].content \in Contents
    BY <1>7 DEF ReplaceChunks, IndexFails, Document
  <2>2. ChunksInv'
    BY <1>7, <2>1 DEF StateOK, ReplaceChunks, IndexFails, NewChunks, kbVars
  <2>3. IndexerInv'
    BY <1>7 DEF StateOK, ReplaceChunks, IndexFails, NewChunks, Complete, Finish, IndexerAt, kbVars
  <2>4. QED
    BY <2>2, <2>3
<1>8. QED
  BY <1>1, <1>2, <1>3, <1>4, <1>5, <1>6, <1>7 DEF Step

\* The revision guards what retrieval finds.
Still == UNCHANGED <<revision, registry>> /\ Retrieved' = Retrieved

Moved == revision' = revision + 1 /\ UNCHANGED <<cache, readerVars>>

LEMMA StillOrMoved ==
  ASSUME StateOK, KbInv, Step
  PROVE  Still \/ Moved
<1>1. CASE \E c \in Contents : Publish(c)
  <2>1. UNCHANGED kbVars
    BY <1>1 DEF Publish
  <2>2. QED
    BY <2>1, RetrievedSame DEF Still, kbVars, Indexed
<1>2. CASE \E entry \in Registry : EnsureSource(entry)
  BY <1>2 DEF EnsureSource, Moved
<1>3. ASSUME NEW r \in Readers,
             \/ ReadHit(r) \/ ReadMiss(r) \/ DeleteStale(r) \/ Query(r)
             \/ CheckFingerprint(r) \/ WriteCache(r) \/ EndCall(r)
      PROVE  Still
  <2>1. UNCHANGED kbVars
    BY <1>3 DEF ReadHit, ReadMiss, DeleteStale, Query, CheckFingerprint, WriteCache, EndCall
  <2>2. QED
    BY <2>1, RetrievedSame DEF Still, kbVars, Indexed
<1>4. ASSUME NEW i \in Indexers, Store(i) PROVE Still
  <2>1. \A c \in Indexed : versions'[c] = versions[c]
    BY <1>4 DEF Store, StateOK, KbInv, ChunksInv, Indexed
  <2>2. QED
    BY <1>4, <2>1, RetrievedSame DEF Store, Still
<1>5. ASSUME NEW i \in Indexers, Fetch(i) \/ CheckChunks(i) PROVE Still
  <2>1. UNCHANGED kbVars
    BY <1>5 DEF Fetch, CheckChunks
  <2>2. QED
    BY <2>1, RetrievedSame DEF Still, kbVars, Indexed
<1>6. ASSUME NEW i \in Indexers, ReplaceChunks(i) \/ IndexFails(i) PROVE Still \/ Moved
  <2>1. CASE UNCHANGED kbVars
    BY <2>1, RetrievedSame DEF Still, kbVars, Indexed
  <2>2. CASE ~UNCHANGED kbVars
    BY <1>6, <2>2 DEF ReplaceChunks, IndexFails, NewChunks, Moved
  <2>3. QED
    BY <2>1, <2>2
<1>7. QED
  BY <1>1, <1>2, <1>3, <1>4, <1>5, <1>6 DEF Step

-----------------------------------------------------------------------------
(* The steps of the readers.                                               *)

LEMMA CacheStep ==
  ASSUME StateOK, KbInv, CacheInv, ReaderInv, Step
  PROVE  CacheInv'
<1>1. CASE Moved
  BY <1>1, BoundAssumption DEF Moved, StateOK, CacheInv, Row
<1>2. CASE Still /\ UNCHANGED cache
  BY <1>2 DEF Still, CacheInv
<1>3. CASE Still /\ ~UNCHANGED cache
  <2>1. PICK r \in Readers : DeleteStale(r) \/ WriteCache(r)
    BY <1>3 DEF Step, Publish, EnsureSource, Fetch, Store, CheckChunks, ReplaceChunks,
       IndexFails, ReadHit, ReadMiss, Query, CheckFingerprint, EndCall
  <2>2. CASE DeleteStale(r)
    BY <1>3, <2>2 DEF DeleteStale, Still, CacheInv
  <2>3. CASE WriteCache(r)
    <3>1. cache' = [revision |-> fingerprint[r], evidence |-> result[r]]
      BY <1>3, <2>3 DEF WriteCache
    <3>2. fingerprint[r] <= revision
      BY DEF ReaderInv
    <3>3. fingerprint[r] = revision => result[r] = Retrieved /\ registry # "volatile"
      BY <2>3 DEF ReaderInv, WriteCache
    <3>4. QED
      BY <1>3, <3>1, <3>2, <3>3 DEF Still, CacheInv
  <2>4. QED
    BY <2>1, <2>2, <2>3
<1>4. QED
  BY <1>1, <1>2, <1>3, StillOrMoved

\* A reader's snapshot is not from the future.
LEMMA ReaderStep ==
  ASSUME StateOK, KbInv, CacheInv, ReaderInv, Step
  PROVE  ReaderInv'
<1>0. \A r \in Readers : fingerprint[r] \in Nat /\ observed[r] \in Nat /\ revision \in Nat
  BY BoundAssumption DEF StateOK
<1>1. CASE Moved
  BY <1>0, <1>1 DEF Moved, readerVars, ReaderInv
<1>2. CASE Still /\ UNCHANGED readerVars
  BY <1>2 DEF Still, readerVars, ReaderInv
<1>3. CASE Still /\ ~UNCHANGED readerVars
  <2>1. PICK r \in Readers :
           \/ ReadHit(r) \/ ReadMiss(r) \/ DeleteStale(r) \/ Query(r)
           \/ CheckFingerprint(r) \/ WriteCache(r) \/ EndCall(r)
    BY <1>3 DEF Step, Publish, EnsureSource, Fetch, Store, CheckChunks, ReplaceChunks, IndexFails
  <2> USE <1>0 DEF StateOK, Still, ReaderInv, ReaderAt
  <2>2. CASE ReadHit(r)
    BY <1>3, <2>2 DEF ReadHit
  <2>3. CASE ReadMiss(r)
    <3>1. cache # NoRow /\ cache.revision # revision => cache.revision < revision
      BY DEF CacheInv, Row
    <3>2. QED
      BY <1>3, <2>3, <3>1 DEF ReadMiss
  <2>4. CASE DeleteStale(r)
    BY <1>3, <2>4 DEF DeleteStale
  <2>5. CASE Query(r)
    BY <1>3, <2>5 DEF Query
  <2>6. CASE CheckFingerprint(r)
    BY <1>3, <2>6 DEF CheckFingerprint
  <2>7. CASE WriteCache(r)
    BY <1>3, <2>7 DEF WriteCache
  <2>8. CASE EndCall(r)
    BY <1>3, <2>8 DEF EndCall
  <2>9. QED
    BY <2>1, <2>2, <2>3, <2>4, <2>5, <2>6, <2>7, <2>8
<1>4. QED
  BY <1>1, <1>2, <1>3, StillOrMoved

\* The history of the readers records what retrieval finds from step to step.
LEMMA RecentStep ==
  ASSUME StateOK, StateOK', RecentOK, KbInv, KbInv', CacheInv, RecentInv, Next
  PROVE  RecentOK' /\ RecentInv'
<1>1. Retrieved \in Evidence \cup {NoEvidence} /\ Retrieved' \in Evidence \cup {NoEvidence}
  <2>1. RetrievedOK
    BY RetrievedType DEF KbInv
  <2>2. ChunksInv'
    BY DEF KbInv
  <2>3. RetrievedOK'
    BY <2>2, RetrievedType, PTL
  <2>4. QED
    BY <2>1, <2>3 DEF RetrievedOK
<1>2. RecentOK'
  BY <1>1 DEF Next, Observe, RecentOK
<1>3. ASSUME NEW r \in Readers, rpc'[r] # "idle"
      PROVE  Retrieved' \in recent'[r]
  BY <1>3 DEF Next, Observe
<1>4. ASSUME NEW r \in Readers, rpc'[r] # "idle"
      PROVE  \A e \in recent[r] : rpc[r] # "idle" => e \in recent'[r]
  BY <1>4 DEF Next, Observe
<1>5. ASSUME NEW r \in Readers, rpc'[r] \in {"check", "write", "done"}
      PROVE  result'[r] \in recent'[r]
  <2>1. CASE rpc[r] \in {"check", "write", "done"} /\ result'[r] = result[r]
    BY <1>4, <1>5, <2>1 DEF RecentInv
  <2>2. CASE ReadHit(r)
    <3>1. result'[r] = Retrieved
      BY <2>2 DEF ReadHit, Hit, CacheInv, StateOK
    <3>2. rpc[r] = "idle" /\ rpc'[r] # "idle"
      BY <1>5, <2>2 DEF ReadHit
    <3>3. recent'[r] = {Retrieved, Retrieved'}
      BY <3>2 DEF Next, Observe
    <3>4. QED
      BY <3>1, <3>3
  <2>3. CASE Query(r)
    <3>1. result'[r] = Retrieved /\ rpc[r] # "idle"
      BY <2>3 DEF Query, StateOK
    <3>2. Retrieved \in recent[r]
      BY <3>1 DEF RecentInv
    <3>3. QED
      BY <1>4, <1>5, <3>1, <3>2
  <2>4. CASE \/ rpc[r] \notin {"check", "write", "done"}
             \/ result'[r] # result[r]
    <3>1. Step
      BY DEF Next
    <3>2. PICK s \in Readers :
             \/ ReadHit(s) \/ ReadMiss(s) \/ DeleteStale(s) \/ Query(s)
             \/ CheckFingerprint(s) \/ WriteCache(s) \/ EndCall(s)
      BY <1>5, <2>4, <3>1 DEF Step, Publish, EnsureSource, Fetch, Store, CheckChunks,
         ReplaceChunks, IndexFails, readerVars
    <3>3. s = r
      BY <1>5, <2>4, <3>2 DEF StateOK, ReadHit, ReadMiss, DeleteStale, Query, CheckFingerprint,
         WriteCache, EndCall, ReaderAt
    <3>4. ReadHit(r) \/ Query(r)
      BY <1>5, <2>4, <3>2, <3>3 DEF StateOK, ReadMiss, DeleteStale, CheckFingerprint,
         WriteCache, EndCall, ReaderAt
    <3>5. QED
      BY <2>2, <2>3, <3>4
  <2>5. QED
    BY <2>1, <2>4
<1>6. RecentInv'
  BY <1>3, <1>5 DEF RecentInv
<1>7. QED
  BY <1>2, <1>6

-----------------------------------------------------------------------------
LEMMA StepInv == IInv /\ [Next]_vars => IInv'
<1> SUFFICES ASSUME IInv, [Next]_vars PROVE IInv'
  OBVIOUS
<1> USE DEF IInv
<1>1. CASE Next
  <2>1. Step
    BY <1>1 DEF Next
  <2>2. StateOK'
    BY <2>1, StepType
  <2>3. KbInv'
    BY <2>1, KbStep
  <2>4. CacheInv' /\ ReaderInv'
    BY <2>1, CacheStep, ReaderStep
  <2>5. RecentOK' /\ RecentInv'
    BY <1>1, <2>2, <2>3, RecentStep
  <2>6. QED
    BY <2>2, <2>3, <2>4, <2>5
<1>2. CASE UNCHANGED vars
  <2>1. Retrieved' = Retrieved
    BY <1>2, RetrievedSame DEF vars, Indexed
  <2>2. StateOK' /\ RecentOK' /\ KbInv'
    BY <1>2 DEF vars, StateOK, RecentOK, KbInv, ChunksInv, IndexerInv
  <2>3. CacheInv' /\ ReaderInv' /\ RecentInv'
    BY <1>2, <2>1 DEF vars, CacheInv, ReaderInv, RecentInv
  <2>4. QED
    BY <2>2, <2>3
<1>3. QED
  BY <1>1, <1>2

(* The theorems.                                                           *)

\* The invariant, for any indexers, readers and texts.
THEOREM Invariance == Spec => []IInv
BY InitInv, StepInv, PTL DEF Spec

\* The tables, the indexers and the readers keep their types.
THEOREM TypeCorrect == Spec => []TypeOK
<1>1. IInv => TypeOK
  BY DEF IInv, StateOK, RecentOK, TypeOK
<1>2. QED
  BY Invariance, <1>1, PTL

\* However writeRetrievalCache races with replaceChunks and ensureSource, a row
\* of the current revision holds what RETRIEVAL_SQL would return.
THEOREM CacheIsCurrentThm == Spec => []CacheIsCurrent
<1>1. IInv => CacheIsCurrent
  BY DEF IInv, CacheInv, CacheIsCurrent
<1>2. QED
  BY Invariance, <1>1, PTL

\* retrieveEvidence never returns what was not current at some moment of the call.
THEOREM ServedWasCurrentThm == Spec => []ServedWasCurrent
<1>1. IInv => ServedWasCurrent
  BY DEF IInv, RecentInv, ServedWasCurrent
<1>2. QED
  BY Invariance, <1>1, PTL

\* The cache and the calls that use it together.
THEOREM EvidenceIsCurrentThm == Spec => []EvidenceIsCurrent
BY CacheIsCurrentThm, ServedWasCurrentThm, PTL DEF EvidenceIsCurrent

\* deleteStaleRetrievalCache only removes rows of an older revision.
THEOREM DeletedIsStaleThm == Spec => DeletedIsStale
<1>1. ASSUME IInv, [Next]_vars, cache # NoRow, cache' = NoRow
      PROVE  cache.revision # revision
  <2>1. Step
    BY <1>1 DEF Next, vars
  <2>2. PICK r \in Readers : DeleteStale(r) \/ WriteCache(r)
    BY <1>1, <2>1 DEF Step, Publish, EnsureSource, Fetch, Store, CheckChunks, ReplaceChunks,
       IndexFails, ReadHit, ReadMiss, Query, CheckFingerprint, EndCall
  <2>3. CASE DeleteStale(r)
    BY <1>1, <2>3 DEF DeleteStale, IInv, StateOK, ReaderInv
  <2>4. CASE WriteCache(r)
    <3>1. [revision |-> fingerprint[r], evidence |-> result[r]] \in Row
      BY <1>1, <2>4 DEF WriteCache, IInv, StateOK, ReaderInv, Row
    <3>2. QED
      BY <1>1, <2>4, <3>1, NullAssumption DEF WriteCache
  <2>5. QED
    BY <2>2, <2>3, <2>4
<1>2. IInv /\ [Next]_vars => [cache # NoRow /\ cache' = NoRow => cache.revision # revision]_vars
  BY <1>1
<1>3. QED
  BY Invariance, <1>2, PTL DEF Spec, DeletedIsStale

-----------------------------------------------------------------------------
(* Which version wins.                                                     *)

\* All the places that date a text.
Dates ==
  {[content |-> page, at |-> edition]}
    \cup {document[i] : i \in {j \in Indexers : document[j] # NoRow}}
    \cup {[content |-> c, at |-> versions[c].at] : c \in {d \in Contents : versions[d] # NoRow}}
    \cup completed

\* While no text returns, they agree.
DatesInv ==
  ~reverted =>
    \A d \in Dates : /\ d.content \in published
                     /\ \A e \in Dates : d.content = e.content => d.at = e.at

\* What was indexed to the end has chunks.
CompletedInv == \A d \in completed : chunks[d.content] # 0

DatedInv == DatesInv /\ CompletedInv

\* Indexing only copies dates.
LEMMA DatesCopied ==
  ASSUME StateOK, KbInv, Step, UNCHANGED webVars
  PROVE  Dates' \subseteq Dates
<1>1. CASE UNCHANGED <<kbVars, indexerVars>>
  BY <1>1 DEF Dates, webVars, kbVars, indexerVars
<1>2. CASE \E entry \in Registry : EnsureSource(entry)
  BY <1>2 DEF EnsureSource, Dates, webVars, indexerVars
<1>3. ASSUME NEW i \in Indexers, Fetch(i) PROVE Dates' \subseteq Dates
  BY <1>3 DEF Fetch, StateOK, Dates, webVars, kbVars
<1>4. ASSUME NEW i \in Indexers, Store(i) PROVE Dates' \subseteq Dates
  <2>1. document[i] \in Document /\ document[i] \in Dates
    BY <1>4, NullAssumption DEF Store, KbInv, IndexerInv, Dates
  <2>2. document[i] = [content |-> document[i].content, at |-> document[i].at]
    BY <2>1 DEF Document
  <2>3. ASSUME NEW c \in Contents, versions'[c] # NoRow
        PROVE  [content |-> c, at |-> versions'[c].at] \in Dates
    <3>1. CASE versions'[c] = versions[c]
      BY <2>3, <3>1 DEF Dates
    <3>2. CASE versions'[c] # versions[c]
      <4>1. c = document[i].content /\ versions'[c].at = document[i].at
        BY <1>4, <3>2 DEF Store, StateOK
      <4>2. QED
        BY <2>1, <2>2, <4>1
    <3>3. QED
      BY <3>1, <3>2
  <2>4. UNCHANGED <<page, edition, document, completed>>
    BY <1>4 DEF Store, webVars
  <2>5. {[content |-> c, at |-> versions'[c].at] : c \in {d \in Contents : versions'[d] # NoRow}}
          \subseteq Dates
    BY <2>3
  <2>6. QED
    BY <2>4, <2>5 DEF Dates
<1>5. ASSUME NEW i \in Indexers, CheckChunks(i) \/ ReplaceChunks(i) \/ IndexFails(i)
      PROVE  Dates' \subseteq Dates
  <2>1. document[i] \in Dates
    BY <1>5, NullAssumption DEF CheckChunks, ReplaceChunks, IndexFails, KbInv, IndexerInv, Dates
  <2>2. completed' \subseteq completed \cup {document[i]}
    BY <1>5 DEF CheckChunks, ReplaceChunks, IndexFails, Complete
  <2>3. \A j \in Indexers : document'[j] = document[j] \/ document'[j] = NoRow
    BY <1>5 DEF StateOK, CheckChunks, ReplaceChunks, IndexFails, Complete, Finish
  <2>4. UNCHANGED <<page, edition, versions>>
    BY <1>5 DEF CheckChunks, ReplaceChunks, IndexFails, NewChunks, webVars, kbVars
  <2>5. QED
    BY <2>1, <2>2, <2>3, <2>4 DEF Dates
<1>6. CASE \E c \in Contents : Publish(c)
  BY <1>1, <1>6 DEF Publish
<1>7. ASSUME NEW r \in Readers,
             \/ ReadHit(r) \/ ReadMiss(r) \/ DeleteStale(r) \/ Query(r)
             \/ CheckFingerprint(r) \/ WriteCache(r) \/ EndCall(r)
      PROVE  UNCHANGED <<kbVars, indexerVars>>
  BY <1>7 DEF ReadHit, ReadMiss, DeleteStale, Query, CheckFingerprint, WriteCache, EndCall
<1>8. QED
  BY <1>1, <1>2, <1>3, <1>4, <1>5, <1>6, <1>7 DEF Step

LEMMA DatesStep ==
  ASSUME StateOK, KbInv, DatesInv, Step
  PROVE  DatesInv'
<1>1. CASE UNCHANGED webVars
  BY <1>1, DatesCopied DEF DatesInv, webVars
<1>2. ASSUME NEW c \in Contents, Publish(c) PROVE DatesInv'
  <2> SUFFICES ASSUME ~reverted' PROVE DatesInv'
    BY DEF DatesInv
  <2>1. ~reverted /\ c \notin published /\ published' = published \cup {c}
    BY <1>2 DEF Publish
  <2>2. Dates' \subseteq Dates \cup {[content |-> c, at |-> edition']}
    BY <1>2 DEF Publish, Dates, kbVars, indexerVars
  <2>3. \A d \in Dates : d.content \in published /\ d.content # c
    BY <2>1 DEF DatesInv
  <2>4. QED
    BY <2>1, <2>2, <2>3 DEF DatesInv
<1>3. CASE ~\E c \in Contents : Publish(c)
  <2>1. UNCHANGED webVars
    BY <1>3 DEF Step, EnsureSource, Fetch, Store, CheckChunks, ReplaceChunks, IndexFails, ReadHit,
       ReadMiss, DeleteStale, Query, CheckFingerprint, WriteCache, EndCall
  <2>2. QED
    BY <1>1, <2>1
<1>4. QED
  BY <1>2, <1>3

LEMMA CompletedStep ==
  ASSUME StateOK, KbInv, CompletedInv, Step
  PROVE  CompletedInv'
<1>1. CASE UNCHANGED <<chunks, completed>>
  BY <1>1 DEF CompletedInv
<1>2. ASSUME NEW i \in Indexers, CheckChunks(i) PROVE CompletedInv'
  BY <1>2 DEF CheckChunks, Complete, Finish, CompletedInv, kbVars
<1>3. ASSUME NEW i \in Indexers, ReplaceChunks(i) \/ IndexFails(i) PROVE CompletedInv'
  <2>1. document[i].content \in Contents
    BY <1>3 DEF ReplaceChunks, IndexFails, KbInv, IndexerInv, Document
  <2>2. \A c \in Contents : chunks[c] # 0 => chunks'[c] # 0
    BY <1>3, BoundAssumption DEF StateOK, ReplaceChunks, IndexFails, NewChunks, kbVars
  <2>3. completed' = completed \/ chunks'[document[i].content] # 0
    BY <1>3, <2>1, BoundAssumption DEF StateOK, ReplaceChunks, IndexFails, NewChunks
  <2>4. completed' \subseteq completed \cup {document[i]}
    BY <1>3 DEF ReplaceChunks, IndexFails, Complete
  <2>5. \A d \in completed : d.content \in Contents
    BY DEF StateOK, Document
  <2>6. QED
    BY <2>2, <2>3, <2>4, <2>5 DEF CompletedInv
<1>4. CASE ~UNCHANGED <<chunks, completed>>
  <2>1. PICK i \in Indexers : CheckChunks(i) \/ ReplaceChunks(i) \/ IndexFails(i)
    BY <1>4 DEF Step, Publish, EnsureSource, Fetch, Store, ReadHit, ReadMiss, DeleteStale, Query,
       CheckFingerprint, WriteCache, EndCall, kbVars, indexerVars
  <2>2. QED
    BY <1>2, <1>3, <2>1
<1>5. QED
  BY <1>1, <1>4

LEMMA DatedInvariance == Spec => []DatedInv
<1>1. Init => DatedInv
  BY DEF Init, DatedInv, DatesInv, Dates, CompletedInv
<1>2. IInv /\ DatedInv /\ [Next]_vars => DatedInv'
  <2> SUFFICES ASSUME IInv, DatedInv, [Next]_vars PROVE DatedInv'
    OBVIOUS
  <2>1. CASE Step
    BY <2>1, DatesStep, CompletedStep DEF IInv, DatedInv
  <2>2. CASE UNCHANGED vars
    BY <2>2 DEF vars, DatedInv, DatesInv, Dates, CompletedInv
  <2>3. QED
    BY <2>1, <2>2 DEF Next
<1>3. QED
  BY <1>1, <1>2, Invariance, PTL DEF Spec

\* Whatever the order in which storeVersion and replaceChunks of concurrent
\* indexers take effect, the newest version wins, unless a text returns.
THEOREM LatestWinsThm == Spec => []LatestWins
<1>1. IInv /\ DatedInv => LatestWins
  <2> SUFFICES ASSUME IInv, DatedInv, ~reverted, NEW d \in completed
               PROVE  versions[Newest].at >= d.at
    BY DEF LatestWins, UsesLatestIndexed
  <2>1. d \in Document /\ d.content \in Indexed
    BY DEF IInv, StateOK, DatedInv, CompletedInv, Document, Indexed
  <2>2. versions[d.content] \in Version
    BY <2>1 DEF IInv, StateOK, KbInv, ChunksInv, Indexed
  <2>3. [content |-> d.content, at |-> versions[d.content].at] \in Dates /\ d \in Dates
    BY <2>1, <2>2, NullAssumption DEF Dates, Indexed
  <2>4. versions[d.content].at = d.at
    BY <2>3 DEF DatedInv, DatesInv
  <2>5. Newest \in Indexed /\ Newer(Newest, d.content)
    BY <2>1, NewestExists DEF IInv, KbInv
  <2>6. versions[Newest] \in Version
    BY <2>5 DEF IInv, StateOK, KbInv, ChunksInv, Indexed
  <2>7. QED
    BY <2>2, <2>4, <2>5, <2>6 DEF Newer, Version
<1>2. QED
  BY Invariance, DatedInvariance, <1>1, PTL

-----------------------------------------------------------------------------
(* The knowledge worker: its inductive invariant.                          *)

\* A handler that is not aborted works on an active job, and nobody else does.
SoleInv ==
  /\ \A h \in Handlers : pc[h] # "idle" /\ ~aborted[h] => job[on[h]] = "active"
  /\ \A g, h \in Handlers :
       pc[g] # "idle" /\ pc[h] # "idle" /\ ~aborted[g] /\ ~aborted[h] /\ on[g] = on[h] => g = h

\* Jobs are sent in their order, and rows go in that order.
OrderInv ==
  /\ \A u, v \in Updates : v < u /\ job[u] # "unsent" => job[v] # "unsent"
  /\ \A u, v \in Updates : u \in Rows /\ job[v] = "dropped" => v < u

\* The job in the operator's way was sent before the answer was looked up.
AskedInv ==
  /\ asked = "not" => blocker = 0 /\ answer = 0
  /\ asked = "find" => blocker \in Updates /\ job[blocker] # "unsent"
  /\ asked = "returned" => answer >= blocker

\* The stages of the crawls that a behaviour is about.
StageInv ==
  pc \in [Handlers -> IF kind = "jobs" THEN {"idle", "start", "sync"} ELSE Stages]

QueueInv == JobsTypeOK /\ StageInv /\ SoleInv /\ OrderInv /\ AskedInv

\* A crawl that has got past the states it read.
Working == {"fetch", "defer", "recheck", "index", "replace", "commit"}

\* It has the answer of an endpoint.
Fetched(h, e) == pc[h] \in {"index", "replace", "commit"} \/ (pc[h] = "fetch" /\ e \notin todo[h])

\* What a crawl knows: states that are true, none of which defers it; answers
\* that cover what the endpoints had before it started; and at the commit
\* an index that has them all.
SeenInv(h) ==
  /\ started[h] <= now
  /\ \A k \in Keys : seen[h][k].etag \in indexed[k] \cup {0}
  /\ pc[h] \in Working => \A k \in Keys : seen[h][k].retry <= started[h]

GotInv(h) ==
  /\ \A e \in Endpoints : etags[h][e] \in {0, seen[h][e].etag, got[h][e]}
  /\ pc[h] \notin Working => \A e \in Endpoints : got[h][e] = 0 /\ etags[h][e] = 0
  /\ \A e \in Endpoints :
       Fetched(h, e) /\ started[h] > remote[e] =>
         got[h][e] = remote[e] \/ remote[e] \in indexed[e]

DoneInv(h) ==
  /\ pc[h] = "defer" => wait[h] > 0 /\ todo[h] \subseteq Keys
  /\ pc[h] \in {"index", "replace", "commit"} =>
       \A e \in Endpoints : e \notin todo[h] \/ pc[h] = "commit" => got[h][e] \in indexed[e] \cup {0}

WorldInv ==
  /\ \A e \in Endpoints : state[e].at <= now /\ 1 <= remote[e] /\ remote[e] <= now
  /\ StateIsTrue

SyncInv ==
  /\ SyncTypeOK
  /\ WorldInv
  /\ \A h \in Handlers : SeenInv(h) /\ GotInv(h) /\ DoneInv(h)

\* The pages of a crawl are reachable ones, each of them in one place.
PagesInv ==
  /\ Seed \in enqueued /\ enqueued \subseteq Reachable
  /\ pending = {p \in enqueued : visit[p] = "no"}
  /\ \A p \in Pages : visit[p] # "no" => p \in enqueued
  /\ crawled # "none" => InHandler = {}

\* Unless one has failed, the pages that are handled have given all they have.
HandledInv ==
  /\ documents \subseteq Handled \ Sitemaps
  /\ ~failed => \A p \in Handled :
       (p \notin Sitemaps => p \in documents) /\ (p \notin Pdfs => links[p] \subseteq enqueued)
  /\ stopped => failed \/ over

\* A page is extracted as what it is, and a PDF waits in the queue until it is.
ExtractInv ==
  \A p \in Pages :
    /\ visit[p] = "extract" => p \notin Sitemaps \cup Pdfs
    /\ visit[p] = "pdf" => p \in Pdfs /\ \E i \in 1..Len(pdfQueue) : pdfQueue[i] = p

Fetching == {p \in Pages : visit[p] = "fetch"}

\* Every page that is being read has its room in the budget.
BudgetInv == reserved = MaxResponse * Cardinality(Fetching) /\ BudgetKept

SiteInv == SiteTypeOK /\ PagesInv /\ HandledInv /\ ExtractInv /\ BudgetInv /\ WholeOrNothing

Kinds == {"jobs", "github", "stackexchange", "site", "pool"}

CrawlInv == kind \in Kinds /\ QueueInv /\ SyncInv /\ SiteInv /\ PoolTypeOK

USE QueueAssumption, JobsAssumption

-----------------------------------------------------------------------------
(* The jobs.                                                               *)

JobStates == {"unsent", "created", "active", "retry", "completed", "failed", "dropped"}

\* The part of JobsTypeOK that is the queue's.
RowsOK ==
  /\ job \in [Updates -> JobStates] /\ retries \in [Updates -> 0..RetryLimit]
  /\ on \in [Handlers -> Updates] /\ attempt \in [Handlers -> 0..RetryLimit]
  /\ aborted \in [Handlers -> BOOLEAN]
  /\ faults \in 0..MaxFaults /\ expired \in SUBSET Updates

\* And the rest, the operator's and the registry's.
SourceOK ==
  /\ registered \in BOOLEAN /\ scheduled \in BOOLEAN
  /\ asked \in {"not", "find", "returned", "threw"}
  /\ answer \in Updates \cup {0} /\ blocker \in Updates \cup {0}

LEMMA RowsType == JobsTypeOK <=> RowsOK /\ SourceOK
BY Zenon DEF JobsTypeOK, RowsOK, SourceOK, JobStates

LEMMA RowsTypeNext == RowsOK' /\ SourceOK' => JobsTypeOK'
BY Zenon DEF JobsTypeOK, RowsOK, SourceOK, JobStates

\* No job is sent and no row goes.
Steady ==
  \A u \in Updates : /\ job'[u] = "unsent" <=> job[u] = "unsent"
                     /\ job'[u] = "dropped" <=> job[u] = "dropped"

LEMMA SteadyOrder == OrderInv /\ Steady => OrderInv'
BY SMT DEF OrderInv, Steady, Rows

LEMMA SteadyAsked ==
  JobsTypeOK /\ AskedInv /\ Steady /\ UNCHANGED <<asked, answer, blocker>> => AskedInv'
BY SMT DEF AskedInv, Steady, JobsTypeOK

\* An attempt ends and its job waits, or has failed.
LEMMA RequeueFacts ==
  ASSUME RowsOK, NEW u \in Updates, Requeue(u)
  PROVE  /\ job'[u] \in {"retry", "failed"}
         /\ \A v \in Updates : v # u => job'[v] = job[v]
         /\ job' \in [Updates -> JobStates] /\ retries' \in [Updates -> 0..RetryLimit]
<1>1. CASE retries[u] < RetryLimit
  <2>1. retries[u] + 1 \in 0..RetryLimit
    BY <1>1, SMT DEF RowsOK
  <2> QED BY <1>1, <2>1 DEF Requeue, RowsOK, JobStates
<1>2. CASE ~(retries[u] < RetryLimit)
  BY <1>2 DEF Requeue, RowsOK, JobStates
<1> QED BY <1>1, <1>2

LEMMA FaultFacts == RowsOK /\ (Fault \/ NoFault) => faults' \in 0..MaxFaults
BY SMT DEF RowsOK, Fault, NoFault

\* Handlers end or are aborted, and the jobs of the others stay.
LEMMA SoleKept ==
  ASSUME SoleInv,
         \A h \in Handlers : pc'[h] # "idle" /\ ~aborted'[h] =>
           pc[h] # "idle" /\ ~aborted[h] /\ on'[h] = on[h] /\ job'[on[h]] = job[on[h]]
  PROVE  SoleInv'
BY DEF SoleInv

LEMMA TakeStep ==
  ASSUME RowsOK, SoleInv, NEW h \in Handlers, NEW u \in Updates, NEW stage, Take(h, u, stage),
         DOMAIN pc = Handlers
  PROVE  RowsOK' /\ SoleInv' /\ Steady
<1> USE DEF RowsOK, Take, Goto, Waiting
<1>1. RowsOK'
  BY DEF JobStates
<1>2. Steady
  BY DEF Steady
<1>3. SoleInv'
  BY DEF SoleInv
<1> QED BY <1>1, <1>2, <1>3

\* A handler goes on.
LEMMA GoOnStep ==
  ASSUME RowsOK, SoleInv, NEW h \in Handlers, pc[h] # "idle", NEW stage, Goto(h, stage),
         JobUntouched, Fault \/ NoFault, DOMAIN pc = Handlers
  PROVE  RowsOK' /\ SoleInv' /\ Steady
<1>1. RowsOK'
  BY FaultFacts, Zenon DEF RowsOK, JobUntouched
<1>2. Steady
  BY DEF Steady, JobUntouched
<1>3. SoleInv'
  BY DEF SoleInv, Goto, JobUntouched
<1> QED BY <1>1, <1>2, <1>3

\* A handler is done with its job.
LEMMA ReturnStep ==
  ASSUME RowsOK, SoleInv, NEW h \in Handlers, pc[h] # "idle", Return(h), DOMAIN pc = Handlers
  PROVE  RowsOK' /\ SoleInv' /\ Steady
<1> USE DEF RowsOK, Return, Goto, handlerVars
<1>1. on[h] \in Updates
  OBVIOUS
<1>2. \/ aborted[h] /\ job' = job
      \/ ~aborted[h] /\ job' = [job EXCEPT ![on[h]] = "completed"] /\ job[on[h]] = "active"
  BY DEF SoleInv
<1>3. RowsOK'
  BY <1>1, <1>2 DEF JobStates
<1>4. Steady
  BY <1>1, <1>2 DEF Steady
<1>5. SoleInv'
  BY <1>1, <1>2 DEF SoleInv
<1> QED BY <1>3, <1>4, <1>5

LEMMA ThrowStep ==
  ASSUME RowsOK, SoleInv, NEW h \in Handlers, pc[h] # "idle", Throw(h), Fault \/ NoFault,
         DOMAIN pc = Handlers
  PROVE  RowsOK' /\ SoleInv' /\ Steady
<1> USE DEF Throw, Goto, handlerVars
<1>1. on[h] \in Updates
  BY DEF RowsOK
<1>2. \/ aborted[h] /\ UNCHANGED <<job, retries>>
      \/ /\ ~aborted[h] /\ job[on[h]] = "active" /\ job'[on[h]] \in {"retry", "failed"}
         /\ \A v \in Updates : v # on[h] => job'[v] = job[v]
         /\ job' \in [Updates -> JobStates] /\ retries' \in [Updates -> 0..RetryLimit]
  BY <1>1, RequeueFacts DEF SoleInv
<1>3. RowsOK'
  BY <1>2, FaultFacts DEF RowsOK
<1>4. Steady
  BY <1>1, <1>2 DEF Steady
<1>5. ASSUME NEW g \in Handlers, pc'[g] # "idle", ~aborted'[g]
      PROVE  pc[g] # "idle" /\ ~aborted[g] /\ on'[g] = on[g] /\ job'[on[g]] = job[on[g]]
  <2>1. g # h /\ pc[g] # "idle" /\ ~aborted[g] /\ on'[g] = on[g] /\ on[g] \in Updates
    BY <1>5 DEF RowsOK
  <2>2. ~aborted[h] => on[g] # on[h]
    BY <2>1 DEF SoleInv
  <2> QED BY <1>2, <2>1, <2>2
<1>6. SoleInv'
  BY <1>5, SoleKept
<1> QED BY <1>3, <1>4, <1>6

\* A job outlives its handler's time.
LEMMA OutliveStep ==
  ASSUME RowsOK, SoleInv, NEW h \in Handlers, Outlive(h), DOMAIN pc = Handlers
  PROVE  RowsOK' /\ SoleInv' /\ Steady
<1> USE DEF Outlive
<1>1. on[h] \in Updates
  BY DEF RowsOK
<1>2. /\ job[on[h]] = "active" /\ job'[on[h]] \in {"retry", "failed"}
      /\ \A v \in Updates : v # on[h] => job'[v] = job[v]
      /\ job' \in [Updates -> JobStates] /\ retries' \in [Updates -> 0..RetryLimit]
  BY <1>1, RequeueFacts DEF SoleInv
<1>3. RowsOK'
  BY <1>1, <1>2, FaultFacts DEF RowsOK
<1>4. Steady
  BY <1>1, <1>2 DEF Steady
<1>5. ASSUME NEW g \in Handlers, pc'[g] # "idle", ~aborted'[g]
      PROVE  pc[g] # "idle" /\ ~aborted[g] /\ on'[g] = on[g] /\ job'[on[g]] = job[on[g]]
  <2>1. g # h /\ pc[g] # "idle" /\ ~aborted[g] /\ on'[g] = on[g] /\ on[g] \in Updates
    BY <1>5 DEF RowsOK
  <2>2. on[g] # on[h]
    BY <2>1 DEF SoleInv
  <2> QED BY <1>2, <2>1, <2>2
<1>6. SoleInv'
  BY <1>5, SoleKept
<1> QED BY <1>3, <1>4, <1>6

\* The queue finds that nobody works on a job.
LEMMA RecoverStep ==
  ASSUME RowsOK, SoleInv, NEW u \in Updates, Recover(u)
  PROVE  RowsOK' /\ SoleInv' /\ Steady
<1> USE DEF Recover, handlerVars
<1>1. /\ job[u] = "active" /\ job'[u] \in {"retry", "failed"}
      /\ \A v \in Updates : v # u => job'[v] = job[v]
      /\ job' \in [Updates -> JobStates] /\ retries' \in [Updates -> 0..RetryLimit]
  BY RequeueFacts
<1>2. RowsOK'
  BY <1>1 DEF RowsOK
<1>3. Steady
  BY <1>1 DEF Steady
<1>4. ASSUME NEW g \in Handlers, pc'[g] # "idle", ~aborted'[g]
      PROVE  pc[g] # "idle" /\ ~aborted[g] /\ on'[g] = on[g] /\ job'[on[g]] = job[on[g]]
  <2>1. on[g] # u /\ on[g] \in Updates
    BY <1>4 DEF RowsOK, Abandoned
  <2> QED BY <1>1, <1>4, <2>1
<1>5. SoleInv'
  BY <1>4, SoleKept
<1> QED BY <1>2, <1>3, <1>5

\* Handlers die, and their jobs stay active.
LEMMA DeathStep ==
  ASSUME RowsOK, SoleInv, Fault, JobUntouched,
         \A h \in Handlers : pc'[h] \in {pc[h], "idle"}
  PROVE  RowsOK' /\ SoleInv' /\ Steady
<1>1. RowsOK'
  BY FaultFacts, Zenon DEF RowsOK, JobUntouched
<1>2. Steady
  BY DEF Steady, JobUntouched
<1>3. SoleInv'
  BY DEF SoleInv, JobUntouched
<1> QED BY <1>1, <1>2, <1>3

\* A row that is none or is over comes or goes.
LEMMA RowStep ==
  ASSUME RowsOK, SoleInv, NEW u \in Updates, job[u] # "active", NEW x \in JobStates,
         job' = [job EXCEPT ![u] = x],
         UNCHANGED <<retries, pc, handlerVars, expired>>, Fault \/ NoFault
  PROVE  RowsOK' /\ SoleInv'
<1>1. RowsOK'
  BY FaultFacts DEF RowsOK, handlerVars
<1>2. SoleInv'
  BY DEF SoleInv, handlerVars, RowsOK
<1> QED BY <1>1, <1>2

\* What a step of a handler is for its job.
HandlerMoves(h, Stage) ==
  \/ \E u \in Updates : \E stage \in Stage : Take(h, u, stage)
  \/ pc[h] # "idle" /\ (Fault \/ NoFault) /\ JobUntouched /\ \E stage \in Stage : Goto(h, stage)
  \/ pc[h] # "idle" /\ Return(h)
  \/ pc[h] # "idle" /\ Throw(h) /\ (Fault \/ NoFault)

LEMMA MovesStep ==
  ASSUME RowsOK, SoleInv, NEW Stage, "idle" \in Stage, pc \in [Handlers -> Stage],
         NEW h \in Handlers, HandlerMoves(h, Stage)
  PROVE  RowsOK' /\ SoleInv' /\ Steady /\ pc' \in [Handlers -> Stage]
<1>0. DOMAIN pc = Handlers
  OBVIOUS
<1>1. ASSUME NEW u \in Updates, NEW stage \in Stage, Take(h, u, stage)
      PROVE  RowsOK' /\ SoleInv' /\ Steady /\ pc' \in [Handlers -> Stage]
  <2>1. pc' \in [Handlers -> Stage]
    BY <1>1 DEF Take, Goto
  <2> QED BY <1>0, <1>1, <2>1, TakeStep
<1>2. ASSUME pc[h] # "idle", Fault \/ NoFault, JobUntouched, NEW stage \in Stage, Goto(h, stage)
      PROVE  RowsOK' /\ SoleInv' /\ Steady /\ pc' \in [Handlers -> Stage]
  <2>1. pc' \in [Handlers -> Stage]
    BY <1>2 DEF Goto
  <2> QED BY <1>0, <1>2, <2>1, GoOnStep
<1>3. ASSUME pc[h] # "idle", Return(h)
      PROVE  RowsOK' /\ SoleInv' /\ Steady /\ pc' \in [Handlers -> Stage]
  <2>1. pc' \in [Handlers -> Stage]
    BY <1>3 DEF Return, Goto
  <2> QED BY <1>0, <1>3, <2>1, ReturnStep
<1>4. ASSUME pc[h] # "idle", Throw(h), Fault \/ NoFault
      PROVE  RowsOK' /\ SoleInv' /\ Steady /\ pc' \in [Handlers -> Stage]
  <2>1. pc' \in [Handlers -> Stage]
    BY <1>4 DEF Throw, Goto
  <2> QED BY <1>0, <1>4, <2>1, ThrowStep
<1> QED BY <1>1, <1>2, <1>3, <1>4 DEF HandlerMoves

\* The steps of a crawl are such.
LEMMA SyncMoves ==
  ASSUME NEW h \in Handlers, pc \in [Handlers -> Stages], SyncStep(h)
  PROVE  HandlerMoves(h, Stages)
<1> USE DEF HandlerMoves, Stages
<1>1. ASSUME NEW u \in Updates, TakeJob(h, u) PROVE HandlerMoves(h, Stages)
  BY <1>1 DEF TakeJob
<1>2. CASE Look(h)
  BY <1>2 DEF Look, Proceed, NoFault
<1>3. CASE FetchEndpoint(h)
  BY <1>3 DEF FetchEndpoint, IsDeferred, IsAnswered, Proceed, AfterFetch
<1>4. CASE Defer(h)
  BY <1>4 DEF Defer, Commits, Interrupted, Throws, Proceed, NoFault
<1>5. CASE Recheck(h)
  BY <1>5 DEF Recheck, Throws
<1>6. CASE Index(h)
  BY <1>6 DEF Index, NextDocument, Proceed, NoFault
<1>7. CASE WriteChunks(h)
  BY <1>7 DEF WriteChunks, NextDocument, Commits, Interrupted, Throws, Proceed, NoFault
<1>8. CASE CommitState(h)
  BY <1>8 DEF CommitState, Commits, Interrupted, Throws, NoFault
<1>9. CASE CallFails(h)
  BY <1>9 DEF CallFails, Interrupted, Throws
<1> QED BY <1>1, <1>2, <1>3, <1>4, <1>5, <1>6, <1>7, <1>8, <1>9 DEF SyncStep

LEMMA JobsMoves ==
  ASSUME NEW h \in Handlers, JobsWork(h)
  PROVE  HandlerMoves(h, {"idle", "start", "sync"}) /\ UNCHANGED sourceVars
<1> USE DEF HandlerMoves
<1>1. ASSUME NEW u \in Updates, StartJob(h, u)
      PROVE  HandlerMoves(h, {"idle", "start", "sync"}) /\ UNCHANGED sourceVars
  BY <1>1 DEF StartJob
<1>2. CASE ReadRegistry(h)
  BY <1>2 DEF ReadRegistry, NoFault
<1>3. CASE Synced(h)
  BY <1>3 DEF Synced
<1> QED BY <1>1, <1>2, <1>3 DEF JobsWork

\* Rows come in order.
LEMMA SendStep ==
  ASSUME QueueInv, NEW u \in Updates, Send(u),
         UNCHANGED <<retries, pc, handlerVars, faults, expired>>
  PROVE  RowsOK' /\ SoleInv' /\ OrderInv' /\ job[u] = "unsent" /\ job'[u] = "created"
<1>1. /\ RowsOK /\ SoleInv /\ OrderInv /\ job[u] = "unsent" /\ job'[u] = "created"
      /\ job' = [job EXCEPT ![u] = "created"]
  BY RowsType DEF QueueInv, Send, RowsOK
<1>2. RowsOK' /\ SoleInv'
  BY <1>1, RowStep, Zenon DEF NoFault, JobStates
<1>3. \A v \in Updates : v < u => job[v] # "unsent"
  BY DEF Send
<1>4. ASSUME NEW x \in Updates, NEW v \in Updates, v < x, job'[x] # "unsent"
      PROVE  job'[v] # "unsent"
  BY <1>1, <1>3, <1>4 DEF OrderInv, RowsOK
<1>5. ASSUME NEW x \in Updates, NEW v \in Updates, x \in Rows', job'[v] = "dropped"
      PROVE  v < x
  <2>1. job[v] = "dropped"
    BY <1>1, <1>5 DEF RowsOK
  <2>2. CASE x = u
    BY <1>1, <2>1, <2>2 DEF OrderInv
  <2>3. CASE x # u
    BY <1>1, <1>5, <2>1, <2>3 DEF OrderInv, RowsOK, Rows
  <2> QED BY <2>2, <2>3
<1> QED BY <1>1, <1>2, <1>4, <1>5 DEF OrderInv

\* And go, the oldest first.
LEMMA ForgetStep ==
  ASSUME QueueInv, NEW u \in Updates, Oldest(u), job[u] # "active",
         job' = [job EXCEPT ![u] = "dropped"],
         UNCHANGED <<retries, pc, handlerVars, expired, sourceVars>>, Fault \/ NoFault
  PROVE  RowsOK' /\ SoleInv' /\ OrderInv' /\ AskedInv'
<1>1. RowsOK /\ SoleInv /\ OrderInv /\ AskedInv /\ job[u] # "unsent" /\ job[u] # "dropped"
  BY RowsType DEF QueueInv, Oldest, Rows
<1>2. RowsOK' /\ SoleInv'
  BY <1>1, RowStep, Zenon DEF JobStates
<1>3. ASSUME NEW x \in Updates, NEW v \in Updates, v < x, job'[x] # "unsent"
      PROVE  job'[v] # "unsent"
  BY <1>1, <1>3 DEF OrderInv, RowsOK
<1>4. ASSUME NEW x \in Updates, NEW v \in Updates, x \in Rows', job'[v] = "dropped"
      PROVE  v < x
  <2>1. x # u /\ x \in Rows
    BY <1>1, <1>4 DEF RowsOK, Rows
  <2>2. v = u \/ job[v] = "dropped"
    BY <1>1, <1>4 DEF RowsOK
  <2> QED BY <1>1, <2>1, <2>2 DEF OrderInv, Oldest
<1>5. AskedInv'
  BY <1>1 DEF AskedInv, sourceVars, RowsOK
<1> QED BY <1>1, <1>2, <1>3, <1>4, <1>5 DEF OrderInv

\* What the rows and the operator have when only the rows move.
LEMMA QueueKept ==
  ASSUME QueueInv, RowsOK', SoleInv', Steady, UNCHANGED <<kind, sourceVars>>, StageInv'
  PROVE  QueueInv'
<1>1. JobsTypeOK'
  <2>1. SourceOK'
    BY RowsType DEF sourceVars, QueueInv, SourceOK
  <2> QED BY <2>1, RowsTypeNext
<1>2. OrderInv'
  BY SteadyOrder DEF QueueInv
<1>3. AskedInv'
  BY SteadyAsked DEF QueueInv, sourceVars
<1> QED BY <1>1, <1>2, <1>3 DEF QueueInv

LEMMA QueueUntouched ==
  ASSUME QueueInv, UNCHANGED <<queueVars, sourceVars, kind>>
  PROVE  QueueInv'
<1> USE DEF queueVars, sourceVars
<1>1. JobsTypeOK'
  BY DEF JobsTypeOK, QueueInv
<1>2. StageInv' /\ SoleInv'
  BY DEF QueueInv, StageInv, SoleInv
<1>3. OrderInv' /\ AskedInv'
  BY DEF QueueInv, OrderInv, AskedInv, Rows
<1> QED BY <1>1, <1>2, <1>3 DEF QueueInv

\* What the world of the jobs does.
LEMMA JobsWorldStep ==
  ASSUME QueueInv, kind = "jobs", JobsWorld, UNCHANGED kind
  PROVE  QueueInv'
<1>1. RowsOK /\ SourceOK /\ SoleInv /\ OrderInv /\ AskedInv /\ DOMAIN pc = Handlers
  BY RowsType DEF QueueInv, StageInv
<1>2. ASSUME NEW h \in Handlers, Outlive(h), UNCHANGED sourceVars PROVE QueueInv'
  <2>1. StageInv'
    BY <1>2 DEF Outlive, StageInv, QueueInv
  <2> QED BY <1>1, <1>2, <2>1, OutliveStep, QueueKept
<1>3. ASSUME NEW h \in Handlers, Die(h), UNCHANGED sourceVars PROVE QueueInv'
  <2>1. StageInv'
    BY <1>3 DEF Die, Goto, StageInv, QueueInv
  <2>2. \A g \in Handlers : pc'[g] \in {pc[g], "idle"}
    BY <1>1, <1>3 DEF Die, Goto
  <2>3. Fault /\ JobUntouched
    BY <1>3 DEF Die
  <2> QED BY <1>1, <1>3, <2>1, <2>2, <2>3, DeathStep, QueueKept
<1>4. CASE ScheduleFires
  <2>1. PICK u \in Updates : Send(u)
    BY <1>4 DEF ScheduleFires
  <2>2. UNCHANGED <<retries, pc, handlerVars, faults, expired, sourceVars>>
    BY <1>4 DEF ScheduleFires
  <2>3. RowsOK' /\ SoleInv' /\ OrderInv' /\ job[u] = "unsent" /\ job'[u] = "created"
    BY <2>1, <2>2, SendStep
  <2>4. \A v \in Updates : job[v] # "unsent" => job'[v] # "unsent"
    BY <1>1, <2>1 DEF Send, RowsOK
  <2>5. AskedInv'
    BY <1>1, <2>2, <2>4 DEF AskedInv, sourceVars
  <2>6. SourceOK' /\ StageInv'
    BY <1>1, <2>2 DEF SourceOK, QueueInv, StageInv, sourceVars
  <2>7. JobsTypeOK'
    BY <2>3, <2>6, RowsTypeNext
  <2> QED BY <2>3, <2>5, <2>6, <2>7 DEF QueueInv
<1>5. CASE Enqueue
  <2>1. /\ UNCHANGED <<retries, pc, handlerVars, faults, expired, registered, scheduled>>
        /\ asked = "not" /\ blocker = 0 /\ answer = 0
    BY <1>1, <1>5 DEF Enqueue, AskedInv
  <2>2. ASSUME NEW u \in Updates, Send(u), answer' = u, asked' = "returned", UNCHANGED blocker
        PROVE  QueueInv'
    <3>1. RowsOK' /\ SoleInv' /\ OrderInv'
      BY <2>1, <2>2, SendStep
    <3>2. AskedInv'
      BY <2>1, <2>2 DEF AskedInv
    <3>3. StageInv'
      BY <2>1 DEF StageInv, QueueInv
    <3>4. SourceOK'
      BY <1>1, <2>1, <2>2 DEF SourceOK
    <3>5. JobsTypeOK'
      BY <3>1, <3>4, RowsTypeNext
    <3> QED BY <3>1, <3>2, <3>3, <3>5 DEF QueueInv
  <2>3. ASSUME asked' = "find", blocker' \in Live, UNCHANGED <<job, answer>>
        PROVE  QueueInv'
    <3>1. RowsOK' /\ SoleInv' /\ Steady
      BY <1>1, <2>1, <2>3 DEF RowsOK, SoleInv, Steady, handlerVars
    <3>2. OrderInv'
      BY <1>1, <3>1, SteadyOrder
    <3>3. AskedInv'
      BY <2>3 DEF AskedInv, Live
    <3>4. StageInv'
      BY <2>1 DEF StageInv, QueueInv
    <3>5. SourceOK'
      BY <1>1, <2>1, <2>3 DEF SourceOK, Live
    <3>6. JobsTypeOK'
      BY <3>1, <3>5, RowsTypeNext
    <3> QED BY <3>1, <3>2, <3>3, <3>4, <3>6 DEF QueueInv
  <2> QED BY <1>5, <2>2, <2>3 DEF Enqueue
<1>6. CASE EnqueueFinds
  <2>1. /\ UNCHANGED <<job, retries, pc, on, attempt, aborted, faults, expired>>
        /\ UNCHANGED <<registered, scheduled, blocker>>
        /\ asked = "find" /\ blocker \in Updates /\ job[blocker] # "unsent"
    BY <1>1, <1>6 DEF EnqueueFinds, AskedInv, queueVars
  <2>2. RowsOK' /\ SoleInv' /\ Steady
    BY <1>1, <2>1 DEF RowsOK, SoleInv, Steady
  <2>3. OrderInv'
    BY <1>1, <2>2, SteadyOrder
  <2>4. \/ \E u \in Rows : NewestRow(u) /\ answer' = u /\ asked' = "returned"
        \/ asked' = "threw" /\ UNCHANGED answer
    BY <1>6 DEF EnqueueFinds
  <2>5. AskedInv'
    \* The blocker is still there, or it went and what is there is later.
    <3>1. ASSUME NEW u \in Rows, NewestRow(u), answer' = u, asked' = "returned"
          PROVE  answer' >= blocker
      <4>1. CASE job[blocker] = "dropped"
        BY <1>1, <2>1, <3>1, <4>1 DEF OrderInv, Rows
      <4>2. CASE job[blocker] # "dropped"
        BY <2>1, <3>1, <4>2 DEF NewestRow, Rows
      <4> QED BY <4>1, <4>2
    <3> QED BY <2>1, <2>4, <3>1 DEF AskedInv
  <2>6. SourceOK' /\ StageInv'
    BY <1>1, <2>1, <2>4 DEF SourceOK, QueueInv, StageInv, Rows, EnqueueFinds, worldVars
  <2>7. JobsTypeOK'
    BY <2>2, <2>6, RowsTypeNext
  <2> QED BY <2>2, <2>3, <2>5, <2>6, <2>7 DEF QueueInv
<1>7. CASE Unregister \/ Reconcile
  <2>1. /\ UNCHANGED <<job, retries, pc, on, attempt, aborted, faults, expired>>
        /\ UNCHANGED <<asked, answer, blocker>>
    BY <1>7 DEF Unregister, Reconcile, queueVars
  <2>2. RowsOK' /\ SoleInv' /\ Steady
    BY <1>1, <2>1 DEF RowsOK, SoleInv, Steady
  <2>3. OrderInv'
    BY <1>1, <2>2, SteadyOrder
  <2>4. AskedInv'
    BY <2>1, <2>2, SteadyAsked DEF QueueInv
  <2>5. registered' \in BOOLEAN /\ scheduled' \in BOOLEAN
    <3>1. CASE Unregister
      BY <1>1, <3>1, Zenon DEF Unregister, SourceOK
    <3>2. CASE Reconcile
      BY <1>1, <3>2, Zenon DEF Reconcile, SourceOK
    <3> QED BY <1>7, <3>1, <3>2
  <2>6. SourceOK' /\ StageInv'
    BY <1>1, <1>7, <2>1, <2>5 DEF SourceOK, QueueInv, StageInv, Unregister, Reconcile
  <2>7. JobsTypeOK'
    BY <2>2, <2>6, RowsTypeNext
  <2> QED BY <2>2, <2>3, <2>4, <2>6, <2>7 DEF QueueInv
<1>8. ASSUME NEW u \in Updates, Forget(u) \/ (Oldest(u) /\ Drop(u) /\ UNCHANGED sourceVars)
      PROVE  QueueInv'
  <2>1. /\ Oldest(u) /\ job[u] # "active" /\ job' = [job EXCEPT ![u] = "dropped"]
        /\ UNCHANGED <<retries, pc, handlerVars, expired, sourceVars>> /\ (Fault \/ NoFault)
    BY <1>8 DEF Forget, Drop, Waiting, NoFault
  <2>2. RowsOK' /\ SoleInv' /\ OrderInv' /\ AskedInv'
    BY <2>1, ForgetStep
  <2>3. SourceOK' /\ StageInv'
    BY <1>1, <2>1 DEF SourceOK, QueueInv, StageInv, sourceVars
  <2>4. JobsTypeOK'
    BY <2>2, <2>3, RowsTypeNext
  <2> QED BY <2>2, <2>3, <2>4 DEF QueueInv
<1> QED BY <1>2, <1>3, <1>4, <1>5, <1>6, <1>7, <1>8 DEF JobsWorld

\* What the world of a crawl does to its jobs.
LEMMA SyncWorldQueue ==
  ASSUME QueueInv, kind # "jobs", SyncWorld, UNCHANGED <<kind, sourceVars>>
  PROVE  QueueInv'
<1>1. RowsOK /\ SoleInv /\ DOMAIN pc = Handlers
  BY RowsType DEF QueueInv, StageInv
<1>2. CASE Tick \/ \E e \in Endpoints : PublishEndpoint(e)
  BY <1>2, QueueUntouched DEF Tick, PublishEndpoint
<1>3. ASSUME NEW h \in Handlers, Expires(h) PROVE QueueInv'
  <2>1. Outlive(h) /\ StageInv'
    BY <1>3 DEF Expires, Outlive, StageInv, QueueInv
  <2> QED BY <1>1, <2>1, OutliveStep, QueueKept
<1>4. CASE Crash
  <2>1. Fault /\ JobUntouched /\ pc' = [h \in Handlers |-> "idle"]
    BY <1>4 DEF Crash
  <2>2. StageInv'
    BY <2>1 DEF StageInv, Stages
  <2>3. RowsOK' /\ SoleInv' /\ Steady
    BY <1>1, <2>1, DeathStep
  <2> QED BY <2>2, <2>3, QueueKept
<1> QED BY <1>2, <1>3, <1>4 DEF SyncWorld

LEMMA QueueStep ==
  ASSUME kind \in Kinds, QueueInv, [CrawlNext]_workerVars
  PROVE  QueueInv'
<1>1. /\ RowsOK /\ SoleInv
      /\ pc \in [Handlers -> IF kind = "jobs" THEN {"idle", "start", "sync"} ELSE Stages]
  BY RowsType DEF QueueInv, StageInv
<1>2. ASSUME NEW h \in Handlers, JobsWorks(h) PROVE QueueInv'
  <2>1. kind = "jobs" /\ HandlerMoves(h, {"idle", "start", "sync"}) /\ UNCHANGED <<kind, sourceVars>>
    BY <1>2, JobsMoves DEF JobsWorks, Source, worldVars
  <2>2. RowsOK' /\ SoleInv' /\ Steady /\ pc' \in [Handlers -> {"idle", "start", "sync"}]
    BY <1>1, <2>1, MovesStep
  <2> QED BY <2>1, <2>2, QueueKept DEF StageInv
<1>3. ASSUME NEW h \in Handlers, SyncWorks(h) PROVE QueueInv'
  <2>1. kind # "jobs" /\ SyncStep(h) /\ UNCHANGED <<kind, sourceVars>>
    <3>1. SyncStep(h) => UNCHANGED kind
      BY DEF SyncStep, TakeJob, Look, FetchEndpoint, Defer, Recheck, Index, WriteChunks,
             CommitState, CallFails, worldVars
    <3> QED BY <1>3, <3>1 DEF SyncWorks, Source, Sync
  <2>2. HandlerMoves(h, Stages) /\ pc \in [Handlers -> Stages] /\ "idle" \in Stages
    BY <1>1, <2>1, SyncMoves DEF Stages
  <2>3. RowsOK' /\ SoleInv' /\ Steady /\ pc' \in [Handlers -> Stages]
    BY <1>1, <2>2, MovesStep
  <2> QED BY <2>1, <2>3, QueueKept DEF StageInv
<1>4. ASSUME NEW u \in Updates, Recovers(u) PROVE QueueInv'
  <2>1. Recover(u) /\ UNCHANGED <<kind, sourceVars>>
    BY <1>4 DEF Recovers, Source, worldVars
  <2>2. StageInv'
    BY <2>1 DEF Recover, StageInv, QueueInv
  <2> QED BY <1>1, <2>1, <2>2, RecoverStep, QueueKept
<1>5. CASE JobsChange
  BY <1>5, JobsWorldStep DEF JobsChange, Source, worldVars
<1>6. CASE SyncChange
  <2>1. SyncWorld => UNCHANGED kind
    BY DEF SyncWorld, Tick, Crash, PublishEndpoint, Expires, worldVars
  <2> QED BY <1>6, <2>1, SyncWorldQueue DEF SyncChange, Source, Sync
<1>7. CASE SiteWorks \/ SiteChange \/ PoolWorks \/ PoolChange
  BY <1>7, QueueUntouched DEF SiteWorks, SiteChange, PoolWorks, PoolChange, Elsewhere, worldVars
<1>8. CASE Quiescent \/ UNCHANGED workerVars
  BY <1>8, QueueUntouched DEF Quiescent, workerVars, worldVars
<1> QED BY <1>2, <1>3, <1>4, <1>5, <1>6, <1>7, <1>8 DEF CrawlNext

-----------------------------------------------------------------------------
(* Crawls of GitHub and Stack Exchange.                                    *)

HandlerInv(h) == SeenInv(h) /\ GotInv(h) /\ DoneInv(h)

\* The types of what a handler knows, and of what is stored.
KnowsOK(h) ==
  /\ started[h] \in 0..MaxClock /\ todo[h] \in SUBSET Endpoints
  /\ seen[h] \in [Endpoints -> State]
  /\ got[h] \in [Endpoints -> Versions] /\ etags[h] \in [Endpoints -> Versions]
  /\ wait[h] \in Deadlines

StoredOK ==
  /\ now \in Times /\ remote \in [Endpoints -> Versions]
  /\ state \in [Endpoints -> State] /\ indexed \in [Endpoints -> SUBSET Versions]

LEMMA KnowsType ==
  ASSUME SyncTypeOK
  PROVE  StoredOK /\ \A h \in Handlers : KnowsOK(h)
BY SMT DEF SyncTypeOK, StoredOK, KnowsOK

LEMMA StateFields ==
  ASSUME NEW s \in State
  PROVE  s.etag \in Versions /\ s.retry \in Nat /\ s.at \in 0..MaxClock
BY DEF State, Deadlines

LEMMA KeysFacts ==
  /\ Keys \subseteq Endpoints /\ 1 \in Endpoints
  /\ \A e \in Endpoints : KeyOf(e) \in Keys
  /\ kind = "github" => Keys = Endpoints
BY SyncAssumption DEF Keys, KeyOf

LEMMA ZeroType == 0 \in Versions /\ None \in [Endpoints -> Versions] /\ NoState \in State
<1>1. 0 \in Versions /\ 0 \in 0..MaxClock
  BY SyncAssumption DEF Versions
<1>2. NoState \in State
  BY <1>1, SMT DEF NoState, State, Deadlines
<1> QED BY <1>1, <1>2 DEF None

\* A step of a handler is about what it knows; the index only grows.
Mine(h) ==
  /\ pc' = [pc EXCEPT ![h] = pc'[h]]
  /\ started' = [started EXCEPT ![h] = started'[h]] /\ todo' = [todo EXCEPT ![h] = todo'[h]]
  /\ seen' = [seen EXCEPT ![h] = seen'[h]] /\ got' = [got EXCEPT ![h] = got'[h]]
  /\ etags' = [etags EXCEPT ![h] = etags'[h]] /\ wait' = [wait EXCEPT ![h] = wait'[h]]
  /\ UNCHANGED worldVars
  /\ \A e \in Endpoints : indexed[e] \subseteq indexed'[e]

\* What a handler knows stays true while time goes by, pages are published and
\* the index grows.
LEMMA HandlerKept ==
  ASSUME NEW h \in Handlers, KnowsOK(h), StoredOK, HandlerInv(h), UNCHANGED kind,
         now' \in Nat, now <= now',
         \A e \in Endpoints : indexed[e] \subseteq indexed'[e]
                              /\ (remote'[e] = remote[e] \/ remote'[e] = now'),
         pc'[h] = pc[h], started'[h] = started[h], todo'[h] = todo[h], seen'[h] = seen[h],
         got'[h] = got[h], etags'[h] = etags[h], wait'[h] = wait[h]
  PROVE  HandlerInv(h)'
<1>1. Keys' = Keys /\ Keys \subseteq Endpoints
  BY KeysFacts DEF Keys
<1>2. started[h] \in Nat /\ now \in Nat /\ started[h] <= now
  BY DEF KnowsOK, StoredOK, Times, HandlerInv, SeenInv
<1>3. SeenInv(h)'
  BY <1>1, <1>2 DEF HandlerInv, SeenInv
<1>4. GotInv(h)'
  <2>1. \A e \in Endpoints : Fetched(h, e)' <=> Fetched(h, e)
    BY DEF Fetched
  <2>2. ASSUME NEW e \in Endpoints, Fetched(h, e)', (started[h] > remote[e])'
        PROVE  (got[h][e] = remote[e] \/ remote[e] \in indexed[e])'
    <3>1. remote'[e] = remote[e]
      BY <1>2, <2>2
    <3> QED BY <2>1, <2>2, <3>1 DEF HandlerInv, GotInv
  <2> QED BY <2>2 DEF HandlerInv, GotInv
<1>5. DoneInv(h)'
  BY <1>1 DEF HandlerInv, DoneInv
<1> QED BY <1>3, <1>4, <1>5 DEF HandlerInv

LEMMA OthersKept ==
  ASSUME SyncInv, DOMAIN pc = Handlers, NEW h \in Handlers, Mine(h), HandlerInv(h)'
  PROVE  \A g \in Handlers : HandlerInv(g)'
<1> SUFFICES ASSUME NEW g \in Handlers, g # h PROVE HandlerInv(g)'
  OBVIOUS
<1>1. KnowsOK(g) /\ StoredOK /\ HandlerInv(g)
  BY KnowsType DEF SyncInv, HandlerInv
<1>2. UNCHANGED <<kind, now, remote>> /\ now \in Nat
  BY <1>1 DEF Mine, worldVars, StoredOK, Times
<1>3. /\ pc'[g] = pc[g] /\ started'[g] = started[g] /\ todo'[g] = todo[g] /\ seen'[g] = seen[g]
      /\ got'[g] = got[g] /\ etags'[g] = etags[g] /\ wait'[g] = wait[g]
  BY DEF Mine, SyncInv, SyncTypeOK, QueueInv, StageInv
<1> QED BY <1>1, <1>2, <1>3, HandlerKept DEF Mine

\* A value of a function that stays does not change it.
LEMMA ExceptSelf ==
  ASSUME NEW S, NEW f \in [Handlers -> S], NEW h \in Handlers
  PROVE  f = [f EXCEPT ![h] = f[h]]
OBVIOUS

LEMMA SyncStepDone ==
  ASSUME SyncInv, DOMAIN pc = Handlers, NEW h \in Handlers,
         Mine(h), KnowsOK(h)', StoredOK', HandlerInv(h)', WorldInv'
  PROVE  SyncInv'
<1>1. /\ started' \in [Handlers -> 0..MaxClock] /\ todo' \in [Handlers -> SUBSET Endpoints]
      /\ seen' \in [Handlers -> [Endpoints -> State]]
  BY DEF Mine, KnowsOK, SyncInv, SyncTypeOK
<1>2. /\ got' \in [Handlers -> [Endpoints -> Versions]]
      /\ etags' \in [Handlers -> [Endpoints -> Versions]]
      /\ wait' \in [Handlers -> Deadlines]
  BY DEF Mine, KnowsOK, SyncInv, SyncTypeOK
<1>3. SyncTypeOK'
  BY <1>1, <1>2 DEF SyncTypeOK, StoredOK
<1>4. \A g \in Handlers : HandlerInv(g)'
  BY OthersKept
<1> QED BY <1>3, <1>4 DEF SyncInv, HandlerInv

\* The states stay and the index grows.
LEMMA WorldKept ==
  ASSUME SyncInv, UNCHANGED <<worldVars, state>>,
         \A e \in Endpoints : indexed[e] \subseteq indexed'[e]
  PROVE  WorldInv'
<1>1. /\ Keys' = Keys /\ Keys \subseteq Endpoints
      /\ \A e \in Endpoints : KeyOf(e)' = KeyOf(e) /\ KeyOf(e) \in Keys
  BY KeysFacts DEF Keys, KeyOf, worldVars
<1> QED BY <1>1 DEF SyncInv, WorldInv, StateIsTrue, worldVars

\* A handler that ends knows nothing that could be wrong.
LEMMA ForgotInv ==
  ASSUME NEW h \in Handlers, SyncTypeOK, pc \in [Handlers -> Stages], Forgets(h), Goto(h, "idle"),
         UNCHANGED worldVars, \A e \in Endpoints : indexed[e] \subseteq indexed'[e]
  PROVE  Mine(h) /\ KnowsOK(h)' /\ HandlerInv(h)'
<1>1. /\ started'[h] = 0 /\ todo'[h] = {} /\ seen'[h] = [e \in Endpoints |-> NoState]
      /\ got'[h] = None /\ etags'[h] = None /\ wait'[h] = 0 /\ pc'[h] = "idle"
  BY DEF Forgets, Set, SyncTypeOK, Goto
<1>2. now' \in Nat /\ Keys' \subseteq Endpoints
  BY KeysFacts DEF worldVars, SyncTypeOK, Times, Keys
<1>3. SeenInv(h)'
  BY <1>1, <1>2 DEF SeenInv, NoState, Working
<1>4. GotInv(h)'
  BY <1>1 DEF GotInv, None, Fetched
<1>5. DoneInv(h)'
  BY <1>1 DEF DoneInv
<1>6. KnowsOK(h)'
  BY <1>1, ZeroType, SyncAssumption DEF KnowsOK, Deadlines
<1>7. Mine(h)
  BY <1>1 DEF Mine, Forgets, Set, Goto
<1> QED BY <1>3, <1>4, <1>5, <1>6, <1>7 DEF HandlerInv

LEMMA InterruptedFacts ==
  ASSUME NEW h \in Handlers, Interrupted(h) \/ Throws(h) \/ (Return(h) /\ Forgets(h))
  PROVE  Forgets(h) /\ Goto(h, "idle")
BY DEF Interrupted, Throws, Throw, Return

\* A handler ends without having stored anything.
LEMMA EndStep ==
  ASSUME SyncInv, pc \in [Handlers -> Stages], NEW h \in Handlers, Forgets(h), Goto(h, "idle"),
         UNCHANGED <<worldVars, storeVars>>
  PROVE  SyncInv'
<1>1. \A e \in Endpoints : indexed[e] \subseteq indexed'[e]
  BY DEF storeVars
<1>2. Mine(h) /\ KnowsOK(h)' /\ HandlerInv(h)'
  BY <1>1, ForgotInv DEF SyncInv
<1>3. StoredOK'
  BY KnowsType DEF SyncInv, StoredOK, worldVars, storeVars
<1>4. WorldInv'
  BY <1>1, WorldKept DEF storeVars
<1> QED BY <1>2, <1>3, <1>4, SyncStepDone

\* Its knowledge changes, the store does not.
LEMMA KnowStep ==
  ASSUME SyncInv, pc \in [Handlers -> Stages], NEW h \in Handlers,
         Mine(h), KnowsOK(h)', HandlerInv(h)',
         UNCHANGED <<worldVars, storeVars>>
  PROVE  SyncInv'
<1>1. StoredOK'
  BY KnowsType DEF SyncInv, StoredOK, worldVars, storeVars
<1>2. WorldInv'
  BY WorldKept DEF storeVars
<1> QED BY <1>1, <1>2, SyncStepDone

LEMMA MineStep ==
  ASSUME SyncTypeOK, pc \in [Handlers -> Stages], NEW h \in Handlers, NEW stage, Goto(h, stage),
         NEW a, started' = Set(started, h, a) \/ started' = started,
         NEW b, todo' = Set(todo, h, b) \/ todo' = todo,
         NEW c, seen' = Set(seen, h, c) \/ seen' = seen,
         NEW d, got' = Set(got, h, d) \/ got' = got,
         NEW e, etags' = Set(etags, h, e) \/ etags' = etags,
         NEW f, wait' = Set(wait, h, f) \/ wait' = wait,
         UNCHANGED worldVars, \A x \in Endpoints : indexed[x] \subseteq indexed'[x]
  PROVE  Mine(h)
<1> USE DEF Set, SyncTypeOK
<1>1. pc' = [pc EXCEPT ![h] = pc'[h]]
  BY DEF Goto
<1>2. started' = [started EXCEPT ![h] = started'[h]]
  OBVIOUS
<1>3. todo' = [todo EXCEPT ![h] = todo'[h]]
  OBVIOUS
<1>4. seen' = [seen EXCEPT ![h] = seen'[h]]
  OBVIOUS
<1>5. got' = [got EXCEPT ![h] = got'[h]]
  OBVIOUS
<1>6. etags' = [etags EXCEPT ![h] = etags'[h]]
  OBVIOUS
<1>7. wait' = [wait EXCEPT ![h] = wait'[h]]
  OBVIOUS
<1> QED BY <1>1, <1>2, <1>3, <1>4, <1>5, <1>6, <1>7 DEF Mine

LEMMA TakeJobSync ==
  ASSUME SyncInv, pc \in [Handlers -> Stages], NEW h \in Handlers, NEW u \in Updates, TakeJob(h, u)
  PROVE  SyncInv'
<1>1. /\ pc[h] = "idle" /\ Goto(h, "look")
      /\ started' = Set(started, h, now) /\ todo' = Set(todo, h, Keys)
      /\ UNCHANGED <<seen, got, etags, wait>> /\ UNCHANGED <<worldVars, storeVars>>
  BY DEF TakeJob, Take
<1>2. KnowsOK(h) /\ HandlerInv(h) /\ StoredOK
  BY KnowsType DEF SyncInv, HandlerInv
<1>3. pc'[h] = "look" /\ started'[h] = now /\ todo'[h] = Keys
  BY <1>1 DEF SyncInv, SyncTypeOK, Goto, Set
<1>4. Keys' = Keys /\ Keys \subseteq Endpoints /\ now \in 0..MaxClock
  BY <1>1, <1>2, KeysFacts DEF Keys, worldVars, StoredOK, Times
<1>5. Mine(h)
  BY <1>1, MineStep DEF SyncInv, storeVars
<1>6. KnowsOK(h)'
  BY <1>1, <1>2, <1>3, <1>4 DEF KnowsOK
<1>7. HandlerInv(h)'
  BY <1>1, <1>2, <1>3, <1>4
     DEF HandlerInv, SeenInv, GotInv, DoneInv, Fetched, Working, worldVars, storeVars
<1> QED BY <1>1, <1>5, <1>6, <1>7, KnowStep

LEMMA LookSync ==
  ASSUME SyncInv, pc \in [Handlers -> Stages], NEW h \in Handlers, Look(h)
  PROVE  SyncInv'
<1>1. pc[h] = "look" /\ UNCHANGED <<worldVars, storeVars>>
  BY DEF Look
<1>2. KnowsOK(h) /\ HandlerInv(h) /\ StoredOK /\ WorldInv
  BY KnowsType DEF SyncInv, HandlerInv
<1>3. CASE Return(h) /\ Forgets(h)
  BY <1>1, <1>3, InterruptedFacts, EndStep
<1>4. CASE ~(Return(h) /\ Forgets(h))
  <2> DEFINE states(e) == [seen[h] EXCEPT ![e] = state[e]]
  <2>1. PICK e \in Keys :
          /\ seen' = Set(seen, h, states(e)) /\ UNCHANGED <<started, got, etags, wait>>
          /\ \/ Goto(h, "look") /\ todo' = Set(todo, h, Left(h, e))
             \/ /\ Goto(h, "fetch") /\ todo' = Set(todo, h, Endpoints)
                /\ \A d \in Keys : ~Future(h, states(e)[d])
    BY <1>4 DEF Look, Proceed
  <2>2. Mine(h)
    BY <1>1, <2>1, MineStep DEF SyncInv, storeVars
  <2>3. e \in Endpoints /\ Keys \subseteq Endpoints /\ states(e) \in [Endpoints -> State]
    BY <1>2, KeysFacts DEF KnowsOK, StoredOK
  <2>4. /\ seen'[h] = states(e) /\ started'[h] = started[h]
        /\ got'[h] = got[h] /\ etags'[h] = etags[h] /\ wait'[h] = wait[h]
        /\ \/ pc'[h] = "look" /\ todo'[h] = Left(h, e)
           \/ pc'[h] = "fetch" /\ todo'[h] = Endpoints /\ \A d \in Keys : ~Future(h, states(e)[d])
    BY <2>1 DEF SyncInv, SyncTypeOK, Set, Goto
  <2>5. KnowsOK(h)'
    BY <1>2, <2>3, <2>4 DEF KnowsOK, Left
  <2>6. SeenInv(h)'
    <3>1. started'[h] <= now'
      BY <1>1, <1>2, <2>4 DEF HandlerInv, SeenInv, worldVars
    <3>2. Keys' = Keys /\ indexed' = indexed
      BY <1>1 DEF Keys, worldVars, storeVars
    <3>3. \A k \in Keys : states(e)[k].etag \in indexed[k] \cup {0}
      BY <1>2, <2>3 DEF HandlerInv, SeenInv, WorldInv, StateIsTrue, KnowsOK
    <3>4. ASSUME pc'[h] \in Working, NEW k \in Keys PROVE states(e)[k].retry <= started[h]
      <4>1. ~(states(e)[k].retry > started[h])
        BY <2>4, <3>4 DEF Working, Future
      <4>2. states(e)[k].retry \in Nat /\ started[h] \in Nat
        BY <1>2, <2>3, StateFields DEF KnowsOK
      <4> QED BY <4>1, <4>2
    <3> QED BY <2>4, <3>1, <3>2, <3>3, <3>4 DEF SeenInv
  <2>7. GotInv(h)'
    BY <1>1, <1>2, <2>4 DEF HandlerInv, GotInv, Fetched, Working
  <2>8. DoneInv(h)'
    BY <2>4 DEF DoneInv
  <2> QED BY <1>1, <2>2, <2>5, <2>6, <2>7, <2>8, KnowStep DEF HandlerInv
<1> QED BY <1>3, <1>4

LEMMA DeferredSync ==
  ASSUME SyncInv, pc \in [Handlers -> Stages], NEW h \in Handlers, pc[h] = "fetch",
         NEW e \in Endpoints, IsDeferred(h, e), UNCHANGED <<worldVars, storeVars>>
  PROVE  SyncInv'
<1>1. KnowsOK(h) /\ HandlerInv(h) /\ StoredOK
  BY KnowsType DEF SyncInv, HandlerInv
<1>2. PICK d \in Delays :
        /\ started' = started \/ started' = Set(started, h, now)
        /\ wait' = Set(wait, h, started'[h] + d) /\ todo' = Set(todo, h, {KeyOf(e)})
        /\ Goto(h, "defer") /\ UNCHANGED <<seen, got, etags>>
  BY DEF IsDeferred, Proceed
<1>3. Mine(h)
  BY <1>2, MineStep DEF SyncInv, storeVars
<1>4. /\ started'[h] \in {started[h], now} /\ wait'[h] = started'[h] + d /\ todo'[h] = {KeyOf(e)}
      /\ pc'[h] = "defer" /\ seen'[h] = seen[h] /\ got'[h] = got[h] /\ etags'[h] = etags[h]
  BY <1>2 DEF SyncInv, SyncTypeOK, Set, Goto
<1>5. /\ started[h] \in 0..MaxClock /\ now \in 0..MaxClock /\ started[h] <= now
      /\ d \in Nat /\ d > 0 /\ Keys \subseteq Endpoints /\ KeyOf(e) \in Keys /\ Keys' = Keys
  BY <1>1, KeysFacts, SyncAssumption
     DEF KnowsOK, StoredOK, Times, HandlerInv, SeenInv, Keys, worldVars
<1>6. KnowsOK(h)'
  BY <1>1, <1>4, <1>5 DEF KnowsOK, Deadlines
<1>7. SeenInv(h)'
  <2>1. ASSUME NEW k \in Keys PROVE seen[h][k].retry <= started'[h]
    <3>1. seen[h][k].retry \in Nat /\ seen[h][k].retry <= started[h]
      BY <1>1, <1>5, StateFields DEF KnowsOK, HandlerInv, SeenInv, Working
    <3> QED BY <1>4, <1>5, <3>1
  <2> QED BY <1>1, <1>4, <1>5, <2>1 DEF SeenInv, HandlerInv, worldVars, storeVars
<1>8. GotInv(h)'
  BY <1>1, <1>4 DEF HandlerInv, GotInv, Fetched, Working
<1>9. DoneInv(h)'
  BY <1>4, <1>5 DEF DoneInv
<1> QED BY <1>3, <1>6, <1>7, <1>8, <1>9, KnowStep DEF HandlerInv

\* An answer is the version that the endpoint serves, or that one is indexed.
LEMMA AnsweredSync ==
  ASSUME SyncInv, pc \in [Handlers -> Stages], NEW h \in Handlers, pc[h] = "fetch",
         NEW e \in Endpoints, Visits(h, e), IsAnswered(h, e), UNCHANGED <<worldVars, storeVars>>
  PROVE  SyncInv'
<1> DEFINE version == IF kind = "github" /\ seen[h][e].etag = remote[e] THEN 0 ELSE remote[e]
           fetched == [got[h] EXCEPT ![e] = version]
           docs == {d \in Endpoints : fetched[d] # 0}
<1>1. KnowsOK(h) /\ HandlerInv(h) /\ StoredOK /\ WorldInv
  BY KnowsType DEF SyncInv, HandlerInv
<1>2. /\ got' = Set(got, h, fetched) /\ UNCHANGED <<started, seen, wait>>
      /\ \/ Left(h, e) # {} /\ todo' = Set(todo, h, Left(h, e)) /\ Goto(h, "fetch")
         \/ /\ Left(h, e) = {} /\ todo' = Set(todo, h, docs)
            /\ Goto(h, IF docs = {} THEN "commit" ELSE "index")
  BY DEF IsAnswered, Proceed, AfterFetch
<1>3. PICK tag \in {0, seen[h][e].etag, remote[e]} :
        /\ etags' = [etags EXCEPT ![h][e] = tag]
        /\ kind # "github" => tag = 0
  BY DEF IsAnswered
<1>4. version \in Versions /\ seen[h][e].etag \in Versions /\ fetched \in [Endpoints -> Versions]
  BY <1>1, ZeroType, StateFields DEF KnowsOK, StoredOK
<1>5. etags' = Set(etags, h, [etags[h] EXCEPT ![e] = tag])
  BY <1>3 DEF Set, SyncInv, SyncTypeOK
<1>6. Mine(h)
  <2> HIDE DEF fetched, docs
  <2> QED BY <1>2, <1>5, MineStep DEF SyncInv, storeVars
<1>7. /\ got'[h] = fetched /\ etags'[h] = [etags[h] EXCEPT ![e] = tag]
      /\ started'[h] = started[h] /\ seen'[h] = seen[h] /\ wait'[h] = wait[h]
      /\ \/ Left(h, e) # {} /\ todo'[h] = Left(h, e) /\ pc'[h] = "fetch"
         \/ /\ Left(h, e) = {} /\ todo'[h] = docs
            /\ pc'[h] = IF docs = {} THEN "commit" ELSE "index"
  <2> HIDE DEF fetched, docs
  <2> QED BY <1>2, <1>5 DEF SyncInv, SyncTypeOK, Set, Goto
<1>8. KnowsOK(h)'
  <2>1. tag \in Versions
    BY <1>1, <1>3, <1>4, ZeroType DEF StoredOK
  <2>2. etags'[h] \in [Endpoints -> Versions] /\ todo'[h] \in SUBSET Endpoints
    BY <1>1, <1>7, <2>1 DEF KnowsOK, Left
  <2> QED BY <1>1, <1>4, <1>7, <2>2 DEF KnowsOK
<1>9. SeenInv(h)'
  <2>1. Keys' = Keys
    BY DEF Keys, worldVars
  <2> QED BY <1>1, <1>7, <2>1 DEF HandlerInv, SeenInv, Working, worldVars, storeVars
<1>10. GotInv(h)'
  <2>1. ASSUME NEW d \in Endpoints PROVE etags'[h][d] \in {0, seen'[h][d].etag, got'[h][d]}
    <3>1. CASE d = e
      <4>1. etags'[h][d] = tag /\ got'[h][d] = version /\ seen'[h][d] = seen[h][e]
        BY <1>1, <1>7, <3>1 DEF KnowsOK
      <4> QED BY <1>3, <4>1
    <3>2. CASE d # e
      BY <1>1, <1>7, <3>2 DEF KnowsOK, HandlerInv, GotInv
    <3> QED BY <3>1, <3>2
  <2>2. pc'[h] \in Working
    BY <1>7 DEF Working
  <2>3. ASSUME NEW d \in Endpoints, Fetched(h, d)', started[h] > remote[d]
        PROVE  fetched[d] = remote[d] \/ remote[d] \in indexed[d]
    <3>1. CASE d = e
      <4>1. fetched[d] = version
        BY <1>1, <3>1 DEF KnowsOK
      <4>2. CASE kind = "github" /\ seen[h][e].etag = remote[e]
        \* It answered 304 for an etag that speaks of the index.
        <5>1. seen[h][e].etag \in indexed[e] \cup {0}
          BY <1>1, <4>2, KeysFacts DEF HandlerInv, SeenInv
        <5>2. remote[e] # 0
          BY <1>1 DEF WorldInv
        <5> QED BY <3>1, <4>2, <5>1, <5>2
      <4>3. CASE ~(kind = "github" /\ seen[h][e].etag = remote[e])
        BY <3>1, <4>1, <4>3
      <4> QED BY <4>2, <4>3
    <3>2. CASE d # e
      <4>1. d \notin todo[h]
        BY <1>7, <2>3, <3>2 DEF Fetched, Left
      <4>2. got[h][d] = remote[d] \/ remote[d] \in indexed[d]
        BY <1>1, <2>3, <4>1 DEF HandlerInv, GotInv, Fetched
      <4> QED BY <1>1, <3>2, <4>2 DEF KnowsOK
    <3> QED BY <3>1, <3>2
  <2> HIDE DEF fetched
  <2> QED BY <1>7, <2>1, <2>2, <2>3 DEF GotInv, worldVars, storeVars
<1>11. DoneInv(h)'
  <2>1. ASSUME pc'[h] \in {"index", "replace", "commit"}, NEW d \in Endpoints,
               d \notin todo'[h] \/ pc'[h] = "commit"
        PROVE  got'[h][d] = 0
    BY <1>7, <2>1
  <2> QED BY <1>7, <2>1 DEF DoneInv
<1> HIDE DEF fetched
<1> QED BY <1>6, <1>8, <1>9, <1>10, <1>11, KnowStep DEF HandlerInv

LEMMA FetchSync ==
  ASSUME SyncInv, pc \in [Handlers -> Stages], NEW h \in Handlers, FetchEndpoint(h)
  PROVE  SyncInv'
BY DeferredSync, AnsweredSync DEF FetchEndpoint

\* A handler stores states and ends: they have to be true.
LEMMA StoreStep ==
  ASSUME SyncInv, pc \in [Handlers -> Stages], NEW h \in Handlers, Forgets(h), Goto(h, "idle"),
         UNCHANGED <<worldVars, indexed>>, state' \in [Endpoints -> State], WorldInv'
  PROVE  SyncInv'
<1>1. Mine(h) /\ KnowsOK(h)' /\ HandlerInv(h)'
  BY ForgotInv DEF SyncInv
<1>2. StoredOK'
  BY KnowsType DEF SyncInv, StoredOK, worldVars
<1> QED BY <1>1, <1>2, SyncStepDone

\* Just its stage changes.
LEMMA StageStep ==
  ASSUME SyncInv, pc \in [Handlers -> Stages], NEW h \in Handlers, NEW stage, Goto(h, stage),
         UNCHANGED <<crawlVars, worldVars, storeVars>>, HandlerInv(h)'
  PROVE  SyncInv'
<1>1. Mine(h)
  BY MineStep DEF crawlVars, storeVars, SyncInv
<1>2. KnowsOK(h)'
  BY KnowsType DEF SyncInv, KnowsOK, crawlVars
<1> QED BY <1>1, <1>2, KnowStep

\* A state is replaced if it is the one the crawl has read.
LEMMA DeferSync ==
  ASSUME SyncInv, pc \in [Handlers -> Stages], NEW h \in Handlers, Defer(h)
  PROVE  SyncInv'
<1>1. pc[h] = "defer" /\ UNCHANGED <<indexed, worldVars>>
  BY DEF Defer
<1>2. KnowsOK(h) /\ HandlerInv(h) /\ StoredOK /\ WorldInv
  BY KnowsType DEF SyncInv, HandlerInv
<1>3. ASSUME NEW k \in todo[h], Unchanged(h, {k}),
             state' = [state EXCEPT ![k] =
                         [etag |-> seen[h][k].etag, retry |-> wait[h], at |-> started[h]]],
             Forgets(h), Goto(h, "idle")
      PROVE  SyncInv'
  <2>1. k \in Keys /\ Keys \subseteq Endpoints /\ wait[h] > 0 /\ wait[h] \in Nat
    BY <1>1, <1>2, KeysFacts DEF KnowsOK, HandlerInv, DoneInv, Deadlines
  <2> DEFINE s == [etag |-> seen[h][k].etag, retry |-> wait[h], at |-> started[h]]
  <2>2. seen[h][k].etag \in Versions /\ started[h] \in 0..MaxClock /\ started[h] <= now
    BY <1>2, <2>1, StateFields DEF KnowsOK, HandlerInv, SeenInv
  <2>3. s \in State /\ s.etag = seen[h][k].etag /\ s.retry = wait[h] /\ s.at = started[h]
    BY <2>1, <2>2 DEF State, Deadlines
  <2>4. s.etag \in indexed[k] \cup {0}
    BY <1>2, <2>1, <2>3 DEF HandlerInv, SeenInv
  <2>5. state' = [state EXCEPT ![k] = s] /\ state' \in [Endpoints -> State]
    BY <1>2, <1>3, <2>1, <2>3 DEF StoredOK
  <2> HIDE DEF s
  <2>6. WorldInv'
    <3>1. Keys' = Keys /\ \A e \in Endpoints : KeyOf(e)' = KeyOf(e) /\ KeyOf(e) \in Keys
      BY <1>1, KeysFacts DEF Keys, KeyOf, worldVars
    <3>2. \A e \in Endpoints : state'[e] = IF e = k THEN s ELSE state[e]
      BY <1>2, <2>5 DEF StoredOK
    <3>3. UNCHANGED <<now, remote, indexed>>
      BY <1>1 DEF worldVars
    <3>4. \A e \in Endpoints : (state[e].at <= now /\ 1 <= remote[e] /\ remote[e] <= now)'
      BY <1>2, <2>2, <2>3, <3>2, <3>3 DEF WorldInv
    <3>5. ASSUME NEW e \in Keys PROVE state'[e].etag \in indexed[e] \cup {0}
      BY <1>2, <2>1, <2>4, <3>2, <3>5 DEF WorldInv, StateIsTrue
    <3>6. ASSUME NEW e \in Endpoints, state'[KeyOf(e)].retry = 0, state'[KeyOf(e)].at > remote[e]
          PROVE  remote[e] \in indexed[e]
      <4>1. KeyOf(e) # k
        BY <2>1, <2>3, <3>1, <3>2, <3>6
      <4> QED BY <1>2, <2>1, <3>1, <3>2, <3>6, <4>1 DEF WorldInv, StateIsTrue
    <3> QED BY <3>1, <3>3, <3>4, <3>5, <3>6 DEF WorldInv, StateIsTrue
  <2> QED BY <1>1, <1>3, <2>5, <2>6, StoreStep
<1>4. CASE Goto(h, "recheck") /\ UNCHANGED <<crawlVars, state>>
  <2>1. pc'[h] = "recheck" /\ Keys' = Keys
    BY <1>1, <1>4 DEF Goto, Keys, worldVars
  <2>2. HandlerInv(h)'
    BY <1>1, <1>2, <1>4, <2>1
       DEF HandlerInv, SeenInv, GotInv, DoneInv, Fetched, Working, worldVars, crawlVars
  <2> QED BY <1>1, <1>4, <2>2, StageStep DEF storeVars
<1>5. Interrupted(h) \/ (Return(h) /\ Forgets(h)) => Forgets(h) /\ Goto(h, "idle")
  BY InterruptedFacts
<1> QED BY <1>3, <1>4, <1>5 DEF Defer, Commits, Proceed

LEMMA RecheckSync ==
  ASSUME SyncInv, pc \in [Handlers -> Stages], NEW h \in Handlers, Recheck(h)
  PROVE  SyncInv'
BY InterruptedFacts, EndStep DEF Recheck

LEMMA CallFailsSync ==
  ASSUME SyncInv, pc \in [Handlers -> Stages], NEW h \in Handlers, CallFails(h)
  PROVE  SyncInv'
BY InterruptedFacts, EndStep DEF CallFails

\* The document of an endpoint has its chunks: the next one.
LEMMA NextDocumentInv ==
  ASSUME SyncInv, pc \in [Handlers -> Stages], NEW h \in Handlers, pc[h] \in {"index", "replace"},
         NEW e \in Endpoints, Visits(h, e), NextDocument(h, e),
         UNCHANGED worldVars, \A d \in Endpoints : indexed[d] \subseteq indexed'[d],
         got[h][e] \in indexed'[e]
  PROVE  Mine(h) /\ KnowsOK(h)' /\ HandlerInv(h)'
<1>1. KnowsOK(h) /\ HandlerInv(h) /\ StoredOK
  BY KnowsType DEF SyncInv, HandlerInv
<1>2. /\ todo' = Set(todo, h, Left(h, e)) /\ UNCHANGED <<started, seen, got, etags, wait>>
      /\ Goto(h, IF Left(h, e) = {} THEN "commit" ELSE "index")
  BY DEF NextDocument, Proceed
<1>3. Mine(h)
  BY <1>2, MineStep DEF SyncInv
<1>4. /\ pc'[h] = IF Left(h, e) = {} THEN "commit" ELSE "index"
      /\ todo'[h] = Left(h, e) /\ Keys' = Keys /\ Keys \subseteq Endpoints
  BY <1>2, KeysFacts DEF SyncInv, SyncTypeOK, Set, Goto, Keys, worldVars
<1>5. KnowsOK(h)'
  BY <1>1, <1>2, <1>4 DEF KnowsOK, Left
<1>6. SeenInv(h)'
  BY <1>1, <1>2, <1>4 DEF HandlerInv, SeenInv, Working, worldVars
<1>7. GotInv(h)'
  <2>1. ASSUME NEW d \in Endpoints, started[h] > remote[d]
        PROVE  got[h][d] = remote[d] \/ remote[d] \in indexed'[d]
    BY <1>1, <2>1 DEF HandlerInv, GotInv, Fetched
  <2> QED BY <1>1, <1>2, <1>4, <2>1 DEF HandlerInv, GotInv, Working, worldVars
<1>8. DoneInv(h)'
  <2>1. ASSUME NEW d \in Endpoints, d \notin Left(h, e) \/ Left(h, e) = {}
        PROVE  got[h][d] \in indexed'[d] \cup {0}
    <3>1. CASE d = e
      BY <3>1
    <3>2. CASE d # e
      <4>1. d \notin todo[h]
        BY <2>1, <3>2 DEF Left
      <4> QED BY <1>1, <4>1 DEF HandlerInv, DoneInv
    <3> QED BY <3>1, <3>2
  <2> QED BY <1>2, <1>4, <2>1 DEF DoneInv
<1> QED BY <1>3, <1>5, <1>6, <1>7, <1>8 DEF HandlerInv

LEMMA IndexSync ==
  ASSUME SyncInv, pc \in [Handlers -> Stages], NEW h \in Handlers, Index(h)
  PROVE  SyncInv'
<1>1. pc[h] = "index" /\ UNCHANGED <<worldVars, storeVars>>
  BY DEF Index
<1>2. ASSUME NEW e \in Endpoints, Visits(h, e), got[h][e] \in indexed[e], NextDocument(h, e)
      PROVE  SyncInv'
  <2>1. Mine(h) /\ KnowsOK(h)' /\ HandlerInv(h)'
    BY <1>1, <1>2, NextDocumentInv DEF storeVars
  <2> QED BY <1>1, <2>1, KnowStep
<1>3. ASSUME Proceed(h, "replace"), UNCHANGED crawlVars
      PROVE  SyncInv'
  <2>1. pc'[h] = "replace" /\ Keys' = Keys /\ Goto(h, "replace")
    BY <1>1, <1>3 DEF Goto, Keys, worldVars, Proceed
  <2>2. HandlerInv(h)'
    BY <1>1, <1>3, <2>1 DEF SyncInv, HandlerInv, SeenInv, GotInv, DoneInv, Fetched, Working,
                            worldVars, crawlVars, storeVars
  <2> QED BY <1>1, <1>3, <2>1, <2>2, StageStep
<1> QED BY <1>2, <1>3 DEF Index

LEMMA WriteChunksSync ==
  ASSUME SyncInv, pc \in [Handlers -> Stages], NEW h \in Handlers, WriteChunks(h)
  PROVE  SyncInv'
<1>1. PICK e \in Endpoints :
        /\ Visits(h, e) /\ indexed' = [indexed EXCEPT ![e] = @ \cup {got[h][e]}]
        /\ NextDocument(h, e) \/ Interrupted(h)
  BY DEF WriteChunks, Commits
<1>2. pc[h] = "replace" /\ UNCHANGED <<worldVars, state>>
  BY DEF WriteChunks
<1>3. KnowsOK(h) /\ StoredOK
  BY KnowsType DEF SyncInv
<1>4. /\ \A d \in Endpoints : indexed[d] \subseteq indexed'[d]
      /\ got[h][e] \in indexed'[e] /\ indexed' \in [Endpoints -> SUBSET Versions]
  BY <1>1, <1>3 DEF StoredOK, KnowsOK
<1>5. StoredOK' /\ WorldInv'
  BY <1>2, <1>3, <1>4, WorldKept DEF StoredOK, worldVars
<1>6. Mine(h) /\ KnowsOK(h)' /\ HandlerInv(h)'
  <2>1. CASE NextDocument(h, e)
    BY <1>1, <1>2, <1>4, <2>1, NextDocumentInv
  <2>2. CASE Interrupted(h)
    BY <1>2, <1>4, <2>2, InterruptedFacts, ForgotInv DEF SyncInv
  <2> QED BY <1>1, <2>1, <2>2
<1> QED BY <1>5, <1>6, SyncStepDone

\* At the commit everything the states speak of is indexed.
LEMMA CommitSync ==
  ASSUME SyncInv, pc \in [Handlers -> Stages], NEW h \in Handlers, CommitState(h)
  PROVE  SyncInv'
<1>1. pc[h] = "commit" /\ UNCHANGED <<indexed, worldVars>>
  BY DEF CommitState
<1>2. KnowsOK(h) /\ HandlerInv(h) /\ StoredOK /\ WorldInv
  BY KnowsType DEF SyncInv, HandlerInv
<1>3. Forgets(h) /\ Goto(h, "idle")
  BY InterruptedFacts DEF CommitState, Commits
<1>4. CASE UNCHANGED state
  BY <1>1, <1>3, <1>4, EndStep DEF storeVars
<1>5. CASE state' = [e \in Endpoints |-> IF e \in Keys THEN Success(h, e) ELSE state[e]]
  <2>1. \A e \in Endpoints : got[h][e] \in indexed[e] \cup {0}
    BY <1>1, <1>2 DEF HandlerInv, DoneInv
  <2>2. \A k \in Keys : k \in Endpoints /\ etags[h][k] \in indexed[k] \cup {0}
    BY <1>2, <2>1, KeysFacts DEF HandlerInv, GotInv, SeenInv
  <2>3. \A e \in Endpoints : started[h] > remote[e] => remote[e] \in indexed[e]
    <3> SUFFICES ASSUME NEW e \in Endpoints, started[h] > remote[e] PROVE remote[e] \in indexed[e]
      OBVIOUS
    <3>1. got[h][e] = remote[e] \/ remote[e] \in indexed[e]
      BY <1>1, <1>2 DEF HandlerInv, GotInv, Fetched
    <3>2. remote[e] # 0
      BY <1>2 DEF WorldInv
    <3> QED BY <2>1, <3>1, <3>2
  <2>4. \A k \in Keys : /\ Success(h, k) \in State /\ Success(h, k).at = started[h]
                        /\ Success(h, k).etag = etags[h][k]
    BY <1>2, <2>2 DEF Success, State, Deadlines, KnowsOK
  <2>5. /\ \A e \in Endpoints : state'[e] = IF e \in Keys THEN Success(h, e) ELSE state[e]
        /\ state' \in [Endpoints -> State]
    BY <1>2, <1>5, <2>4 DEF StoredOK
  <2>6. Keys' = Keys /\ \A e \in Endpoints : KeyOf(e)' = KeyOf(e) /\ KeyOf(e) \in Keys
    BY <1>1, KeysFacts DEF Keys, KeyOf, worldVars
  <2>7. WorldInv'
    <3>1. UNCHANGED <<now, remote, indexed>> /\ started[h] <= now
      BY <1>1, <1>2 DEF worldVars, HandlerInv, SeenInv
    <3>2. \A e \in Endpoints : (state[e].at <= now /\ 1 <= remote[e] /\ remote[e] <= now)'
      BY <1>2, <2>4, <2>5, <3>1 DEF WorldInv
    <3>3. \A k \in Keys : state'[k].etag \in indexed[k] \cup {0}
      BY <2>2, <2>4, <2>5
    <3>4. ASSUME NEW e \in Endpoints, state'[KeyOf(e)].at > remote[e]
          PROVE  remote[e] \in indexed[e]
      BY <2>2, <2>3, <2>4, <2>5, <2>6, <3>4
    <3> QED BY <2>6, <3>1, <3>2, <3>3, <3>4 DEF WorldInv, StateIsTrue
  <2> QED BY <1>1, <1>3, <2>5, <2>7, StoreStep
<1> QED BY <1>4, <1>5 DEF CommitState

LEMMA SyncHandlers ==
  ASSUME SyncInv, pc \in [Handlers -> Stages], NEW h \in Handlers, SyncStep(h)
  PROVE  SyncInv'
BY TakeJobSync, LookSync, FetchSync, DeferSync, RecheckSync, IndexSync, WriteChunksSync,
   CommitSync, CallFailsSync DEF SyncStep

\* Time goes by, content changes, signals and crashes.
LEMMA SyncWorldStep ==
  ASSUME SyncInv, pc \in [Handlers -> Stages], SyncWorld
  PROVE  SyncInv'
<1>1. StoredOK /\ WorldInv /\ \A h \in Handlers : KnowsOK(h) /\ HandlerInv(h)
  BY KnowsType DEF SyncInv, HandlerInv
<1>2. ASSUME Tick \/ (\E e \in Endpoints : PublishEndpoint(e)) \/ (\E h \in Handlers : Expires(h))
      PROVE  SyncInv'
  <2>1. /\ UNCHANGED <<pc, started, todo, seen, got, etags, wait, kind, state, indexed>>
        /\ now' \in Times /\ now <= now'
        /\ \A e \in Endpoints : remote'[e] = remote[e] \/ remote'[e] = now'
        /\ remote' \in [Endpoints -> Versions]
    <3>1. CASE Tick
      <4>1. now' \in Times /\ now <= now' /\ UNCHANGED remote
        BY <1>1, <3>1, SyncAssumption DEF Tick, StoredOK, Times
      <4> QED BY <1>1, <3>1, <4>1 DEF Tick, queueVars, crawlVars, storeVars, StoredOK
    <3>2. ASSUME NEW e \in Endpoints, PublishEndpoint(e) PROVE <2>1
      <4>1. now \in Versions /\ now \in Nat
        BY <1>1, SyncAssumption DEF StoredOK, Times, Versions
      <4>2. remote' = [remote EXCEPT ![e] = now] /\ UNCHANGED now
        BY <3>2 DEF PublishEndpoint
      <4> QED BY <1>1, <3>2, <4>1, <4>2 DEF PublishEndpoint, queueVars, crawlVars, storeVars, StoredOK
    <3>3. ASSUME NEW h \in Handlers, Expires(h) PROVE <2>1
      <4>1. now \in Nat
        BY <1>1 DEF StoredOK, Times
      <4> QED BY <1>1, <3>3, <4>1
              DEF Expires, Outlive, crawlVars, worldVars, storeVars, StoredOK
    <3> QED BY <1>2, <3>1, <3>2, <3>3
  <2>2. now \in Nat /\ now' \in Nat /\ now' >= 1
    BY <1>1, <2>1, SyncAssumption DEF StoredOK, Times
  <2>3. SyncTypeOK'
    BY <2>1 DEF SyncInv, SyncTypeOK
  <2>4. Keys' = Keys /\ Keys \subseteq Endpoints
        /\ \A e \in Endpoints : KeyOf(e)' = KeyOf(e) /\ KeyOf(e) \in Keys
    BY <2>1, KeysFacts DEF Keys, KeyOf
  <2>5. \A k \in Endpoints : state[k].at \in Nat /\ remote[k] \in Nat
    BY <1>1, StateFields, SyncAssumption DEF StoredOK, Versions
  <2>6. WorldInv'
    <3>1. \A e \in Endpoints : (state[e].at <= now /\ 1 <= remote[e] /\ remote[e] <= now)'
      BY <1>1, <2>1, <2>2, <2>5 DEF WorldInv
    <3>2. \A k \in Keys : state[k].etag \in indexed[k] \cup {0}
      BY <1>1 DEF WorldInv, StateIsTrue
    <3>3. ASSUME NEW e \in Endpoints, state[KeyOf(e)].retry = 0, state[KeyOf(e)].at > remote'[e]
          PROVE  remote'[e] \in indexed[e]
      <4>1. state[KeyOf(e)].at <= now /\ KeyOf(e) \in Endpoints
        BY <1>1, <2>4 DEF WorldInv
      <4>2. remote'[e] = remote[e]
        BY <2>1, <2>2, <2>5, <3>3, <4>1
      <4> QED BY <1>1, <3>3, <4>2 DEF WorldInv, StateIsTrue
    <3> QED BY <2>1, <2>4, <3>1, <3>2, <3>3 DEF WorldInv, StateIsTrue
  <2>7. \A h \in Handlers : HandlerInv(h)'
    BY <1>1, <2>1, <2>2, HandlerKept
  <2> QED BY <2>3, <2>6, <2>7 DEF SyncInv, HandlerInv
<1>3. CASE Crash
  <2>1. /\ pc' = [h \in Handlers |-> "idle"] /\ started' = [h \in Handlers |-> 0]
        /\ todo' = [h \in Handlers |-> {}]
        /\ seen' = [h \in Handlers |-> [e \in Endpoints |-> NoState]]
        /\ got' = [h \in Handlers |-> None] /\ etags' = [h \in Handlers |-> None]
        /\ wait' = [h \in Handlers |-> 0] /\ UNCHANGED <<worldVars, storeVars>>
    BY <1>3 DEF Crash
  <2>2. 0 \in 0..MaxClock /\ 0 \in Deadlines
    BY SyncAssumption DEF Deadlines
  <2>3. SyncTypeOK'
    <3>1. /\ started' \in [Handlers -> 0..MaxClock] /\ todo' \in [Handlers -> SUBSET Endpoints]
          /\ seen' \in [Handlers -> [Endpoints -> State]] /\ wait' \in [Handlers -> Deadlines]
      BY <2>1, <2>2, ZeroType
    <3>2. got' \in [Handlers -> [Endpoints -> Versions]] /\ etags' \in [Handlers -> [Endpoints -> Versions]]
      BY <2>1, ZeroType
    <3> QED BY <2>1, <3>1, <3>2 DEF SyncInv, SyncTypeOK, worldVars, storeVars
  <2>4. WorldInv'
    BY <2>1, WorldKept DEF storeVars
  <2>5. ASSUME NEW h \in Handlers PROVE HandlerInv(h)'
    <3>1. /\ pc'[h] = "idle" /\ started'[h] = 0 /\ seen'[h] = [e \in Endpoints |-> NoState]
          /\ got'[h] = None /\ etags'[h] = None
      BY <2>1
    <3>2. now' \in Nat /\ Keys' \subseteq Endpoints
      BY <1>1, <2>1, KeysFacts DEF worldVars, StoredOK, Times, Keys
    <3>3. SeenInv(h)'
      BY <3>1, <3>2 DEF SeenInv, NoState, Working
    <3>4. GotInv(h)'
      BY <3>1 DEF GotInv, None, Fetched
    <3>5. DoneInv(h)'
      BY <3>1 DEF DoneInv
    <3> QED BY <3>3, <3>4, <3>5 DEF HandlerInv
  <2> QED BY <2>3, <2>4, <2>5 DEF SyncInv, HandlerInv
<1> QED BY <1>2, <1>3 DEF SyncWorld

\* Nobody crawls.
LEMMA SyncUntouched ==
  ASSUME SyncInv, UNCHANGED <<crawlVars, worldVars, storeVars>>,
         \/ UNCHANGED pc
         \/ \A h \in Handlers : {pc[h], pc'[h]} \cap Working = {}
  PROVE  SyncInv'
<1>1. /\ UNCHANGED <<started, todo, seen, got, etags, wait, kind, now, remote, state, indexed>>
      /\ Keys' = Keys /\ \A e \in Endpoints : KeyOf(e)' = KeyOf(e)
  BY DEF crawlVars, worldVars, storeVars, Keys, KeyOf
<1>2. SyncTypeOK'
  BY <1>1 DEF SyncInv, SyncTypeOK
<1>3. WorldInv'
  BY <1>1 DEF SyncInv, WorldInv, StateIsTrue
<1>4. ASSUME NEW h \in Handlers PROVE SeenInv(h)' /\ GotInv(h)' /\ DoneInv(h)'
  <2>1. CASE UNCHANGED pc
    BY <1>1, <2>1 DEF SyncInv, SeenInv, GotInv, DoneInv, Fetched
  <2>2. CASE ~UNCHANGED pc
    BY <1>1, <2>2 DEF SyncInv, SeenInv, GotInv, DoneInv, Fetched, Working
  <2> QED BY <2>1, <2>2
<1> QED BY <1>2, <1>3, <1>4 DEF SyncInv

LEMMA CrawlSyncStep ==
  ASSUME kind \in Kinds, QueueInv, SyncInv, [CrawlNext]_workerVars
  PROVE  SyncInv'
<1>1. pc \in [Handlers -> IF kind = "jobs" THEN {"idle", "start", "sync"} ELSE Stages]
  BY DEF QueueInv, StageInv
<1>2. pc' \in [Handlers -> IF kind' = "jobs" THEN {"idle", "start", "sync"} ELSE Stages]
  BY QueueStep DEF QueueInv, StageInv
<1>3. CASE (\E h \in Handlers : JobsWorks(h)) \/ JobsChange
  <2>1. kind = "jobs" /\ UNCHANGED <<crawlVars, worldVars, storeVars>>
    BY <1>3 DEF JobsWorks, JobsChange
  <2>2. \A h \in Handlers : {pc[h], pc'[h]} \cap Working = {}
    BY <1>1, <1>2, <2>1 DEF worldVars, Working
  <2> QED BY <2>1, <2>2, SyncUntouched
<1>4. CASE \E h \in Handlers : SyncWorks(h)
  BY <1>1, <1>4, SyncHandlers DEF SyncWorks, Source, Sync
<1>5. CASE \E u \in Updates : Recovers(u)
  BY <1>5, SyncUntouched DEF Recovers, Source, Recover
<1>6. CASE SyncChange
  BY <1>1, <1>6, SyncWorldStep DEF SyncChange, Source, Sync
<1>7. CASE SiteWorks \/ SiteChange \/ PoolWorks \/ PoolChange
  BY <1>7, SyncUntouched DEF SiteWorks, SiteChange, PoolWorks, PoolChange, Elsewhere, queueVars
<1>8. CASE Quiescent \/ UNCHANGED workerVars
  BY <1>8, SyncUntouched DEF Quiescent, workerVars, queueVars
<1> QED BY <1>3, <1>4, <1>5, <1>6, <1>7, <1>8 DEF CrawlNext

-----------------------------------------------------------------------------
(* Crawls of web sites.                                                    *)

LEMMA LinksType == links \in Sites => links \in [Pages -> SUBSET Pages]
BY SiteAssumption

\* What is reachable contains the seed and what its pages link to,
LEMMA ReachableClosed ==
  ASSUME links \in Sites
  PROVE  /\ Reachable \subseteq Pages /\ Seed \in Reachable
         /\ \A p \in Reachable \ Pdfs : links[p] \subseteq Reachable
<1> DEFINE closed == {S \in SUBSET Pages : Seed \in S /\ \A p \in S \ Pdfs : links[p] \subseteq S}
<1>1. Reachable = {p \in Pages : \A S \in closed : p \in S}
  BY DEF Reachable
<1>2. Seed \in Reachable
  BY <1>1, SiteAssumption
<1>3. ASSUME NEW p \in Reachable \ Pdfs, NEW q \in links[p] PROVE q \in Reachable
  <2>1. q \in Pages
    BY <1>1, <1>3, LinksType
  <2>2. ASSUME NEW S \in closed PROVE q \in S
    BY <1>1, <1>3, <2>2
  <2> HIDE DEF closed
  <2> QED BY <1>1, <2>1, <2>2
<1> QED BY <1>1, <1>2, <1>3

\* and is in every set that does.
LEMMA ReachableLeast ==
  ASSUME NEW S \in SUBSET Pages, Seed \in S, \A p \in S \ Pdfs : links[p] \subseteq S
  PROVE  Reachable \subseteq S
BY DEF Reachable

LEMMA ReachableSame == UNCHANGED links => Reachable' = Reachable
BY DEF Reachable

LEMMA FetchingFinite == IsFiniteSet(Fetching) /\ Cardinality(Fetching) \in Nat
<1>1. IsFiniteSet(Fetching)
  BY SiteAssumption, FS_Subset DEF Fetching
<1> QED BY <1>1, FS_CardinalityType

\* A page is fetched, or no more: its room in the budget.
LEMMA FetchMore ==
  ASSUME NEW p, p \notin Fetching, Fetching' = Fetching \cup {p},
         reserved = MaxResponse * Cardinality(Fetching)
  PROVE  reserved + MaxResponse = MaxResponse * Cardinality(Fetching')
<1>1. Cardinality(Fetching') = Cardinality(Fetching) + 1
  BY FetchingFinite, FS_AddElement
<1> QED BY <1>1, FetchingFinite, SiteAssumption

LEMMA FetchLess ==
  ASSUME NEW p \in Fetching, Fetching' = Fetching \ {p},
         reserved = MaxResponse * Cardinality(Fetching)
  PROVE  /\ reserved - MaxResponse = MaxResponse * Cardinality(Fetching')
         /\ reserved - MaxResponse \in Nat
<1> DEFINE n == Cardinality(Fetching')
<1>1. IsFiniteSet(Fetching') /\ Cardinality(Fetching) = n + 1 /\ n \in Nat
  <2>1. IsFiniteSet(Fetching') /\ Cardinality(Fetching') = Cardinality(Fetching) - 1
    BY FetchingFinite, FS_RemoveElement, FS_Subset
  <2>2. Cardinality(Fetching') \in Nat
    BY <2>1, FS_CardinalityType
  <2> QED BY <2>1, <2>2, FetchingFinite
<1> HIDE DEF n
<1>2. MaxResponse * (n + 1) = MaxResponse * n + MaxResponse /\ MaxResponse * n \in Nat
  BY <1>1, SiteAssumption
<1> QED BY <1>1, <1>2, SiteAssumption DEF n

\* As long as a handler runs the crawl has not ended.
LEMMA Busy ==
  ASSUME SiteInv, NEW p \in Pages, visit[p] \in Running
  PROVE  crawled = "none"
BY DEF SiteInv, PagesInv, InHandler

\* A page takes its next step while the crawl goes on: what has to be shown.
LEMMA VisitDone ==
  ASSUME SiteInv, crawled = "none", UNCHANGED <<links, crawled>>,
         SiteTypeOK', HandledInv', ExtractInv', BudgetInv',
         Seed \in enqueued' /\ enqueued' \subseteq Reachable,
         pending' = {p \in enqueued' : visit'[p] = "no"},
         \A p \in Pages : visit'[p] # "no" => p \in enqueued'
  PROVE  SiteInv'
<1>1. Reachable' = Reachable
  BY ReachableSame
<1>2. PagesInv'
  BY <1>1 DEF PagesInv
<1>3. WholeOrNothing'
  BY DEF WholeOrNothing
<1> QED BY <1>2, <1>3 DEF SiteInv

LEMMA StartPageStep ==
  ASSUME SiteInv, NEW p \in Pages, StartPage(p)
  PROVE  SiteInv'
<1>1. /\ SiteTypeOK /\ PagesInv /\ HandledInv /\ ExtractInv /\ BudgetInv
      /\ p \in pending /\ ~stopped /\ crawled = "none" /\ visit[p] = "no"
      /\ pending' = pending \ {p}
      /\ UNCHANGED <<links, enqueued, pdfQueue, consumed, documents, over, crawled>>
  BY DEF SiteInv, StartPage, PagesInv
<1>2. \/ /\ Reserve /\ visit' = [visit EXCEPT ![p] = "fetch"]
         /\ reserved' = reserved + MaxResponse /\ UNCHANGED <<failed, stopped>>
      \/ /\ visit' = [visit EXCEPT ![p] = "handled"] /\ failed' = TRUE /\ stopped' = TRUE
         /\ UNCHANGED reserved
  BY DEF StartPage, Moves, HandlerThrows
<1>3. /\ \A q \in Pages \ {p} : visit'[q] = visit[q]
      /\ visit'[p] \in {"fetch", "handled"}
      /\ visit' \in [Pages -> Running \cup {"no", "handled"}]
  BY <1>1, <1>2 DEF SiteTypeOK, Running
<1>4. SiteTypeOK'
  <2>1. reserved' \in Nat
    BY <1>1, <1>2, SiteAssumption DEF SiteTypeOK
  <2>2. failed' \in BOOLEAN /\ stopped' \in BOOLEAN
    BY <1>1, <1>2, Zenon DEF SiteTypeOK
  <2> QED BY <1>1, <1>3, <2>1, <2>2 DEF SiteTypeOK
<1>5. HandledInv'
  <2>1. CASE visit'[p] = "fetch"
    <3>1. Handled' = Handled /\ UNCHANGED <<failed, stopped>>
      BY <1>1, <1>2, <1>3, <2>1 DEF Handled, SiteTypeOK
    <3> QED BY <1>1, <3>1 DEF HandledInv
  <2>2. CASE visit'[p] = "handled"
    <3>1. Handled \subseteq Handled' /\ failed'
      BY <1>1, <1>2, <1>3, <2>2 DEF Handled, SiteTypeOK
    <3> QED BY <1>1, <3>1 DEF HandledInv
  <2> QED BY <1>3, <2>1, <2>2
<1>6. ExtractInv'
  BY <1>1, <1>3 DEF ExtractInv
<1>7. BudgetInv'
  <2>1. CASE visit'[p] = "fetch"
    <3>1. Reserve /\ reserved' = reserved + MaxResponse
      BY <1>1, <1>2, <2>1 DEF SiteTypeOK
    <3>2. p \notin Fetching /\ Fetching' = Fetching \cup {p}
      BY <1>1, <1>3, <2>1 DEF Fetching
    <3>3. reserved' = MaxResponse * Cardinality(Fetching')
      BY <1>1, <3>1, <3>2, FetchMore DEF BudgetInv
    <3>4. BudgetKept'
      BY <1>1, <3>1, SiteAssumption DEF BudgetKept, Reserve, SiteTypeOK
    <3> QED BY <3>3, <3>4 DEF BudgetInv
  <2>2. CASE visit'[p] = "handled"
    <3>1. UNCHANGED reserved
      BY <1>1, <1>2, <2>2 DEF SiteTypeOK
    <3>2. Fetching' = Fetching
      BY <1>1, <1>3, <2>2 DEF Fetching
    <3> QED BY <1>1, <3>1, <3>2 DEF BudgetInv, BudgetKept
  <2> QED BY <1>3, <2>1, <2>2
<1>8. /\ Seed \in enqueued' /\ enqueued' \subseteq Reachable
      /\ pending' = {q \in enqueued' : visit'[q] = "no"}
      /\ \A q \in Pages : visit'[q] # "no" => q \in enqueued'
  BY <1>1, <1>3 DEF PagesInv, SiteTypeOK
<1> QED BY <1>1, <1>4, <1>5, <1>6, <1>7, <1>8, VisitDone

\* Links are followed once.
LEMMA AddUrlsFacts ==
  ASSUME PagesInv, SiteTypeOK, NEW p \in Pages, visit[p] \in Running, p \notin Pdfs,
         AddUrls(links[p]), visit' = [visit EXCEPT ![p] = "handled"]
  PROVE  /\ enqueued' \subseteq Pages /\ pending' \subseteq Pages
         /\ enqueued \subseteq enqueued' /\ links[p] \subseteq enqueued'
         /\ Seed \in enqueued' /\ enqueued' \subseteq Reachable
         /\ pending' = {q \in enqueued' : visit'[q] = "no"}
         /\ \A q \in Pages : visit'[q] # "no" => q \in enqueued'
<1>1. links[p] \subseteq Pages
  BY LinksType DEF SiteTypeOK
<1>2. p \in enqueued /\ visit[p] # "no"
  BY DEF PagesInv, Running
<1>3. links[p] \subseteq Reachable
  BY <1>2, ReachableClosed DEF PagesInv, SiteTypeOK
<1>4. enqueued' = enqueued \cup links[p] /\ pending' = pending \cup (links[p] \ enqueued)
  BY DEF AddUrls
<1>5. \A q \in Pages : visit'[q] = IF q = p THEN "handled" ELSE visit[q]
  BY DEF SiteTypeOK
<1>6. pending' = {q \in enqueued' : visit'[q] = "no"}
  <2>1. ASSUME NEW q \in Pages PROVE q \in pending' <=> q \in enqueued' /\ visit'[q] = "no"
    BY <1>2, <1>4, <1>5, <2>1 DEF PagesInv
  <2>2. pending' \subseteq Pages /\ enqueued' \subseteq Pages
    BY <1>1, <1>4 DEF SiteTypeOK
  <2> QED BY <2>1, <2>2
<1> QED BY <1>1, <1>2, <1>3, <1>4, <1>5, <1>6 DEF PagesInv, SiteTypeOK

\* No links are followed.
LEMMA NoUrlsFacts ==
  ASSUME PagesInv, SiteTypeOK, NEW p \in Pages, visit[p] \in Running, UNCHANGED <<enqueued, pending>>,
         NEW stage, stage # "no", visit' = [visit EXCEPT ![p] = stage]
  PROVE  /\ Seed \in enqueued' /\ enqueued' \subseteq Reachable
         /\ pending' = {q \in enqueued' : visit'[q] = "no"}
         /\ \A q \in Pages : visit'[q] # "no" => q \in enqueued'
<1>1. \A q \in Pages : visit'[q] = IF q = p THEN stage ELSE visit[q]
  BY DEF SiteTypeOK
<1>2. visit[p] # "no"
  BY DEF Running
<1>3. enqueued \subseteq Pages
  BY DEF SiteTypeOK
<1> QED BY <1>1, <1>2, <1>3 DEF PagesInv

\* A response has been read: at most what was reserved for it.
LEMMA RespondBudget ==
  ASSUME SiteTypeOK, BudgetInv, NEW p \in Pages, visit[p] = "fetch",
         reserved' = reserved - MaxResponse,
         consumed' = consumed + SizeOf[p] \/ consumed' = consumed,
         NEW stage, stage # "fetch", visit' = [visit EXCEPT ![p] = stage]
  PROVE  BudgetInv' /\ reserved' \in Nat /\ consumed' \in Nat
<1>1. p \in Fetching /\ Fetching' = Fetching \ {p}
  BY DEF Fetching, SiteTypeOK
<1>2. reserved' = MaxResponse * Cardinality(Fetching') /\ reserved' \in Nat
  BY <1>1, FetchLess DEF BudgetInv
<1>3. SizeOf[p] \in 0..MaxResponse /\ MaxResponse \in Nat /\ MaxTotal \in Nat
  BY SiteAssumption
<1>4. consumed' \in Nat /\ consumed' + reserved' <= consumed + reserved
  BY <1>3 DEF SiteTypeOK
<1>5. BudgetKept'
  BY <1>2, <1>3, <1>4 DEF BudgetKept, BudgetInv, SiteTypeOK
<1> QED BY <1>2, <1>4, <1>5 DEF BudgetInv

\* The budget when nothing is read.
LEMMA OtherBudget ==
  ASSUME SiteTypeOK, BudgetInv, NEW p \in Pages, visit[p] # "fetch", UNCHANGED <<reserved, consumed>>,
         NEW stage, stage # "fetch", visit' = [visit EXCEPT ![p] = stage]
  PROVE  BudgetInv'
<1>1. Fetching' = Fetching
  BY DEF Fetching, SiteTypeOK
<1> QED BY <1>1 DEF BudgetInv, BudgetKept

\* A page fails and the crawl with it.
LEMMA FailedInv ==
  ASSUME SiteTypeOK, HandledInv, NEW p \in Pages, visit' = [visit EXCEPT ![p] = "handled"],
         failed' = TRUE, UNCHANGED <<documents, over>>
  PROVE  HandledInv'
<1>1. Handled \subseteq Handled'
  BY DEF Handled, SiteTypeOK
<1> QED BY <1>1 DEF HandledInv

LEMMA RespondStep ==
  ASSUME SiteInv, NEW p \in Pages, Respond(p)
  PROVE  SiteInv'
<1>1. /\ SiteTypeOK /\ PagesInv /\ HandledInv /\ ExtractInv /\ BudgetInv
      /\ visit[p] = "fetch" /\ visit[p] \in Running /\ crawled = "none"
      /\ UNCHANGED <<links, documents, failed, stopped, over, crawled>>
      /\ reserved' = reserved - MaxResponse /\ consumed' = consumed + SizeOf[p]
  BY Busy DEF SiteInv, Respond, Running
<1>2. CASE p \in Sitemaps /\ AddUrls(links[p]) /\ Moves(p, "handled") /\ UNCHANGED pdfQueue
  <2>1. p \notin Pdfs /\ visit' = [visit EXCEPT ![p] = "handled"]
    BY <1>2, SiteAssumption DEF Moves
  <2>2. BudgetInv' /\ reserved' \in Nat /\ consumed' \in Nat
    BY <1>1, <2>1, RespondBudget
  <2>3. /\ enqueued' \subseteq Pages /\ pending' \subseteq Pages
        /\ enqueued \subseteq enqueued' /\ links[p] \subseteq enqueued'
        /\ Seed \in enqueued' /\ enqueued' \subseteq Reachable
        /\ pending' = {q \in enqueued' : visit'[q] = "no"}
        /\ \A q \in Pages : visit'[q] # "no" => q \in enqueued'
    BY <1>1, <1>2, <2>1, AddUrlsFacts
  <2>4. SiteTypeOK'
    BY <1>1, <1>2, <2>1, <2>2, <2>3 DEF SiteTypeOK, Running
  <2>5. HandledInv'
    <3>1. Handled' = Handled \cup {p} /\ p \notin Handled
      BY <1>1, <2>1 DEF Handled, SiteTypeOK
    <3> QED BY <1>1, <1>2, <2>3, <3>1 DEF HandledInv
  <2>6. ExtractInv'
    BY <1>1, <1>2, <2>1 DEF ExtractInv, SiteTypeOK
  <2> QED BY <1>1, <2>2, <2>3, <2>4, <2>5, <2>6, VisitDone
<1>3. CASE p \in Pdfs /\ pdfQueue' = Append(pdfQueue, p) /\ Moves(p, "pdf") /\ NoUrls
  <2>1. visit' = [visit EXCEPT ![p] = "pdf"] /\ UNCHANGED <<enqueued, pending>>
    BY <1>3 DEF Moves, NoUrls
  <2>2. BudgetInv' /\ reserved' \in Nat /\ consumed' \in Nat
    BY <1>1, <2>1, RespondBudget
  <2>3. /\ Seed \in enqueued' /\ enqueued' \subseteq Reachable
        /\ pending' = {q \in enqueued' : visit'[q] = "no"}
        /\ \A q \in Pages : visit'[q] # "no" => q \in enqueued'
    BY <1>1, <2>1, NoUrlsFacts
  <2>4. SiteTypeOK'
    BY <1>1, <1>3, <2>1, <2>2 DEF SiteTypeOK, Running
  <2>5. HandledInv'
    <3>1. Handled' = Handled
      BY <1>1, <2>1 DEF Handled, SiteTypeOK
    <3> QED BY <1>1, <2>1, <3>1 DEF HandledInv
  <2>6. ExtractInv'
    <3> SUFFICES ASSUME NEW q \in Pages
                 PROVE  /\ visit'[q] = "extract" => q \notin Sitemaps \cup Pdfs
                        /\ visit'[q] = "pdf" =>
                             q \in Pdfs /\ \E i \in 1..Len(pdfQueue') : pdfQueue'[i] = q
      BY DEF ExtractInv
    <3>1. /\ Len(pdfQueue) \in Nat /\ Len(pdfQueue') = Len(pdfQueue) + 1
          /\ pdfQueue'[Len(pdfQueue')] = p
          /\ \A i \in 1..Len(pdfQueue) : pdfQueue'[i] = pdfQueue[i]
      BY <1>1, <1>3 DEF SiteTypeOK
    <3>2. CASE q = p
      BY <1>1, <1>3, <2>1, <3>1, <3>2 DEF SiteTypeOK
    <3>3. CASE q # p
      <4>1. visit'[q] = visit[q]
        BY <1>1, <2>1, <3>3 DEF SiteTypeOK
      <4>2. 1..Len(pdfQueue) \subseteq 1..Len(pdfQueue')
        BY <3>1
      <4> QED BY <1>1, <3>1, <4>1, <4>2 DEF ExtractInv
    <3> QED BY <3>2, <3>3
  <2> QED BY <1>1, <2>2, <2>3, <2>4, <2>5, <2>6, VisitDone
<1>4. CASE p \notin Sitemaps \cup Pdfs /\ Moves(p, "extract") /\ NoUrls /\ UNCHANGED pdfQueue
  <2>1. visit' = [visit EXCEPT ![p] = "extract"] /\ UNCHANGED <<enqueued, pending>>
    BY <1>4 DEF Moves, NoUrls
  <2>2. BudgetInv' /\ reserved' \in Nat /\ consumed' \in Nat
    BY <1>1, <2>1, RespondBudget
  <2>3. /\ Seed \in enqueued' /\ enqueued' \subseteq Reachable
        /\ pending' = {q \in enqueued' : visit'[q] = "no"}
        /\ \A q \in Pages : visit'[q] # "no" => q \in enqueued'
    BY <1>1, <2>1, NoUrlsFacts
  <2>4. SiteTypeOK'
    BY <1>1, <1>4, <2>1, <2>2 DEF SiteTypeOK, Running
  <2>5. HandledInv'
    <3>1. Handled' = Handled
      BY <1>1, <2>1 DEF Handled, SiteTypeOK
    <3> QED BY <1>1, <2>1, <3>1 DEF HandledInv
  <2>6. ExtractInv'
    BY <1>1, <1>4, <2>1 DEF ExtractInv, SiteTypeOK
  <2> QED BY <1>1, <2>2, <2>3, <2>4, <2>5, <2>6, VisitDone
<1> QED BY <1>2, <1>3, <1>4 DEF Respond

LEMMA FetchFailsStep ==
  ASSUME SiteInv, NEW p \in Pages, FetchFails(p)
  PROVE  SiteInv'
<1>1. /\ SiteTypeOK /\ PagesInv /\ HandledInv /\ ExtractInv /\ BudgetInv
      /\ visit[p] = "fetch" /\ visit[p] \in Running /\ crawled = "none"
      /\ UNCHANGED <<links, enqueued, pending, pdfQueue, consumed, documents, over, crawled>>
      /\ reserved' = reserved - MaxResponse
      /\ visit' = [visit EXCEPT ![p] = "handled"] /\ failed' = TRUE /\ stopped' = TRUE
  BY Busy DEF SiteInv, FetchFails, Running, HandlerThrows, Moves
<1>2. BudgetInv' /\ reserved' \in Nat
  BY <1>1, RespondBudget
<1>3. /\ Seed \in enqueued' /\ enqueued' \subseteq Reachable
      /\ pending' = {q \in enqueued' : visit'[q] = "no"}
      /\ \A q \in Pages : visit'[q] # "no" => q \in enqueued'
  BY <1>1, NoUrlsFacts
<1>4. SiteTypeOK'
  BY <1>1, <1>2 DEF SiteTypeOK, Running
<1>5. HandledInv'
  BY <1>1, FailedInv
<1>6. ExtractInv'
  BY <1>1 DEF ExtractInv, SiteTypeOK
<1> QED BY <1>1, <1>2, <1>3, <1>4, <1>5, <1>6, VisitDone

\* A page leaves the queue when it is its turn, the others stay.
LEMMA LeaveInv ==
  ASSUME SiteTypeOK, ExtractInv, NEW p \in Pages, visit[p] \in {"extract", "pdf"},
         Turn(p), LeaveQueue(p), visit' = [visit EXCEPT ![p] = "handled"]
  PROVE  ExtractInv' /\ pdfQueue' \in Seq(Pdfs)
<1>1. \A q \in Pages : visit'[q] = IF q = p THEN "handled" ELSE visit[q]
  BY DEF SiteTypeOK
<1>2. CASE visit[p] = "extract"
  BY <1>1, <1>2 DEF LeaveQueue, ExtractInv, SiteTypeOK
<1>3. CASE visit[p] = "pdf"
  <2>1. /\ pdfQueue \in Seq(Pdfs) /\ Len(pdfQueue) \in Nat /\ pdfQueue # <<>>
        /\ pdfQueue[1] = p /\ pdfQueue' = Tail(pdfQueue)
    BY <1>3 DEF ExtractInv, SiteTypeOK, Turn, LeaveQueue
  <2>2. /\ pdfQueue' \in Seq(Pdfs) /\ Len(pdfQueue') = Len(pdfQueue) - 1
        /\ \A i \in 1..Len(pdfQueue') : pdfQueue'[i] = pdfQueue[i + 1]
    BY <2>1
  <2>3. ASSUME NEW q \in Pages, q # p, visit[q] = "pdf"
        PROVE  \E i \in 1..Len(pdfQueue') : pdfQueue'[i] = q
    <3>1. PICK j \in 1..Len(pdfQueue) : pdfQueue[j] = q
      BY <2>3 DEF ExtractInv
    <3>2. j # 1
      BY <2>1, <2>3, <3>1
    <3>3. j - 1 \in 1..Len(pdfQueue') /\ pdfQueue'[j - 1] = q
      BY <2>1, <2>2, <3>1, <3>2
    <3> QED BY <3>3
  <2> QED BY <1>1, <2>2, <2>3 DEF ExtractInv
<1> QED BY <1>2, <1>3

LEMMA ExtractStep ==
  ASSUME SiteInv, NEW p \in Pages, Extract(p)
  PROVE  SiteInv'
<1>1. /\ SiteTypeOK /\ PagesInv /\ HandledInv /\ ExtractInv /\ BudgetInv
      /\ visit[p] \in {"extract", "pdf"} /\ visit[p] \in Running /\ crawled = "none"
      /\ Turn(p) /\ LeaveQueue(p)
      /\ UNCHANGED <<links, reserved, consumed, failed, stopped, over, crawled>>
      /\ documents' = documents \cup {p} /\ visit' = [visit EXCEPT ![p] = "handled"]
  BY Busy DEF SiteInv, Extract, Running, Moves
<1>2. BudgetInv'
  BY <1>1, OtherBudget
<1>3. ExtractInv' /\ pdfQueue' \in Seq(Pdfs)
  BY <1>1, LeaveInv
<1>4. p \notin Sitemaps
  BY <1>1, SiteAssumption DEF ExtractInv
<1>5. Handled' = Handled \cup {p}
  BY <1>1 DEF Handled, SiteTypeOK
<1>6. CASE visit[p] = "extract"
  <2>1. p \notin Pdfs /\ AddUrls(links[p])
    BY <1>1, <1>6 DEF ExtractInv, Extract
  <2>2. /\ enqueued' \subseteq Pages /\ pending' \subseteq Pages
        /\ enqueued \subseteq enqueued' /\ links[p] \subseteq enqueued'
        /\ Seed \in enqueued' /\ enqueued' \subseteq Reachable
        /\ pending' = {q \in enqueued' : visit'[q] = "no"}
        /\ \A q \in Pages : visit'[q] # "no" => q \in enqueued'
    BY <1>1, <2>1, AddUrlsFacts
  <2>3. SiteTypeOK'
    BY <1>1, <1>3, <2>2 DEF SiteTypeOK, Running
  <2>4. HandledInv'
    BY <1>1, <1>4, <1>5, <2>2 DEF HandledInv
  <2> QED BY <1>1, <1>2, <1>3, <2>2, <2>3, <2>4, VisitDone
<1>7. CASE visit[p] = "pdf"
  <2>1. p \in Pdfs /\ UNCHANGED <<enqueued, pending>>
    BY <1>1, <1>7 DEF ExtractInv, Extract, NoUrls
  <2>2. /\ Seed \in enqueued' /\ enqueued' \subseteq Reachable
        /\ pending' = {q \in enqueued' : visit'[q] = "no"}
        /\ \A q \in Pages : visit'[q] # "no" => q \in enqueued'
    BY <1>1, <2>1, NoUrlsFacts
  <2>3. SiteTypeOK'
    BY <1>1, <1>3, <2>1 DEF SiteTypeOK, Running
  <2>4. HandledInv'
    BY <1>1, <1>4, <1>5, <2>1 DEF HandledInv
  <2> QED BY <1>1, <1>2, <1>3, <2>2, <2>3, <2>4, VisitDone
<1> QED BY <1>1, <1>6, <1>7

LEMMA ExtractFailsStep ==
  ASSUME SiteInv, NEW p \in Pages, ExtractFails(p)
  PROVE  SiteInv'
<1>1. /\ SiteTypeOK /\ PagesInv /\ HandledInv /\ ExtractInv /\ BudgetInv
      /\ visit[p] \in {"extract", "pdf"} /\ visit[p] \in Running /\ crawled = "none"
      /\ Turn(p) /\ LeaveQueue(p)
      /\ UNCHANGED <<links, enqueued, pending, reserved, consumed, documents, over, crawled>>
      /\ visit' = [visit EXCEPT ![p] = "handled"] /\ failed' = TRUE /\ stopped' = TRUE
  BY Busy DEF SiteInv, ExtractFails, Running, HandlerThrows, Moves
<1>2. BudgetInv'
  BY <1>1, OtherBudget
<1>3. ExtractInv' /\ pdfQueue' \in Seq(Pdfs)
  BY <1>1, LeaveInv
<1>4. /\ Seed \in enqueued' /\ enqueued' \subseteq Reachable
      /\ pending' = {q \in enqueued' : visit'[q] = "no"}
      /\ \A q \in Pages : visit'[q] # "no" => q \in enqueued'
  BY <1>1, NoUrlsFacts
<1>5. SiteTypeOK'
  BY <1>1, <1>3 DEF SiteTypeOK, Running
<1>6. HandledInv'
  BY <1>1, FailedInv
<1> QED BY <1>1, <1>2, <1>3, <1>4, <1>5, <1>6, VisitDone

LEMMA CrawlAbortsStep == SiteInv /\ CrawlAborts => SiteInv'
<1> SUFFICES ASSUME SiteInv, CrawlAborts PROVE SiteInv'
  OBVIOUS
<1>1. /\ SiteTypeOK /\ PagesInv /\ HandledInv /\ ExtractInv /\ BudgetInv /\ crawled = "none"
      /\ UNCHANGED <<links, enqueued, pending, visit, pdfQueue, reserved, consumed, documents,
                     failed, crawled>>
      /\ over' = TRUE /\ stopped' = TRUE
  BY DEF SiteInv, CrawlAborts
<1>2. SiteTypeOK'
  BY <1>1 DEF SiteTypeOK
<1>3. HandledInv'
  BY <1>1 DEF HandledInv, Handled
<1>4. ExtractInv' /\ BudgetInv'
  BY <1>1 DEF ExtractInv, BudgetInv, BudgetKept, Fetching
<1> QED BY <1>1, <1>2, <1>3, <1>4, VisitDone DEF PagesInv

\* A crawl ends without failure when it has been everywhere.
LEMMA CrawlEndsStep == SiteInv /\ CrawlEnds => SiteInv'
<1> SUFFICES ASSUME SiteInv, CrawlEnds PROVE SiteInv'
  OBVIOUS
<1>1. /\ SiteTypeOK /\ PagesInv /\ HandledInv /\ ExtractInv /\ BudgetInv
      /\ crawled = "none" /\ InHandler = {}
      /\ pending # {} => stopped \/ Cardinality(Handled) >= MaxRequests
      /\ crawled' = IF failed \/ over THEN "threw" ELSE "returned"
      /\ UNCHANGED <<links, enqueued, pending, visit, pdfQueue, reserved, consumed, documents,
                     failed, stopped, over>>
  BY DEF SiteInv, CrawlEnds
<1>2. SiteTypeOK'
  BY <1>1 DEF SiteTypeOK
<1>3. HandledInv' /\ ExtractInv' /\ BudgetInv'
  BY <1>1 DEF HandledInv, Handled, ExtractInv, BudgetInv, BudgetKept, Fetching
<1>4. Reachable' = Reachable
  BY <1>1, ReachableSame
<1>5. PagesInv'
  BY <1>1, <1>4 DEF PagesInv, InHandler
<1>6. WholeOrNothing'
  <2> SUFFICES ASSUME ~failed, ~over, Cardinality(Reachable) <= MaxRequests
               PROVE  documents = Reachable \ Sitemaps
    BY <1>1, <1>4 DEF WholeOrNothing
  <2>1. ~stopped
    BY <1>1 DEF HandledInv
  <2>2. Handled \subseteq enqueued /\ enqueued \subseteq Reachable /\ Reachable \subseteq Pages
    BY <1>1, ReachableClosed DEF PagesInv, Handled, SiteTypeOK
  <2>3. pending = {}
    \* Otherwise as many pages as a crawl may have are handled, and one is not.
    <3> SUFFICES ASSUME pending # {} PROVE FALSE
      OBVIOUS
    <3>1. PICK p \in pending : p \in Reachable /\ p \notin Handled
      BY <1>1, <2>2 DEF PagesInv, Handled
    <3>2. IsFiniteSet(Reachable)
      BY <2>2, SiteAssumption, FS_Subset
    <3>3. /\ Cardinality(Handled) \in Nat /\ Cardinality(Reachable) \in Nat
          /\ Cardinality(Handled) >= MaxRequests
      BY <1>1, <2>1, <2>2, <3>2, FS_Subset, FS_CardinalityType
    <3>4. /\ Cardinality(Handled) <= Cardinality(Reachable)
          /\ Cardinality(Handled) = Cardinality(Reachable) => Handled = Reachable
      BY <2>2, <3>2, FS_Subset, Zenon
    <3> QED BY <3>1, <3>3, <3>4, SiteAssumption
  <2>4. enqueued = Handled
    <3>1. ASSUME NEW q \in enqueued PROVE q \in Handled
      <4>1. q \in Pages /\ visit[q] # "no" /\ visit[q] \notin Running
        BY <1>1, <2>3, <3>1 DEF PagesInv, SiteTypeOK, InHandler
      <4> QED BY <1>1, <4>1 DEF SiteTypeOK, Handled
    <3> QED BY <2>2, <3>1
  <2>5. Reachable \subseteq Handled
    <3>1. Seed \in Handled /\ \A p \in Handled \ Pdfs : links[p] \subseteq Handled
      BY <1>1, <2>4 DEF PagesInv, HandledInv
    <3> QED BY <2>2, <3>1, ReachableLeast
  <2> QED BY <1>1, <2>2, <2>5 DEF HandledInv
<1> QED BY <1>2, <1>3, <1>5, <1>6 DEF SiteInv

LEMMA SiteUntouched == SiteInv /\ UNCHANGED siteVars => SiteInv'
<1> SUFFICES ASSUME SiteInv, UNCHANGED siteVars PROVE SiteInv'
  OBVIOUS
<1> USE DEF SiteInv, siteVars
<1>1. SiteTypeOK'
  BY DEF SiteTypeOK
<1>2. Reachable' = Reachable
  BY ReachableSame
<1>3. PagesInv' /\ HandledInv'
  BY <1>2 DEF PagesInv, HandledInv, InHandler, Handled
<1>4. ExtractInv' /\ BudgetInv' /\ WholeOrNothing'
  BY <1>2 DEF ExtractInv, BudgetInv, BudgetKept, Fetching, WholeOrNothing
<1> QED BY <1>1, <1>3, <1>4

LEMMA SiteStepInv ==
  ASSUME SiteInv, [CrawlNext]_workerVars
  PROVE  SiteInv'
<1>1. CASE SiteStep
  BY <1>1, StartPageStep, RespondStep, ExtractStep, CrawlEndsStep DEF SiteStep
<1>2. CASE SiteWorld
  BY <1>2, FetchFailsStep, ExtractFailsStep, CrawlAbortsStep DEF SiteWorld
<1>3. CASE UNCHANGED siteVars
  BY <1>3, SiteUntouched
<1>4. SiteStep \/ SiteWorld \/ UNCHANGED siteVars
  BY SMT DEF CrawlNext, JobsWorks, SyncWorks, Recovers, JobsChange, SyncChange, Source, SiteWorks,
         SiteChange, PoolWorks, PoolChange, Quiescent, workerVars
<1> QED BY <1>1, <1>2, <1>3, <1>4

-----------------------------------------------------------------------------
(* The pool.                                                               *)

LEMMA PoolStepType ==
  ASSUME PoolTypeOK, [CrawlNext]_workerVars
  PROVE  PoolTypeOK'
<1>1. CASE PoolStep
  BY <1>1 DEF PoolStep, PoolTypeOK, Connects, GivesUp, Begins, Ends, LateArrives, Becomes
<1>2. CASE PoolWorld
  BY <1>2 DEF PoolWorld, PoolTypeOK, ConnectFails, Cancels, LateFails, Becomes
<1>3. CASE UNCHANGED poolVars
  BY <1>3 DEF PoolTypeOK, poolVars
<1>4. PoolStep \/ PoolWorld \/ UNCHANGED poolVars
  BY SMT DEF CrawlNext, JobsWorks, SyncWorks, Recovers, JobsChange, SyncChange, Source, SiteWorks,
         SiteChange, PoolWorks, PoolChange, Quiescent, workerVars
<1> QED BY <1>1, <1>2, <1>3, <1>4

-----------------------------------------------------------------------------
(* The knowledge worker.                                                   *)

LEMMA CrawlInitInv == CrawlInit => CrawlInv
<1> SUFFICES ASSUME CrawlInit PROVE CrawlInv
  OBVIOUS
<1> USE DEF CrawlInit
<1>1. kind \in Kinds
  BY DEF Kinds
<1>2. QueueInv
  <2>1. JobsTypeOK
    <3>1. job \in [Updates -> {"unsent", "created", "active", "retry", "completed", "failed", "dropped"}]
      OBVIOUS
    <3>2. /\ retries \in [Updates -> 0..RetryLimit] /\ attempt \in [Handlers -> 0..RetryLimit]
          /\ aborted \in [Handlers -> BOOLEAN] /\ on \in [Handlers -> Updates]
          /\ faults \in 0..MaxFaults /\ expired \in SUBSET Updates
      BY QueueAssumption, JobsAssumption DEF HandlersInit
    <3> QED BY <3>1, <3>2 DEF JobsTypeOK, JobsInit
  <2>2. StageInv /\ SoleInv
    BY DEF StageInv, SoleInv, HandlersInit, Stages
  <2>3. OrderInv
    <3>1. \A u \in Updates : job[u] \in {"created", "unsent"} /\ (job[u] = "created" => u = 1)
      OBVIOUS
    <3> QED BY <3>1, JobsAssumption DEF OrderInv
  <2>4. AskedInv
    BY DEF AskedInv, JobsInit
  <2> QED BY <2>1, <2>2, <2>3, <2>4 DEF QueueInv
<1>3. SyncInv
  <2> USE DEF SyncInit
  <2>1. SyncTypeOK
    <3>1. 0 \in 0..MaxClock /\ 0 \in Versions /\ 0 \in Deadlines /\ NoState \in State /\ 2 \in Times
          /\ 1 \in Versions
      BY ZeroType, SyncAssumption DEF Deadlines, Times, Versions
    <3>2. got \in [Handlers -> [Endpoints -> Versions]] /\ etags \in [Handlers -> [Endpoints -> Versions]]
      BY ZeroType
    <3> QED BY <3>1, <3>2 DEF SyncTypeOK
  <2>2. WorldInv
    <3>1. Keys \subseteq Endpoints /\ \A e \in Endpoints : KeyOf(e) \in Endpoints
      BY KeysFacts
    <3> QED BY <3>1 DEF WorldInv, StateIsTrue, NoState
  <2>3. Keys \subseteq Endpoints
    BY KeysFacts
  <2>4. ASSUME NEW h \in Handlers PROVE SeenInv(h) /\ GotInv(h) /\ DoneInv(h)
    <3>1. pc[h] = "idle" /\ started[h] = 0 /\ seen[h] = [e \in Endpoints |-> NoState]
          /\ got[h] = None /\ etags[h] = None
      BY DEF HandlersInit
    <3> QED BY <2>3, <3>1 DEF SeenInv, GotInv, DoneInv, Fetched, Working, None, NoState
  <2> QED BY <2>1, <2>2, <2>4 DEF SyncInv
<1>4. SiteInv
  <2> USE DEF SiteInit
  <2>1. SiteTypeOK
    <3>1. /\ links \in Sites
          /\ enqueued \subseteq Pages /\ pending \subseteq Pages /\ documents \subseteq Pages
      BY SiteAssumption
    <3>2. visit \in [Pages -> Running \cup {"no", "handled"}] /\ pdfQueue \in Seq(Pdfs)
      OBVIOUS
    <3> QED BY <3>1, <3>2 DEF SiteTypeOK
  <2>2. PagesInv
    BY ReachableClosed DEF PagesInv, InHandler
  <2>3. HandledInv /\ ExtractInv /\ WholeOrNothing
    BY DEF HandledInv, ExtractInv, Handled, WholeOrNothing
  <2>4. BudgetInv
    <3>1. Fetching = {}
      BY DEF Fetching
    <3> QED BY <3>1, FS_EmptySet, SiteAssumption DEF BudgetInv, BudgetKept
  <2> QED BY <2>1, <2>2, <2>3, <2>4 DEF SiteInv
<1>5. PoolTypeOK
  BY DEF PoolInit, PoolTypeOK
<1> QED BY <1>1, <1>2, <1>3, <1>4, <1>5 DEF CrawlInv

LEMMA KindStep == [CrawlNext]_workerVars => UNCHANGED kind
<1>1. \A h \in Handlers : SyncStep(h) => UNCHANGED kind
  BY DEF SyncStep, TakeJob, Look, FetchEndpoint, Defer, Recheck, Index, WriteChunks,
         CommitState, CallFails, worldVars
<1>2. SyncWorld => UNCHANGED kind
  BY DEF SyncWorld, Tick, Crash, PublishEndpoint, Expires, worldVars
<1> QED BY <1>1, <1>2 DEF CrawlNext, JobsWorks, SyncWorks, Recovers, JobsChange, SyncChange, Source,
         SiteWorks, SiteChange, PoolWorks, PoolChange, Elsewhere, Quiescent, workerVars, worldVars

LEMMA CrawlStepInv == CrawlInv /\ [CrawlNext]_workerVars => CrawlInv'
BY QueueStep, CrawlSyncStep, SiteStepInv, PoolStepType, KindStep DEF CrawlInv

\* What the knowledge worker keeps.
THEOREM CrawlInvariance == CrawlSpec => []CrawlInv
<1>1. CrawlInit => CrawlInv
  BY CrawlInitInv
<1>2. CrawlInv /\ [CrawlNext]_workerVars => CrawlInv'
  BY CrawlStepInv
<1> QED BY <1>1, <1>2, PTL DEF CrawlSpec

\* The variables of the worker have their types.
THEOREM CrawlTypeCorrect == CrawlSpec => []CrawlTypeOK
<1>1. CrawlInv => CrawlTypeOK
  <2> SUFFICES ASSUME CrawlInv PROVE CrawlTypeOK
    OBVIOUS
  <2>1. pc \in [Handlers -> Stages \cup {"start", "sync"}]
    BY DEF CrawlInv, QueueInv, StageInv, Stages
  <2> QED BY <2>1 DEF CrawlInv, QueueInv, SyncInv, SiteInv, CrawlTypeOK, Kinds
<1> QED BY <1>1, CrawlInvariance, PTL

\* A fetch state promises no more than the index holds, however crawls overlap
\* and wherever they fail: compare-and-set of what was read, and the states last.
THEOREM StateIsTrueThm == CrawlSpec => []StateIsTrue
<1>1. CrawlInv => StateIsTrue
  BY DEF CrawlInv, SyncInv, WorldInv
<1> QED BY <1>1, CrawlInvariance, PTL

\* The operator is told of the job that was in the way of the request, or of a
\* later one, whatever ended or was deleted in between.
THEOREM EnqueuedIsFreshThm == CrawlSpec => []EnqueuedIsFresh
<1>1. CrawlInv => EnqueuedIsFresh
  BY DEF CrawlInv, QueueInv, AskedInv, EnqueuedIsFresh
<1> QED BY <1>1, CrawlInvariance, PTL

\* A web site's crawl that returns has the whole site, for every structure of
\* links, and no crawl reads more than its budget.
THEOREM WholeWithinBudgetThm == CrawlSpec => []WholeWithinBudget
<1>1. CrawlInv => WholeWithinBudget
  BY DEF CrawlInv, SiteInv, BudgetInv, WholeWithinBudget
<1> QED BY <1>1, CrawlInvariance, PTL

\* A deferral is there until its time: only a crawl that has read a state
\* writes it, and one that has read a deferral does not get that far.
THEOREM DeferralKeptThm == CrawlSpec => DeferralKept
<1> DEFINE Kept == \A k \in Endpoints : state[k].retry > now => state'[k].retry >= state[k].retry
<1>1. CrawlInv /\ [CrawlNext]_workerVars => [Kept]_workerVars
  <2> SUFFICES ASSUME CrawlInv, CrawlNext PROVE Kept
    BY SMT DEF workerVars, storeVars
  <2>1. StoredOK /\ \A h \in Handlers : KnowsOK(h) /\ SeenInv(h) /\ DoneInv(h)
    BY KnowsType DEF CrawlInv, SyncInv
  <2>2. \A k \in Endpoints : state[k].retry \in Nat
    BY <2>1, StateFields DEF StoredOK
  <2>3. CASE UNCHANGED state
    BY <2>2, <2>3
  <2>4. ASSUME NEW h \in Handlers, NEW keys \in SUBSET Keys, Unchanged(h, keys), pc[h] \in Working,
               \A k \in Endpoints \ keys : state'[k] = state[k]
        PROVE  Kept
    <3> SUFFICES ASSUME NEW k \in keys, state[k].retry > now PROVE FALSE
      BY <2>2, <2>4
    <3>1. k \in Keys /\ k \in Endpoints
      BY KeysFacts
    <3>2. state[k].retry <= started[h] /\ started[h] <= now
      BY <2>1, <2>4, <3>1 DEF SeenInv, Unchanged
    <3>3. started[h] \in Nat /\ now \in Nat
      BY <2>1 DEF KnowsOK, StoredOK, Times
    <3> QED BY <2>2, <3>1, <3>2, <3>3
  <2>5. ASSUME NEW h \in Handlers, Defer(h) PROVE Kept
    <3>1. CASE UNCHANGED state
      BY <2>3, <3>1
    <3>2. CASE ~UNCHANGED state
      <4>1. PICK k \in todo[h] : /\ Unchanged(h, {k})
                                 /\ \E s : state' = [state EXCEPT ![k] = s]
        BY <2>5, <3>2 DEF Defer
      <4>2. pc[h] = "defer" /\ k \in Keys
        BY <2>1, <2>5 DEF Defer, DoneInv
      <4>3. \A d \in Endpoints \ {k} : state'[d] = state[d]
        BY <2>1, <4>1 DEF StoredOK
      <4> QED BY <2>4, <4>1, <4>2, <4>3 DEF Working
    <3> QED BY <3>1, <3>2
  <2>6. ASSUME NEW h \in Handlers, CommitState(h) PROVE Kept
    <3>1. CASE UNCHANGED state
      BY <2>3, <3>1
    <3>2. CASE ~UNCHANGED state
      <4>1. /\ pc[h] = "commit" /\ Unchanged(h, Keys)
            /\ state' = [e \in Endpoints |-> IF e \in Keys THEN Success(h, e) ELSE state[e]]
        BY <2>6, <3>2 DEF CommitState
      <4> QED BY <2>4, <4>1 DEF Working
    <3> QED BY <3>1, <3>2
  <2>7. \/ UNCHANGED state
        \/ \E h \in Handlers : Defer(h) \/ CommitState(h)
    <3>1. \A h \in Handlers : SyncStep(h) => UNCHANGED state \/ Defer(h) \/ CommitState(h)
      BY DEF SyncStep, TakeJob, Look, FetchEndpoint, Recheck, Index, WriteChunks, CallFails, storeVars
    <3>2. SyncWorld => UNCHANGED state
      BY DEF SyncWorld, Tick, Crash, PublishEndpoint, Expires, storeVars
    <3> QED BY <3>1, <3>2 DEF CrawlNext, JobsWorks, SyncWorks, Recovers, JobsChange, SyncChange,
             Source, SiteWorks, SiteChange, PoolWorks, PoolChange, Elsewhere, Quiescent, workerVars,
             storeVars
  <2> QED BY <2>3, <2>5, <2>6, <2>7
<1> QED BY <1>1, CrawlInvariance, PTL DEF CrawlSpec, DeferralKept
=============================================================================
