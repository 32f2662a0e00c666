# Verification of the vennek agent

This directory holds TLA+ models of the Cardano agent in `src/apps/telegram-bot`
and `src/packages`: how a Telegram update gets in, how its answer gets out
exactly as often as it should, how the shared knowledge base stays consistent
with the cache in front of it and the crawls behind it, and how each service keeps
what it holds (a slot, a connection, a body, a file) until its end and no longer.
Every definition is translated from the code; `PROJECT.json` maps each of them to
the lines it stands for.

## The system

Paths are relative to `src/apps/telegram-bot/src` (bot), `src/packages/cardano-agent/src` (agent)
and `src/packages/cardano-governance-skills/src` (skills).

| component | state | operations | talks to |
|---|---|---|---|
| webhook ingress (bot `webhookRuntime.ts`) | the body of each request | authenticate, read, parse, enqueue, answer 202 or an error | Telegram, admission |
| durable admission (bot `privateComparisonQueue.ts`, `agentQueue.ts`) | `telegram_updates`, `telegram_admission_windows`, queue rows | one transaction: claim, lock two windows, charge, send | PostgreSQL, pg-boss |
| polling ingress (bot `pollingRuntime.ts`, `runtimeState.ts`, `accessControl.ts`) | offset in memory and in a file, limiter, pending approval | poll, skip, rate limit, answer, enqueue, advance | Telegram, admission, answer pipeline |
| answer worker (bot `main.ts`, `agentWorker.ts`; agent `conversations.ts`) | users, conversation history, idempotency rows, update status | append, look up, write, append, send, mark | queue, Telegram, answer generation |
| answer generation (agent `answerQuestion.ts`, `renderAnswer.ts`) | the evidence and claims of one answer | retrieve, discover, complete, parse, verify, render | retrieval, promotion service, models |
| private comparison worker (bot `privateComparisonRuntime.ts`) | update status only | open, pre-mark, download, compare, deliver, apologise, mark | queue, Telegram, extractor |
| private comparison (agent `comparePrivateDocument.ts`) | the chunks, evidence and findings of one comparison | select chunks, retrieve, complete, verify, render | retrieval, models |
| file download (bot `pollingRuntime.ts`, `withTelegramFile`) | one buffer, one promise | receive, time out, abort, hand on, wipe | Telegram, extractor |
| extractor services (agent `privateDocumentServer.ts`, `pdfExtractorServer.ts` and their clients) | a slot, a parser thread, a poisoned flag | read body, run the thread, time out, terminate, exit | private worker, crawl |
| document parser (agent `privateDocumentWorker.ts`) | what is open: archive, PDF, page | decode, unzip, inspect, read pages, lay out, release | runs in the private extractor |
| model calls (agent `liteLlmClient.ts`, `embeddingClient.ts`, `readBoundedBody.ts`) | the response being read | send batches, read under bounds, accept, cancel | LiteLLM |
| retrieval (agent `retrieveEvidence.ts`, `retrievalCache.ts`) | `retrieval_cache` | snapshot, clean, query, write | PostgreSQL, embedder |
| indexing (agent `indexDocument.ts`, `knowledgeRepository.ts`) | `source_versions`, `knowledge_chunks`, `knowledge_sources`, `knowledge_revision` | store version, check chunks, replace chunks, ensure source | embedder, crawl |
| crawling (agent `crawlSource.ts`, `githubSource.ts`, `stackExchangeSource.ts`, `syncSource.ts`) | `fetch_state`; the pages and byte budget of one crawl | conditional fetch, defer, index, compare-and-set; follow links | the web, PDF extractor, indexing |
| connection pool (agent `knowledgeRepository.ts`) | connections lent | connect, give up, begin, release | PostgreSQL |
| knowledge worker (bot `knowledgeWorker.ts`) | schedules, an exclusive queue | schedule, enqueue and find, reconcile, sync | queue, crawling |
| promotion service (bot `knowledgePromotionServer.ts`, `…Client.ts`; agent `promotionAudit.ts`) | `knowledge_promotion_requests`, an `active` flag | claim, promote, complete, prune | answer worker, live discovery |
| live discovery (agent `liveDiscovery.ts`) | the links chosen for one request | search two tiers, match, fetch and index one by one | search engine, indexing |
| process lifecycle (bot `main.ts`) | the server, queue and pool of a process | start, wait, drain, stop, end | all of the above |
| governance skills (skills `fileStore.ts`, `userProvided.ts`, …) | an audit log and a directory of files | append and rotate, write, prune; fetch a public url; commands | the file system, the web |
| pure code (chunking, validation, prompts, encryption, wallet-secret detection, router, formatters, evaluation) | none | | |

What is hard here: webhook deliveries and workers run concurrently on one database;
an attempt of a job can outlive its expiry and run next to its successor, because the
queue only aborts a signal; Telegram redelivers, and a failed `sendMessage` may have
arrived; the offset lives in memory, in a file and at Telegram; readers fill
a cache while indexers change what is behind it; a parser thread that was told to
terminate may live on; a pool hands over a connection after its caller has gone; a promise has
many that want to settle it. The hazards are listed one by one, with the
properties that guard them, in `PROJECT.json`.

For each component correctness means:

* admission and webhook: one job per update, nothing acknowledged that is undecided, no charge lost
  or invented, never more than the limit per window, no deadlock, no unjustified rejection;
* workers: an update is stored once, answered once unless something died or expired, completed only
  when answered or refused, its status true, everything comes to rest;
* polling: no update is passed over undecided, none comes back, none is sent or charged twice;
* retrieval: a hit is what the query would return now; indexing: the latest indexed text wins;
* crawling: a fetch state is committed only after its documents and only over the state it was
  fetched from, a deferral stands, a site is indexed whole or not at all, within its budget;
* promotion and discovery: a signed request runs at most once, one at a time, what the audit says of it is
  true and final, and a page is stored only under the source it belongs to;
* extractors and download: one parser at a time, a slot is always freed, a failed download stays failed and wiped, and
  the user is told that the document is at fault only if it is;
* answers and comparisons: every number resolves to its evidence, only what was verified is said;
* model calls and fetches: each vector belongs to its text, a request goes only to an address that was
  looked at, bodies and listeners are released;
* processes and files: nothing is closed under those who still wait for it unless a timer has run out, the newest files and lines survive.

## Modules

| module | models | extends |
|---|---|---|
| `Admission` | `enqueuePgBossJob`, `admitUpdate` and the webhook's answer | |
| `IngressPromise` | abstract: each update is decided once, atomically, and acknowledged afterwards | |
| `JobQueue` | what the workers rely on of pg-boss (external) | |
| `AnswerJob` | a `telegram-answer` job from queue to chat | `JobQueue` |
| `PrivateComparison` | a `telegram-private-compare` job | `JobQueue` |
| `Polling` | `runPolling`, `deliverMessage`, the offset file, the limiter | |
| `Retrieval` | indexing and cached retrieval of one page and one question | |
| `Promotion` | the promotion server, its audit table and `promoteQuestionSources` | |
| `ExtractorCalls` | what both extractors share: requests, slot, threads, crash and restart | |
| `PrivateExtractor` | the private extractor and its client | `ExtractorCalls` |
| `FileDownload` | `withTelegramFile` with the extractor as its consumer | `PrivateExtractor` |
| `PdfExtractor` | the PDF extractor and its client | `ExtractorCalls` |
| `Extraction` | the composition: private calls behind downloads, or PDF calls | `FileDownload`, `PdfExtractor` |
| `SourceJobs` | the exclusive queue of a source's crawl jobs | `JobQueue` |
| `SourceSync` | a crawl of a GitHub or Stack Exchange source, to the commit of its state | `JobQueue` |
| `SiteCrawl` | `crawlSource` of a web site | |
| `ConnectionPool` | `acquireBoundedClient` and the transactions of `KnowledgeRepository` | |
| `Crawl` | the composition: the knowledge worker | the four above |
| `Evidence` | evidence, citations, rendering: what answers and comparisons share | |
| `GroundedAnswer` | `answerQuestion` | `Evidence` |
| `DocumentComparison` | `comparePrivateDocument` | `Evidence` |
| `ModelCalls` | `LiteLlmClient.complete`, `EmbeddingClient.embed`, `readBoundedBody` | |
| `WebhookRequest` | one request to the webhook server | |
| `Processes` | the modes of `main.ts` from start to exit | |
| `LiveSearch` | `promoteQuestionSources`, `promoteDiscoveredLink` | |
| `FileStore` | `persistCommandResult` | |
| `DocumentParser` | `extractPrivateDocument` | |
| `PublicFetch` | `fetchUserProvidedUrl` and the lookup it shares with the crawler | |
| `Services` | the composition of the nine parts that share no state | the nine above |
| `*Proofs` | theorems about the module of that name, `KnowledgeProofs` about `Retrieval` and `Crawl` | what they prove about, `TLAPS` |
| `MC*` | instances for TLC: who wrote what where, documents, sites, symmetry sets | the module of the same name |

`Promise == INSTANCE IngressPromise WITH fate <- updates, queued <- jobs` in `Admission` is the
refinement mapping of the admission transaction.

### Admission

A handler's `pc` goes `claim`, `clock`, `user`, `chat`, `admit`, then `send`, `accept` or
`reject`, and `ok` or `error`; each of these is one statement of the transaction, at which
others may interleave or a fault may strike. `locks` holds the unique key of an
uncommitted claim and the window rows locked `FOR UPDATE`; both block others until
COMMIT or ROLLBACK. What a transaction writes is published by `PublishAccepted` and
`PublishRejected` at its commit only, as READ COMMITTED makes it. The clock is
`clock_timestamp()` and moves on while a handler waits for locks. `charges` is a history
variable. Left out: parsing (see `WebhookRequest`), the wallet-secret screen and encryption before the
transaction.

### JobQueue, AnswerJob, PrivateComparison

`job` is the state of the queue's row, `retries` its retry count. `Outlive` aborts the signal
of a running handler and requeues its job; the handler runs on with `aborted` set, and
its return or throw no longer matters. `Die` is a crash of the worker process; `Recover`
is the queue's expiry monitor. `Drop` is the end of a job's retention and is taken for private jobs
only, which have one of five minutes.

`AnswerJob` follows an attempt through `append` (user), `find` (assistant), `write`, `record`,
`send` and `mark`. A secret only gets a fixed warning. `first` and `stored` are the two rows
of `conversation_message_idempotency`. A transaction whose reply is lost counts as a failure
after its effect (`AppendUserFails`, `RecordAnswerFails`). Answers differ by the attempt that wrote
them. A permanent refusal, a repeatable failure and the last one are the disjuncts of `SendFails`.
Left out: what is in an answer (see `GroundedAnswer`), usage records.

`PrivateComparison` follows `open`, `premark`, `download`, `compare`, `deliver`, `apologise`, `mark`, `end`.
`verdict` is what is marked and how the handler ends. Only `TellFails` with a permanent status, and
`WorkIsTerminal`, end a job without success.

### Polling

A batch is the interval `next..last`; `Advance` is `offset = max(offset, updateId + 1)` with
`writeTelegramOffset`, whose failure ends the batch with the offset advanced in memory only. `Stop`
is SIGTERM, seen at the next await; `Crash` loses all but the file. The limiter and the pending
approval are per process. `decided`, `sent`, `charged` and `unsure` are history. In polling, an update's
answer goes through `createAgentAnswer`, which is `AnswerJob`'s subject; here it returns or throws.

### Retrieval

One page of one source and one cacheable question are enough for the interplay: versions are
identified by their content, `chunks` remembers the revision that wrote them (new ids each
time), and `Retrieved` is what `RETRIEVAL_SQL` finds now. The snapshot of a reader is
atomic (`REPEATABLE READ`); deletion of a stale row, query, comparison of the revision and write of
the row are separate steps. `Observe` records what retrieval would have found during a call. An
edition of the page stands for the time at which it was retrieved. Left out: ranking, filters,
expiry beyond "any row may have expired", and the deadline beyond "any call may end".

### Promotion

A request is a value with an id, a nonce and a timestamp; it may arrive at any moment at which it is fresh,
and as often as it likes. A handler goes through `claim` (INSERT), `look` (SELECT after a conflict), `claimed`
(the synchronous stretch from the claim to the next await: prune, body, slot), `discover`, `promote`,
`finish`, and `recover` for the catch; `busy` and `invalid` complete without the slot. `Claimed` says that a handler is past its claim. `gone` is the signal of
a client that hung up or of the 45 seconds. The outcome of an UPDATE whose reply is lost is in doubt, so
`CompleteThrows` may leave it done or not. The clock does not pass the retention of a row while its handler works: a handler
has 45 seconds and a row thirty days. A client draws an id and a nonce for each request, so that both together name it,
but one of them may be taken (`RequestAssumption`). A prune may run between two requests that share an id or a nonce; `PromotedOnce` says of
such requests that both are run only if they were signed further apart than the retention less twice the skew, and of one
request that it is run once. `runs`, `indexed`, `recorded`, `abandoned` and `told`
are history, by request; `abandoned` holds the ids whose claim nobody can complete, because the process died or the
database failed at the last attempt. Left out: reading and authenticating the body beyond its freshness; what
`promoteDiscoveredLink` does is in `LiveSearch`, and its writes are those of an indexer in `Retrieval`.

### Extraction

`slot` is `available`, `busy` or `poisoned` and `thread[c]` the worker thread of a request; `serving[c]` is the
server's side of a call, `client[c]` the caller's. `ThreadHangs` lets a thread ignore `terminate()`. The private
server answers when the thread is gone, or poisons its slot when the grace passes (`GracePasses`) or `terminate()`
rejects (`TerminateRejects`); a poisoned process answers 503 to everyone and exits once it has answered (`PoisonedExit`), and its
supervisor starts it again. The PDF server never poisons: at its deadline it calls `terminate()` without waiting and frees
the slot (`PdfDeadline`), so its next request may run beside a thread that is being stopped; `OneParser` says
exactly that much for each. A download has the flags of the promise: `download[c]` and `buffer[c]`, on which
`OnData`, `OnEnd`, `OnStreamError`, `DownloadTimesOut`, `DownloadAborts` and `ConsumerEnds` race. `TerminalIsDeserved` ties a
status of the extractor to what the worker does with it (`Retryable`).

Two consequences of the code are in the model because a reader may not expect them: a download that times out
has status 408 and is final (`TerminalIsDeserved` lists it among the deserved), and `extract()` throws at once for a document without
a usable name, which the download turns into a 502 and the queue tries again until its retries end (`RejectInput`).

### Crawl

A behaviour is of one `kind`. In `SourceJobs` a source has at most one job that waits or runs; `Send` gives no
id when one exists, and `EnqueueFinds` looks it up afterwards, when it may have ended. `SourceSync` has a version of
each endpoint that grows with time, a fetch state with etag, deferral and time, and the versions in the index. GitHub
has a state per endpoint and Stack Exchange one for all; `CommitState` is the compare-and-set of all keys of the crawl,
`Defer` stores the
deferral of a 403 or 429 in the same way, and `Recheck` reads the state again when another crawl was faster.
Attempts of the job overlap as in `JobQueue`. `StateIsTrue` says that a state never speaks of a
version that is not indexed. `SiteCrawl` follows pages from `waiting` to `handled`: the reservation of room for a response in
the budget (`Reserve`), the single PDF extraction (`pdfQueue`), `MAX_REQUESTS`, and the end, where everything or
nothing is given to indexing. `ConnectionPool` has operations with deadlines, whose late connections
`LateArrives` returns, and others that wait.

### Services

The nine parts are modules of their own, composed so that one run of TLC walks through each of them; `part` is the one a
behaviour is about, the others stay in an initial state. Nothing is lost by that: they share no
variable, and where one calls another (an answer calls a model, a webhook the admission) the callee's outcomes are choices
of the caller's step.

`Evidence` has items as records of what the code asks about them (source, tier, owner, staleness), and a citation is
a position, as `E1`, `E2` are in the code. Claims are kept at their positions, so that dropping some leaves the others where they
were; a citation in the text (`Uses`) is a pair of positions, and the first use of each provenance becomes a source, numbered by the
first uses before it. `RenderAnswer` drops the last claims of a text that is too long and, with them, sources nobody else cites. In `GroundedAnswer` a step is one await
(`Retrieved`, `Discovered`, `Generated`, `Verified`) with each of its failures. `DocumentComparison` adds the selection of
chunks by their score and their neighbours. `ModelCalls` reads a response chunk by chunk, empty ones counted, under a declared
and a real bound; `Orders` are the indices a server may send. `WebhookRequest` is `handleNodeRequest` to the response, with a sender
who leaves. `Processes` has one row of steps per mode (`Startup`), the signal before and after its handler exists, and
its connections apart from its handlers: `closeServer` waits until no connection is open (`Drained`) or 15 seconds have passed
(`DrainTimeout`), not for handlers, so one whose client hung up (`left`) may still run when the queue stops and the pool ends, and so
may a job that expired or outlasted the stop (`late`) and the pruning that `maybePrune` starts unawaited; what it asks
of the pool then fails (a claimed promotion is then `abandoned`). `LiveSearch` keeps the links at their places in the results and matches urls against the scopes of a registry; a url that sources
of both tiers cover is promoted by neither. `FileStore` has the clock of the file system as an input, so that two files may be
equally old, and keeps of the directory the files with fewer than `MaxFiles` newer ones. `DocumentParser` opens and releases the archive, the loading task, the PDF and its page, and lays out
a PDF's items one step at a time (`PutItem` is one turn of the loop), each piece with the place it comes from and where it begins;
`LaidOutWhole` compares the pieces with the pages. `document.cleanup()` is taken not to reject: pdf.js refuses it only while a page is being rendered,
and nothing renders here. `PublicFetch` has one listener for each
wait on the signal.

## Runs

| run | checks | instance |
|---|---|---|
| `admission` | `DecidedOnce`, `RateKept`, `NoWaitCycle`, `ImplementsPromise`, `EventuallyAcked` | two handlers, three updates of two users in one chat, one fault; 666 179 states |
| `answer` | `HistoryKept`, `DoneIsDelivered`, `ComesToRest` | two attempts at once; an ordinary, a secret and a legacy update of two users; two faults; 340 205 states |
| `answer_notice` | `FirstInteractionShowsNotice` violated | see Findings |
| `private` | `UserIsTold`, `QuietAfterSettled`, `ComesToRest` | two attempts at once, an undecryptable update, three faults; 569 028 states |
| `private_marked` | `TerminalIsMarked` violated | see Findings |
| `polling` | `NothingSkipped`, `OncePerRun`, `EventuallyConfirmed` | five updates of every kind, a limiter that fills, two faults, a crash or stop; 257 174 states |
| `retrieval` | `EvidenceIsCurrent`, `LatestWins`, `DeletedIsStale` | two readers, two indexers, three contents, two editions, three revisions; 308 676 states |
| `indexing_revert` | `UsesLatestIndexed` violated | see Findings |
| `promotion` | `PromotedInTurn`, `SettledOnce` | two connections; two good requests of one id, and a malformed one signed later that shares a nonce with one of them; two failures, hang-ups or crashes; 311 994 states |
| `extraction` | `SlotGuardsParser`, `TerminalIsDeserved`, `FailedIsFinal`, `ComesToRest` | two calls of either extractor, one unparsable, one nameless, a wrong token; two faults; 710 854 states |
| `crawl` | `StateIsTrue`, `EnqueuedIsFresh`, `WholeWithinBudget`, `DeferralKept`, `ComesToRest` | two jobs of a source, two endpoints, a site of five pages, four operations on two connections; 500 556 states |
| `services` | one property or more of each part, `EvidenceKept`, `ComesToRest` | every part from its beginning to its end; 134 120 states |

A run asks all questions of one instance, so that a property is checked over the same behaviours as its neighbours; what
belongs together is one invariant with named conjuncts (`RateKept` is `CountIsCharges`, `LimitPerWindow`, `WindowsApart` and
`RejectedOnlyWhenFull`). The type invariants describe the state for the reader and for the proofs.

Every property of a passing run has a mutant: a small plausible bug, written next to the definition
it replaces with a comment that begins with "Broken:", which makes TLC find the property violated.

### Bounds

`MaxClock`, `MaxFaults`, `MaxRestarts`, `MaxEditions` and `MaxRevision` bound counters in
the guards. The limit and the window are 2 where the code has 10 and 60 s: a window fills with one
update to spare, expires within the clock's range and reopens. Two handlers suffice for what one
does between two steps of another; the deadlock argument needs pairs only, because the locks of a
transaction are ordered, and the theorem covers any number. A retry or two, with an overlapping attempt,
let an attempt meet the traces of those before; two or three faults pay for a lost reply, an expiry and one
failure. Three revisions let a row go stale, be rewritten and go stale again. Symmetry is used
in runs without liveness only. In `promotion` the skew is one tick, the retention two and
the clock goes to 4: a prune can remove the row of a request that was claimed as early as it may be, and the third request, signed at 3, may still arrive after it; the code has 60 s and 30 days, and only `TimeAssumption`, retention at least twice the skew,
matters. A search finds up to two sources of which one is promoted, where the code takes three of any number.
Two failures afford a promotion that fails and whose completion fails as well, or a completion that takes effect, is reported
as failed and is tried again. It is the only run without deadlock check: when the
clock is at its bound and no request is fresh, the server has nothing left to do.

In `extraction` the two calls suffice for a slot given away too early; two faults let a thread hang and the process die, or a
stream break after an abort. In `crawl` the clock of three leaves room for a deferral of one tick to be set, to run and to end, and
for a page that changes before and after a crawl; the versions of an endpoint are times. Of the sites, one fits the budget
(`MaxTotal`, `MaxRequests`) and one does not. Three operations with deadlines and one without share two connections, so
that one waits and one arrives late. In `services` evidence has up to four items of official, community, stale and unverified
sources, two from one page; drafts have two claims; lists to embed are of one to three texts, in two batches; responses are read
in up to two bytes and two empty chunks; a registry has sources of both tiers whose scopes overlap; three files exist where two
may stay, on a clock of two values, and the log is one line long (the theorem has a log of any size); two connections and one job are
enough for a client that left beside one that stays, and a job that is waited for; archives have up to four entries under a limit of four, and one more; PDFs have up to three
pages, and one more, of lines that end, of texts without an end, of two texts in a row and of empty texts, under a bound of eight units.

### Fairness

Weak fairness of a handler's steps: an awaited call returns or fails, and the event loop runs what
is ready. Weak fairness of `Recover` and `Fetch`: pg-boss polls and has a monitor for expired jobs. Weak
fairness of `Deliver`: Telegram retries what got no 202. `Polling` has one process and weak fairness of its
steps, with a supervisor that starts it again. `Promotion` has weak fairness of each
handler's `Work`: queries answer or fail, and the signal ends a search that does not. `Extraction` has it for
each call, whose waits all have timers, and for the exit and restart of the process, but not for a thread: `ThreadStops` may
never happen. `Crawl` has it for the queue and the handlers, for the crawler, which has a deadline, and for operations, which end or
give up; nobody need get a connection for it. `Services` has it for each part, whose awaits end by themselves or by a timer; the drain
and the stop of a process have timers too. Fault actions, aborts, senders who leave and signals have no fairness and are bounded, so
liveness says: once faults stop, everything ends.

## Proofs

`AdmissionProofs` proves for every set of handlers, updates and subjects, every limit, window and bound:
`TypeCorrect`, `AtMostOneJob`, `NothingLost`, `DecidedOnceThm`, `ChargesCounted`, `RateLimited`, `RejectionsJustified`,
`RateKeptThm`, `DeadlockFree`, and `Refinement`, that `Spec` implements `Promise!Spec`. The assumptions are those of the
module: `SubjectAssumption` (users and chats are different subjects), `LimitAssumption`, `NullAssumption`.

The invariants are not inductive by themselves. `IInv` adds, per handler, which locks it holds at its stage,
that its update is undecided while it holds the claim, and that a window it has read still is what
the database has, as nobody can write a row that it has locked. From the last part follow
`CountIsCharges` (the count it will write is the committed one plus its own charge) and `RejectedOnlyWhenFull`;
from the first, with the order update, user, chat, the absence of cycles. Each action has a lemma that says
what it changes; a frame lemma covers the handlers it does not touch.

`PollingProofs` proves the safety properties of the poller for every sequence of updates, every limit and
every bound: `TypeCorrect`, `NothingSkippedThm`, and `OncePerRunThm` with its parts `SentOncePerRunThm`,
`DocumentChargedOnceThm` and `NeverBackThm`.
The difficulty is that three offsets say how far the work has come: the one in memory, the one in the file
and Telegram's. `Front` is the first update that neither Telegram nor the offset in memory has left behind. The
inductive invariant says that all before the front is decided, that the poller is at the front whenever it works on an
update, that the file is never ahead of the memory, and what has been sent or charged at the front so far. It rests on the
assumptions of `Polling` about the kinds of updates and on bounds that are natural numbers.

`KnowledgeProofs` has two parts, which share a module only by name. Of `Retrieval` it proves `EvidenceIsCurrentThm` with its parts, `DeletedIsStaleThm` and `LatestWinsThm`. The cache compares revisions,
not contents, so the invariant is that as long as the revision stays, what retrieval finds stays: each action is
shown to be `Still` (the same revision, and `Retrieved` the same) or `Moved` (a higher revision). A
snapshot, a row and a result are then current as long as the revision they carry is. `LatestWins` needs
besides that the newest version exists, for which the contents must be finite, and that dates of versions are
those of their editions (`Dates`) until a page goes back to an earlier text.

Of `Crawl` it proves `StateIsTrueThm`, `EnqueuedIsFreshThm`, `WholeWithinBudgetThm` and `DeferralKeptThm` for any handlers, jobs,
endpoints, sites and bounds. `CrawlInv`, which TLC found to hold in every state of the run `crawl` before it was proved, is the
conjunction of what each part needs; a behaviour is of one kind, so a step of one part leaves the others' variables alone.
The rows (`QueueInv`): job ids are given in order, rows leave in order, and of all rows only the newest may wait or run, so the row that a
request finds last is the one it was deduplicated for or a later one. The fetch states (`SyncInv`): what a crawl has read is
true and stays so, because the index only grows and a page's version once indexed stays indexed; what it has fetched is at least
as new as the page was when it started; at the commit all of it is indexed (`SeenInv`, `GotInv`, `DoneInv`). A step that writes a state
replaces one that is equal to what was read, hence one that did not defer it, which is `DeferralKept`. A site (`SiteInv`): each page
is in one place (`PagesInv`); the pages handled without a failure have given their documents and their links
(`HandledInv`), so when none is left the set of pages seen contains the seed and what its pages link to, hence all that is `Reachable`;
`reserved` is `MaxResponse` times the number of pages being read (`BudgetInv`, by lemmas on cardinalities). The assumptions are
`JobsAssumption` and `QueueAssumption`, `SyncAssumption` (time starts at 1, delays are positive, endpoints are numbered from 1) and
`SiteAssumption` (a site is finite, its seed one of its pages, a PDF no sitemap, every size within the limit of a response).

`ServicesProofs` has an inductive invariant for each of the nine parts, and `PartSteps`, which says that a step of one part leaves the
others alone. `ClosedInOrderThm` follows the order of the shutdown: the handler of a request has its connection or has lost it
to its client or to the timer, and when the queue has stopped, the jobs that still run have expired or outlasted it; `WebhookAcksTrulyThm` that a request is stored only
after every check before it has passed; `FetchedIsPublicThm` that the address of a connection is one of those that were
looked at, whatever the set of addresses; `CallAlignedThm` that the vectors so far belong to the texts so far, for lists, batches
and bounds of any size: `BatchSize` is the largest that `Fits`, so its maximum has to be shown to exist, and the vectors of a batch
land at their texts by the arithmetic of concatenation; `BodyReleasedThm` counts what is open at each stage; `EvidenceKeptThm`
is a property of steps. Their assumptions are `ProcessAssumption` (jobs and connections have different names), `CallAssumption`, `UpdateAssumption` and `FetchAssumption`.

`PromotedIsMatchedThm` assumes of the registry that it is finite and its ids unique (`validateRegistry`, `sourceRegistry.ts:103`).
A link is chosen for the one source its tier has for the url, but stored under the one that both tiers have; `SameSource` shows that
where both exist they are the same, so the order of the search carries over to what is stored. `StoreKeepsNewestThm` is about files with any
clock: a file's time says when it was written, except for the one just written, which `Touched` makes the newest. `OrderInv` says that
while the process lives the times of the files are in the order of their last writes, and that what is gone was last written before what is
left; it is restored by each prune, whatever time a write was given. That pruning keeps at most `MaxFiles`, and the search at most
`MaxSelected`, is one lemma: of things in a row, at most n have fewer than n before them (`FewAreFew`, by the last of
them, which `LastInRow` finds without induction over sets).

`CitationsResolveThm` and `ShownIsGroundedThm` are about any evidence, any output of the model and any verdict. Things in a row are numbered
by counting those before them, one number each and none left out (`Ranks`); so the sources of a text are the first uses of the provenances it cites, one
for each (`FirstUsesAre`, `SourcesAre`), `Number` finds the one it looks for (`NumbersAre`), and a text of any claims whose citations are
known resolves (`CandidateResolves`); a shorter text is a text of fewer claims (`Rendered`). Behind a line may stand another chunk than
the one its claim cites, the first of that provenance in the text: `BehindAre` shows that it has the same tier, source and age, from
which `CandidateGrounded` follows. It rests on `OfIndex`, assumed of `Retrievals` and `Comparisons` (`AnswerAssumption`,
`ComparisonAssumption`): chunks of one version have one source, tier and age, because both queries take these columns from the
one row of the version and of its source (`retrieveEvidence.ts:250-269`). `AnswerInv` and `ComparisonInv` say that the
evidence is such and that what was parsed is accepted, and count the completions.

`ParsedIsWholeThm` rests on two invariants. `CheckedInv` says at each stage which entries or pages were looked at. `LaidInv` says
what of a PDF is laid out: just the texts before the next item (`PlacesBefore`), in their order and apart, tiled from 0 to
`total`. That the next text will be apart as well is not yet visible in the pieces and is carried by `ReadyFor`: behind every text
of an earlier page stands a line break as soon as a page with content is begun, a page without content leaves the break
pending, and behind a text of the same page stands a separator if another follows. Two lemmas say what one more separator
(`AddSeparator`) or text (`AddText`) does to any text, so the proof needs no sum over the pieces.
`ParserAssumption` says only that documents have sequences of entries, pages and items and that sizes are numbers.

`PromotionProofs` proves `PromotedInTurnThm`, with `PromotedOnceThm`, and `SettledForGoodThm`, from `RequestAssumption` and
`TimeAssumption`. The audit forgets rows, so "never twice" cannot rest on the row alone. `SpentInv` says that a request that has
run or is claimed still has its row, claimed no earlier than the request could be valid, or that the clock is beyond that moment by the retention; as
the retention is at least twice the skew, the request is too old to be accepted by then. `RivalInv` carries the same to requests
that share an id or a nonce. `ClaimInv` says that while a handler works the row is its own and not due to be pruned,
from which follows that what it records is what it did.

`AnswerJobProofs` proves `HistoryKeptThm` and `DoneIsDeliveredThm` for any number of handlers, retries and faults. The rows of an update
are written once (`StoreGrows`), so that whoever comes later finds them: `DraftInv` is what a handler knows of them at its stage.
`SoleInv` says that besides attempts that outlived their job one handler at most works on it; `RecordInv`, that its text is the
one on record or nothing is recorded yet. From both follows that what is sent is what is stored; with an outlived
attempt it is not, which is why `SentIsRecorded` excludes it. `ReportInv` ties what a handler reports to the chat.

`PrivateComparisonProofs` proves `UserIsToldThm` and `QuietAfterSettledThm` for any number of handlers, retries and faults. `SoleInv` is that
of answers. As nothing of an attempt is stored, what carries over is only whether the user was told: `ToldInv` says that
for an update nobody disturbed it is what the verdict of its only handler says, and that with no handler the user was told if
and only if the job is completed. `EndInv` and `StatusInv` give the grounds of a verdict and the status it leaves.

`ExtractionProofs` proves `SlotGuardsParserThm`, `TerminalIsDeservedThm` and `FailedIsFinalThm` for any calls, faults and
crashes. Of some forty actions only eleven moves of the process, the slot, the requests and the threads remain (`CoreMove`);
`CoreMoves` shows that every handler of either extractor is one of them, and `SlotStep` argues about the moves alone.
`ThreadInv` says where a thread may live: only in a process that is up, for a request that was given one, and for the PDF
extractor, which never poisons its slot, running only while its request works. `ReplyInv` keeps the reasons of a refusal: a 422 is
only about a document the parser refuses, and a client that settled as refused had a 422 or a 401. `FailureInv` ties a 499 to the
caller's signal and a failed download to its wiped buffer. The proof assumes of the requests what both clients send
(`ClientAssumption`): everything the servers check is in order, the token excepted.

Model-checked only: liveness, and the three violated ones; every safety property the passing runs check has its theorem. No recursive operator is declared anywhere.

## Findings

* `FirstInteractionShowsNotice`: `docs/architecture/persistence.md:5` says the first interaction shows the retention
  notice. When storing the user's message succeeds and looking for an earlier answer fails
  (`agentWorker.ts:74-77`), the failure message is sent without the notice (`answerQuestion.ts:609-610`) and the
  job completes; `NoticeKept`, a part of `HistoryKept`, shows that an answer that was written never loses it.
* `TerminalIsMarked`: the design of file comparison (`2026-08-26-cardano-private-file-comparison-design.md:142`)
  says every terminal path marks the update. A job whose envelope does not open throws before it is marked
  (`privateComparisonRuntime.ts:229`), and a job dropped at the end of its retention is never marked either.
* `UsesLatestIndexed`: a page that goes back to an earlier text keeps the old `retrieved_at`
  (`knowledgeRepository.ts:635`), so retrieval serves the text in between as the newest. `LatestWins` shows
  that concurrency alone cannot cause this.

## Plan

1. Chunk boundaries (`chunkDocument.ts`) and retry delays as pure algorithms over bounded inputs.
2. `promoteDiscoveredLink` and `indexCrawlResult` composed with `Retrieval`, so that crawls and promotions of one page interleave with its readers.
3. The validation of the source registry, and the document store of the governance skills.

Not to be modelled: the scan of a PDF's syntax and of XML parts (verdicts of `DocumentParser`), the parsing of links, sitemaps and
API pages (verdicts of the crawls), prompts and wording, usage records, cryptography, pattern matching for wallet secrets, offline
evaluation, configuration, deployment, cron expressions, and the governance commands with their Blockfrost adapter, which keep no
state that concurrent actors share. One hazard has no property: an error event of the pool or the queue that nobody listens to
ends the process (`ErrorUnheard` in `Processes`); no document says that it should survive it, and what the workers leave behind when it
dies is checked in their own modules.
