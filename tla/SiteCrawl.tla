------------------------------- MODULE SiteCrawl -------------------------------
(***************************************************************************)
(* crawlSource of a web site: from the seed page along the links and       *)
(* sitemaps inside the source's scope, several pages at a time, with one   *)
(* byte budget, one PDF extraction at a time and no second try.  The       *)
(* crawler that runs the handler for each request is Crawlee's.            *)
(***************************************************************************)
EXTENDS Naturals, FiniteSets, Sequences

CONSTANTS
  Pages, Seed,
  Sites,           \* link structures: the pages in scope that a page links to
  Sitemaps,        \* pages that are XML: links, no document
  Pdfs,            \* pages that are PDF: a document, no links
  SizeOf,          \* bytes of a page, at most MaxResponse
  MaxResponse,     \* MAX_RESPONSE_BYTES
  MaxTotal,        \* MAX_TOTAL_RESPONSE_BYTES
  MaxRequests,     \* MAX_REQUESTS
  MaxConcurrency   \* MAX_CONCURRENCY

ASSUME SiteAssumption ==
  /\ IsFiniteSet(Pages) /\ Seed \in Pages
  /\ Sites \subseteq [Pages -> SUBSET Pages]
  /\ Sitemaps \subseteq Pages /\ Pdfs \subseteq Pages /\ Sitemaps \cap Pdfs = {}
  /\ MaxResponse \in Nat /\ MaxTotal \in Nat
  /\ MaxRequests \in Nat /\ MaxConcurrency \in Nat
  /\ SizeOf \in [Pages -> 0..MaxResponse]

VARIABLES
  links,      \* the site's structure
  enqueued,   \* URLs that were added, each once
  pending,    \* requests the crawler has not started
  visit,      \* where the handler of a page is
  pdfQueue,   \* pages in PdfExtractionQueue, the first one's task is running
  reserved, consumed,  \* SharedByteBudget, in bytes
  documents,
  failed,     \* firstFailure is set
  stopped,    \* crawler.stop() was called
  over,       \* crawlSignal is aborted
  crawled     \* of crawlSource

siteVars == <<links, enqueued, pending, visit, pdfQueue, reserved, consumed, documents, failed,
              stopped, over, crawled>>

Running == {"fetch", "extract", "pdf"}

SiteTypeOK ==
  /\ links \in Sites
  /\ enqueued \subseteq Pages /\ pending \subseteq Pages /\ documents \subseteq Pages
  /\ visit \in [Pages -> Running \cup {"no", "handled"}]
  /\ pdfQueue \in Seq(Pdfs)
  /\ reserved \in Nat /\ consumed \in Nat
  /\ failed \in BOOLEAN /\ stopped \in BOOLEAN /\ over \in BOOLEAN
  /\ crawled \in {"none", "returned", "threw"}

SiteInit ==
  /\ links \in Sites
  /\ enqueued = {Seed} /\ pending = {Seed}
  /\ visit = [p \in Pages |-> "no"] /\ pdfQueue = <<>>
  /\ reserved = 0 /\ consumed = 0
  /\ documents = {}
  /\ failed = FALSE /\ stopped = FALSE /\ over = FALSE /\ crawled = "none"

Moves(p, stage) == visit' = [visit EXCEPT ![p] = stage]
InHandler == {p \in Pages : visit[p] \in Running}
Handled == {p \in Pages : visit[p] = "handled"}

\* addUrls: those that were never added.
AddUrls(urls) ==
  /\ enqueued' = enqueued \cup urls
  /\ pending' = pending \cup (urls \ enqueued)

NoUrls == UNCHANGED <<enqueued, pending>>

\* The handler throws: no document, and the crawl is as good as over.
HandlerThrows_Forgiven(p) ==  \* Broken: a page that fails is left out
  Moves(p, "handled") /\ UNCHANGED <<failed, stopped>>

HandlerThrows(p) ==
  /\ Moves(p, "handled")
  /\ failed' = TRUE /\ stopped' = TRUE

\* SharedByteBudget.reserve: room for the largest response, next to the
\* responses that are being read.
Reserve == consumed + reserved + MaxResponse <= MaxTotal

StartPage(p) ==
  /\ p \in pending /\ ~stopped /\ crawled = "none"
  /\ Cardinality(InHandler) < MaxConcurrency /\ Cardinality(Handled) < MaxRequests
  /\ pending' = pending \ {p}
  /\ \/ /\ Reserve /\ ~over
        /\ Moves(p, "fetch") /\ reserved' = reserved + MaxResponse
        /\ UNCHANGED <<failed, stopped>>
     \/ /\ ~Reserve \/ over
        /\ HandlerThrows(p) /\ UNCHANGED reserved
  /\ UNCHANGED <<links, enqueued, pdfQueue, consumed, documents, over, crawled>>

Respond(p) ==
  /\ visit[p] = "fetch" /\ ~over
  /\ reserved' = reserved - MaxResponse /\ consumed' = consumed + SizeOf[p]
  /\ \/ p \in Sitemaps /\ AddUrls(links[p]) /\ Moves(p, "handled") /\ UNCHANGED pdfQueue
     \/ p \in Pdfs /\ pdfQueue' = Append(pdfQueue, p) /\ Moves(p, "pdf") /\ NoUrls
     \/ p \notin Sitemaps \cup Pdfs /\ Moves(p, "extract") /\ NoUrls /\ UNCHANGED pdfQueue
  /\ UNCHANGED <<links, documents, failed, stopped, over, crawled>>

\* Another status, a MIME type that is not allowed, too many bytes, eight
\* seconds, or the signal.
FetchFails(p) ==
  /\ visit[p] = "fetch"
  /\ reserved' = reserved - MaxResponse
  /\ HandlerThrows(p)
  /\ UNCHANGED <<links, enqueued, pending, pdfQueue, consumed, documents, over, crawled>>

\* extractContent; a PDF waits for its turn.
Turn(p) == visit[p] = "extract" \/ (visit[p] = "pdf" /\ Head(pdfQueue) = p)
LeaveQueue(p) == pdfQueue' = IF visit[p] = "pdf" THEN Tail(pdfQueue) ELSE pdfQueue

Extract(p) ==
  /\ visit[p] \in {"extract", "pdf"} /\ Turn(p) /\ LeaveQueue(p)
  /\ documents' = documents \cup {p}
  /\ Moves(p, "handled")
  /\ IF visit[p] = "extract" THEN AddUrls(links[p]) ELSE NoUrls
  /\ UNCHANGED <<links, reserved, consumed, failed, stopped, over, crawled>>

ExtractFails(p) ==
  /\ visit[p] \in {"extract", "pdf"} /\ Turn(p) /\ LeaveQueue(p)
  /\ HandlerThrows(p)
  /\ UNCHANGED <<links, enqueued, pending, reserved, consumed, documents, over, crawled>>

\* The job is aborted, or 120 s are over.
CrawlAborts ==
  /\ ~over /\ crawled = "none"
  /\ over' = TRUE /\ stopped' = TRUE
  /\ UNCHANGED <<links, enqueued, pending, visit, pdfQueue, reserved, consumed, documents,
                 failed, crawled>>

\* The crawler is done with what it started and starts no more.
CrawlEnds ==
  /\ crawled = "none" /\ InHandler = {}
  /\ pending # {} => stopped \/ Cardinality(Handled) >= MaxRequests
  /\ crawled' = IF failed \/ over THEN "threw" ELSE "returned"
  /\ UNCHANGED <<links, enqueued, pending, visit, pdfQueue, reserved, consumed, documents,
                 failed, stopped, over>>

SiteStep ==
  \/ CrawlEnds
  \/ \E p \in Pages : StartPage(p) \/ Respond(p) \/ Extract(p)

SiteWorld ==
  \/ CrawlAborts
  \/ \E p \in Pages : FetchFails(p) \/ ExtractFails(p)

-----------------------------------------------------------------------------
\* The pages one gets to from the seed.
Reachable ==
  LET closed == {S \in SUBSET Pages : Seed \in S /\ \A p \in S \ Pdfs : links[p] \subseteq S}
  IN {p \in Pages : \A S \in closed : p \in S}

\* A crawl that returns has every document of the site, each page having been
\* asked for once, unless the site is larger than a crawl may be: a page that
\* failed, an abort or the budget never leave a part of it out in silence.
WholeOrNothing ==
  crawled = "returned" /\ Cardinality(Reachable) <= MaxRequests =>
    documents = Reachable \ Sitemaps

\* However many pages are read at once, the crawl reads no more than its budget.
BudgetKept == consumed + reserved <= MaxTotal

\* A crawl is whole or it fails, and either way within its budget.
WholeWithinBudget == WholeOrNothing /\ BudgetKept
=============================================================================
