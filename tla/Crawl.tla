-------------------------------- MODULE Crawl --------------------------------
(***************************************************************************)
(* The knowledge worker: the jobs of a source, its crawl (of GitHub, Stack *)
(* Exchange or a web site) and the connections of the database.  The parts *)
(* share little; a behaviour is about one of them.                         *)
(***************************************************************************)
EXTENDS SourceJobs, SourceSync, SiteCrawl, ConnectionPool

workerVars == <<queueVars, sourceVars, crawlVars, worldVars, storeVars, siteVars, poolVars>>

Sync == kind \in {"github", "stackexchange"}

CrawlTypeOK ==
  /\ JobsTypeOK
  /\ pc \in [Handlers -> Stages \cup {"start", "sync"}]
  /\ SyncTypeOK
  /\ SiteTypeOK
  /\ PoolTypeOK
  /\ kind \in {"jobs", "github", "stackexchange", "site", "pool"}

\* Where crawls are modelled in full, the source has one job that waits.
CrawlInit ==
  /\ kind \in {"jobs", "github", "stackexchange", "site", "pool"}
  /\ HandlersInit /\ on = [h \in Handlers |-> 1]
  /\ JobsInit
  /\ job = [u \in Updates |-> IF Sync /\ u = 1 THEN "created" ELSE "unsent"]
  /\ SyncInit
  /\ SiteInit
  /\ PoolInit

Source(A) == A /\ UNCHANGED <<siteVars, poolVars>>

JobsWorks(h) == kind = "jobs" /\ Source(JobsWork(h)) /\ UNCHANGED <<crawlVars, worldVars, storeVars>>
JobsChange == kind = "jobs" /\ Source(JobsWorld) /\ UNCHANGED <<crawlVars, worldVars, storeVars>>
SyncWorks(h) == Sync /\ Source(SyncStep(h)) /\ UNCHANGED sourceVars
SyncChange == Sync /\ Source(SyncWorld) /\ UNCHANGED sourceVars

Recovers(u) ==
  /\ Source(Recover(u))
  /\ UNCHANGED <<sourceVars, crawlVars, worldVars, storeVars>>

Elsewhere == UNCHANGED <<queueVars, sourceVars, crawlVars, worldVars, storeVars>>

SiteWorks == kind = "site" /\ SiteStep /\ UNCHANGED poolVars /\ Elsewhere
SiteChange == kind = "site" /\ SiteWorld /\ UNCHANGED poolVars /\ Elsewhere
PoolWorks == kind = "pool" /\ PoolStep /\ UNCHANGED siteVars /\ Elsewhere
PoolChange == kind = "pool" /\ PoolWorld /\ UNCHANGED siteVars /\ Elsewhere

Rested ==
  /\ kind = "site" => crawled # "none" /\ reserved = 0
  /\ kind = "pool" => PoolAtRest
  /\ \A u \in Updates : Settled(u) \/ job[u] = "unsent"
  /\ \A h \in Handlers : pc[h] = "idle"
  /\ kind = "jobs" => asked # "find"

Quiescent == Rested /\ UNCHANGED workerVars

CrawlNext ==
  \/ \E h \in Handlers : JobsWorks(h) \/ SyncWorks(h)
  \/ \E u \in Updates : Recovers(u)
  \/ JobsChange \/ SyncChange
  \/ SiteWorks \/ SiteChange \/ PoolWorks \/ PoolChange
  \/ Quiescent

\* Every await of a handler ends by itself or by a timer; the queue expires
\* the jobs of a dead worker; pages and connections are waited for with
\* deadlines, or held by operations that have them.
Fairness ==
  /\ \A h \in Handlers : WF_workerVars(JobsWorks(h)) /\ WF_workerVars(SyncWorks(h))
  /\ \A u \in Updates : WF_workerVars(Recovers(u))
  /\ WF_workerVars(kind = "jobs" /\ Source(EnqueueFinds) /\ UNCHANGED <<crawlVars, worldVars, storeVars>>)
  /\ WF_workerVars(SiteWorks \/ SiteChange)
  /\ WF_workerVars(PoolWorks)

CrawlSpec == CrawlInit /\ [][CrawlNext]_workerVars
FairSpec == CrawlSpec /\ Fairness

-----------------------------------------------------------------------------
\* While a deferral runs, no crawl that started before it removes or shortens it.
DeferralKept ==
  [][\A k \in Endpoints : state[k].retry > now => state'[k].retry >= state[k].retry]_workerVars

\* Every job and every crawl ends, no operation waits for a connection
\* forever, and all connections come back to the pool.
ComesToRest == <>[]Rested
=============================================================================
