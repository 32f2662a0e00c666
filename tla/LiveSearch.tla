----------------------------- MODULE LiveSearch -----------------------------
(***************************************************************************)
(* promoteQuestionSources: the live discovery behind one promotion         *)
(* request.  A search over the domains of the official sources, and only   *)
(* if it matches nothing one over those of the community; then up to       *)
(* MaxSelected links, of different sources, are fetched and indexed one    *)
(* after the other until all are, one fails or the deadline ends it.       *)
(***************************************************************************)
EXTENDS Integers, SequencesExt, FiniteSetsExt

CONSTANTS
  Registry,     \* sources: records id, tier, direct, scope (the urls it covers)
  Urls,         \* urls a search can return
  MaxResults,   \* results of a search that are looked at
  MaxSelected   \* links promoted by one request

ASSUME SearchAssumption ==
  /\ IsFiniteSet(Registry)
  /\ \A s, r \in Registry : s.id = r.id => s = r
  /\ \A s \in Registry : s.id # "none"
  /\ MaxResults \in Nat /\ MaxSelected \in Nat

VARIABLES
  lpc,        \* where the request is
  tier,       \* tier of the search
  links,      \* links of the last search, by their place in its results:
              \* records url and matched
  chosen,     \* places of the links still to promote
  storing,    \* the source the current link is stored under
  promoted,   \* sequence of records url and source
  outcome     \* none, promoted, no_match, failed

searchVars == <<lpc, tier, links, chosen, storing, promoted, outcome>>

SearchInit ==
  /\ lpc = "search" /\ tier = "official" /\ links = << >> /\ chosen = {}
  /\ storing = "none" /\ promoted = <<>> /\ outcome = "none"

\* Sources that are synchronised by schedule and have pages of their own.
Direct(t) == {s \in Registry : s.tier = t /\ s.direct}

\* A url matches when exactly one source of the tier covers it.
Matches(url, sources) == {s \in sources : url \in s.scope}
Matched(url, t) ==
  IF Cardinality(Matches(url, Direct(t))) = 1
  THEN (CHOOSE s \in Matches(url, Direct(t)) : TRUE).id
  ELSE "none"

\* Of the results that are looked at, a url counts once, at its first place.
DiscoverLiveSources(results, t) ==
  LET kept == {i \in DOMAIN results : i <= MaxResults /\ \A j \in 1..(i - 1) : results[j] # results[i]}
  IN  [i \in kept |-> [url |-> results[i], matched |-> Matched(results[i], t)]]

AnyMatched(found) == \E i \in DOMAIN found : found[i].matched # "none"

\* The first link of each source.
UniqueMatchedSources(found) ==
  {i \in DOMAIN found :
     /\ found[i].matched # "none"
     /\ \A j \in DOMAIN found : j < i => found[j].matched # found[i].matched}

\* The first n of some places: those with fewer than n before them.
Leading(places, n) == {i \in places : Cardinality({j \in places : j < i}) < n}

Fails == outcome' = "failed" /\ lpc' = "done"

\* A tier without domains has no search and no links.
Searched(results) ==
  /\ lpc = "search"
  /\ Direct(tier) = {} => results = <<>>
  /\ LET found == DiscoverLiveSources(results, tier)
     IN  \/ /\ tier = "official" /\ ~AnyMatched(found)
            /\ tier' = "community"
            /\ links' = found
            /\ UNCHANGED <<lpc, chosen, outcome>>
         \/ /\ tier = "community" \/ AnyMatched(found)
            /\ links' = found
            /\ chosen' = Leading(UniqueMatchedSources(found), MaxSelected)
            /\ lpc' = "promote"
            /\ UNCHANGED <<tier, outcome>>
  /\ UNCHANGED <<storing, promoted>>

\* The query is refused, the search fails, or the deadline passed.
SearchFails ==
  /\ lpc = "search"
  /\ Fails
  /\ UNCHANGED <<tier, links, chosen, storing, promoted>>

\* The link whose turn it is.
Current == links[Min(chosen)]

\* Broken: takes any source that covers the url.
PromoteLink_FirstTier ==
  /\ lpc = "promote" /\ chosen # {}
  /\ storing' = (CHOOSE s \in Matches(Current.url, Registry) : TRUE).id
  /\ lpc' = "store"
  /\ UNCHANGED <<tier, links, chosen, promoted, outcome>>

\* promoteDiscoveredLink looks at the sources of both tiers: one that both
\* cover is promoted by neither, and the handler makes that a failure.
PromoteLink ==
  /\ lpc = "promote" /\ chosen # {}
  /\ LET covering == Matches(Current.url, {s \in Registry : s.direct})
     IN  \/ /\ Cardinality(covering) = 1
            /\ storing' = (CHOOSE s \in covering : TRUE).id
            /\ lpc' = "store" /\ UNCHANGED outcome
         \/ /\ Cardinality(covering) # 1
            /\ Fails /\ UNCHANGED storing
  /\ UNCHANGED <<tier, links, chosen, promoted>>

\* Fetched, extracted, the source ensured and the document indexed.
LinkStored ==
  /\ lpc = "store"
  /\ promoted' = Append(promoted, [url |-> Current.url, source |-> storing])
  /\ chosen' = chosen \ {Min(chosen)}
  /\ storing' = "none"
  /\ lpc' = "promote"
  /\ UNCHANGED <<tier, links, outcome>>

\* A step of it throws, perhaps after the document was indexed; the links
\* after it are not tried.
LinkFails(stored) ==
  /\ lpc = "store"
  /\ promoted' = (IF stored THEN Append(promoted, [url |-> Current.url, source |-> storing])
                  ELSE promoted)
  /\ storing' = "none"
  /\ Fails
  /\ UNCHANGED <<tier, links, chosen>>

\* The 45 seconds, or the service's own signal, end the request.
PromoteDeadline ==
  /\ lpc = "promote" /\ chosen # {}
  /\ Fails
  /\ UNCHANGED <<tier, links, chosen, storing, promoted>>

SearchEnds ==
  /\ lpc = "promote" /\ chosen = {}
  /\ outcome' = (IF promoted = <<>> THEN "no_match" ELSE "promoted")
  /\ lpc' = "done"
  /\ UNCHANGED <<tier, links, chosen, storing, promoted>>

Results == BoundedSeq(Urls, MaxResults + 1)

SearchStep ==
  \/ \E results \in Results : Searched(results)
  \/ SearchFails \/ PromoteLink \/ LinkStored
  \/ \E stored \in BOOLEAN : LinkFails(stored)
  \/ PromoteDeadline \/ SearchEnds

SearchTypeOK ==
  /\ lpc \in {"search", "promote", "store", "done"}
  /\ tier \in {"official", "community"}
  /\ chosen \subseteq DOMAIN links
  /\ outcome \in {"none", "promoted", "no_match", "failed"}

\* What is stored, under whom: the one direct source whose scope has the url;
\* each source once; community pages only where no official page matched.
PromotedIsMatched ==
  /\ \A i \in DOMAIN promoted :
       {s.id : s \in Matches(promoted[i].url, {r \in Registry : r.direct})} = {promoted[i].source}
  /\ \A i, j \in DOMAIN promoted : promoted[i].source = promoted[j].source => i = j
  /\ Len(promoted) <= MaxSelected
  /\ {s.tier : s \in {r \in Registry : \E i \in DOMAIN promoted : promoted[i].source = r.id}}
       \subseteq {tier}
=============================================================================
