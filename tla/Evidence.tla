------------------------------ MODULE Evidence ------------------------------
(***************************************************************************)
(* Evidence, the claims that cite it, and the text made of both: what the  *)
(* answers to questions and the comparisons of documents have in common.   *)
(* Evidence is a sequence of items; the code gives the item at position k  *)
(* the id "Ek", so that a citation is a position here.  An item is a       *)
(* record: id, source, prov (source, version and url), tier, owner, stale, *)
(* secret, formed (all fields are valid) and size.                         *)
(***************************************************************************)
EXTENDS Integers, SequencesExt, FiniteSetsExt, Functions

CONSTANTS
  MaxEvidence,      \* items in a snapshot
  MaxEvidenceSize,  \* their sizes together
  MaxClaims,        \* claims of one output of the model
  MaxDraftSize,     \* their sizes together
  MaxAnswerSize     \* size of a rendered text

SumSizes(s) == FoldLeft(LAMBDA n, x : n + x.size, 0, s)

\* The snapshot is refused as a whole; it is never shortened.
SnapshotValid(items) ==
  /\ Len(items) <= MaxEvidence
  /\ \A i \in DOMAIN items : items[i].formed
  /\ IsInjective([i \in DOMAIN items |-> items[i].id])
  /\ SumSizes(items) <= MaxEvidenceSize

AnyStale(items) == \E i \in DOMAIN items : items[i].stale
AnySecret(items) == \E i \in DOMAIN items : items[i].secret

Cited(cites, items) == [i \in DOMAIN cites |-> items[cites[i]]]

\* Citations name items of the snapshot, each at most once.
Known(cites, items) == ToSet(cites) \subseteq DOMAIN items /\ IsInjective(cites)

Official(cited) == {e \in ToSet(cited) : e.tier = "official"}
AllUnverified(cited) == \A e \in ToSet(cited) : e.tier = "unverified"

\* Broken: two official items will do, of one source perhaps.
ConflictShown_Items(c, cited) ==
  /\ Cardinality(Official(cited)) >= 2
  /\ {e.owner : e \in Official(cited)} \subseteq c.names

\* Two sources that are official, and every official owner named in the text.
ConflictShown(c, cited) ==
  /\ Cardinality({e.source : e \in Official(cited)}) >= 2
  /\ {e.owner : e \in Official(cited)} \subseteq c.names

-----------------------------------------------------------------------------
\* One item for each provenance, at its first citation.
UniqueCited(cited) ==
  [j \in {k \in DOMAIN cited : \A m \in 1..(k - 1) : cited[m].prov # cited[k].prov} |-> cited[j]]

Flags(kind, cited) ==
  LET tiers == {e.tier : e \in Range(cited)}
  IN  {f \in {"communityOnly", "mixedUnverified", "conflict"} :
        \/ f = "communityOnly" /\ tiers = {"community"}
        \/ f = "mixedUnverified" /\ "unverified" \in tiers /\ "official" \notin tiers
        \/ f = "conflict" /\ kind = "conflict"}

\* The citations of prepared claims (a claim's position, a position in it), in
\* the order of the text; those that cite a provenance first become sources.
Uses(prepared) == UNION {{i} \X DOMAIN prepared[i].cited : i \in DOMAIN prepared}
Used(prepared, u) == prepared[u[1]].cited[u[2]]
Earlier(u, v) == u[1] < v[1] \/ (u[1] = v[1] /\ u[2] < v[2])
FirstUses(prepared) ==
  {u \in Uses(prepared) :
     \A v \in Uses(prepared) : Earlier(v, u) => Used(prepared, v).prov # Used(prepared, u).prov}
FirstUse(prepared, n) ==
  CHOOSE u \in FirstUses(prepared) :
    Cardinality({v \in FirstUses(prepared) : Earlier(v, u)}) = n - 1

\* The source block: items by first use, each with the labels of its line.
Sources(prepared) ==
  LET listed(n) == Used(prepared, FirstUse(prepared, n))
      conflicts == {Used(prepared, u).prov :
                      u \in {v \in Uses(prepared) : prepared[v[1]].claim.kind = "conflict"}}
  IN  [n \in 1..Cardinality(FirstUses(prepared)) |->
        [item |-> listed(n), stale |-> listed(n).stale, conflict |-> listed(n).prov \in conflicts]]

Number(prov, sources) == CHOOSE n \in DOMAIN sources : sources[n].item.prov = prov

\* A rendered text: the lines of the claims, with numbers, and the sources.
Candidate(prepared) ==
  LET sources == Sources(prepared)
  IN  [sources |-> sources,
       lines |-> [i \in DOMAIN prepared |->
         [claim |-> prepared[i].claim,
          flags |-> Flags(prepared[i].claim.kind, prepared[i].cited),
          numbers |-> [j \in DOMAIN prepared[i].cited |->
                         Number(prepared[i].cited[j].prov, sources)]]]]

TextSize(text) ==
  MapThenSumSet(LAMBDA i : text.lines[i].claim.size, DOMAIN text.lines)
    + MapThenSumSet(LAMBDA n : text.sources[n].item.size, DOMAIN text.sources)

NoText == [lines |-> << >>, sources |-> << >>]

\* The claims at positions up to n.
UpTo(prepared, n) == Restrict(prepared, {i \in DOMAIN prepared : i <= n})
Fitting(prepared) == {n \in DOMAIN prepared : TextSize(Candidate(UpTo(prepared, n))) <= MaxAnswerSize}

\* Broken: the sources of the dropped claims stay.
RenderAnswer_AllSources(prepared) ==
  IF Fitting(prepared) = {} THEN NoText
  ELSE [Candidate(UpTo(prepared, Max(Fitting(prepared)))) EXCEPT !.sources = Sources(prepared)]

\* The last claims are dropped until the text fits.
RenderAnswer(prepared) ==
  IF Fitting(prepared) = {} THEN NoText ELSE Candidate(UpTo(prepared, Max(Fitting(prepared))))

\* findWalletSecret of the text: a secret the encoding of the output hid.
TextSecret(text) == \E i \in DOMAIN text.lines : text.lines[i].claim.secret

-----------------------------------------------------------------------------
\* Every number stands for what the claim cites, and every source is cited.
Resolves(text, items) ==
  /\ \A i \in DOMAIN text.lines :
       {text.sources[n].item.prov : n \in Range(text.lines[i].numbers)}
         = {items[k].prov : k \in ToSet(text.lines[i].claim.cites)}
  /\ DOMAIN text.sources = UNION {Range(text.lines[i].numbers) : i \in DOMAIN text.lines}
  /\ IsInjective([n \in DOMAIN text.sources |-> text.sources[n].item.prov])

Behind(l, text) == {text.sources[n] : n \in Range(l.numbers)}

\* What stands behind a claim is shown as what it is.
LineGrounded(l, text, items, supported) ==
  LET behind == Behind(l, text)
      tiers == {s.item.tier : s \in behind}
  IN  /\ l.claim \in supported
      /\ l.claim.kind = "fact" => tiers \ {"unverified"} # {}
      /\ l.claim.kind = "conflict" =>
           /\ Cardinality({s.item.source : s \in {b \in behind : b.item.tier = "official"}}) >= 2
           /\ \A s \in behind : s.conflict
      /\ tiers \cap {"official"} = {} /\ tiers # {} =>
           l.flags \cap {"communityOnly", "mixedUnverified"} # {}
      /\ \A k \in ToSet(l.claim.cites) :
           items[k].stale => \E s \in behind : s.item.prov = items[k].prov /\ s.stale

Grounded(text, items, supported) ==
  \A i \in DOMAIN text.lines : LineGrounded(text.lines[i], text, items, supported)

-----------------------------------------------------------------------------
\* What an index returns: chunks of one version have its source, tier and age,
\* which are columns of one row of it (RETRIEVAL_SQL).
OfIndex(items) ==
  /\ items \in Seq(ToSet(items))
  /\ \A i \in DOMAIN items :
       items[i].formed => items[i].tier \in {"official", "community", "unverified"}
  /\ \A i, j \in DOMAIN items :
       items[i].prov = items[j].prov =>
         /\ items[i].source = items[j].source
         /\ items[i].tier = items[j].tier
         /\ items[i].stale = items[j].stale

\* What a model writes: a list of claims, each with a list of citations.
OfModel(claims) ==
  /\ claims \in Seq(ToSet(claims))
  /\ \A i \in DOMAIN claims : claims[i].cites \in Seq(ToSet(claims[i].cites))
=============================================================================
