---- MODULE MCCrawl ----
(* Two jobs of a source with two endpoints or pages; a web site of a       *)
(* sitemap, two pages and a PDF, or one that is too large for a crawl.     *)
EXTENDS Crawl, TLC

CONSTANTS seed, map, left, right, pdf

MCSites ==
  {(seed :> {map} @@ map :> {left, pdf} @@ left :> {seed, pdf} @@ right :> {} @@ pdf :> {}),
   (seed :> {map, left} @@ map :> {left, right} @@ left :> {pdf} @@ right :> {} @@ pdf :> {})}
MCSizes == (seed :> 1 @@ map :> 1 @@ left :> 1 @@ right :> 0 @@ pdf :> 2)
====
