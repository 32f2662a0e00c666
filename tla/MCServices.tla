---- MODULE MCServices ----
(* Evidence of two chunks of one official page, a second official page and *)
(* a stale community one; drafts of up to two claims; three texts in two   *)
(* batches; three files where two are kept; archives of up to four entries *)
(* and PDFs of up to three pages.                                          *)
EXTENDS Services, TLC

Item(i, s, p, t) ==
  [id |-> i, source |-> s, prov |-> p, tier |-> t, owner |-> s, stale |-> FALSE,
   secret |-> FALSE, formed |-> TRUE, size |-> 1]

Page == Item(1, 1, 1, "official")
PageAgain == Item(2, 1, 1, "official")
Other == Item(3, 2, 2, "official")
Stale == [Item(4, 3, 3, "community") EXCEPT !.stale = TRUE]
Rumour == Item(5, 4, 4, "unverified")

MCRetrievals ==
  {<<>>, <<Page, PageAgain, Other>>, <<Stale, Rumour>>, <<Rumour, Page, Stale>>,
   <<Page, Page>>, <<[Page EXCEPT !.secret = TRUE]>>, <<[Page EXCEPT !.formed = FALSE]>>,
   <<Page, Other, Stale, Rumour>>}

Question(discover, models) ==
  [valid |-> TRUE, secret |-> FALSE, greeting |-> FALSE, discover |-> discover, models |-> models]

MCQuestions ==
  {Question(d, "valid") : d \in BOOLEAN} \cup {Question(TRUE, m) : m \in {"none", "invalid", "secret"}}
  \cup {[Question(TRUE, "valid") EXCEPT !.greeting = TRUE],
        [Question(TRUE, "valid") EXCEPT !.secret = TRUE],
        [Question(TRUE, "valid") EXCEPT !.valid = FALSE]}

Claim(k, cites) ==
  [kind |-> k, cites |-> cites, clean |-> TRUE, names |-> {1, 2}, secret |-> FALSE, size |-> 1]

MCClaims ==
  {Claim("fact", <<1>>), Claim("fact", <<1, 2>>), Claim("fact", <<2, 1, 3>>),
   Claim("conflict", <<1, 3>>), Claim("conflict", <<1, 2>>), Claim("caveat", <<>>),
   [Claim("caveat", <<2>>) EXCEPT !.secret = TRUE], [Claim("conflict", <<1, 3>>) EXCEPT !.names = {1}],
   [Claim("caveat", <<>>) EXCEPT !.clean = FALSE], [Claim("caveat", <<2>>) EXCEPT !.size = 0]}

Outputs(claims) ==
  {[formed |-> TRUE, secret |-> FALSE, claims |-> c] : c \in BoundedSeq(claims, 2)}
  \cup {[formed |-> FALSE, secret |-> FALSE, claims |-> <<>>]}

MCDrafts == Outputs(MCClaims)

Finding(k, private, cites) == [private |-> private] @@ Claim(k, cites)

MCFindings ==
  Outputs({Finding("fact", <<1>>, <<1, 2>>), Finding("conflict", <<2, 1>>, <<1, 3>>),
           Finding("context", <<>>, <<3>>), Finding("context", <<1>>, <<3>>),
           Finding("caveat", <<2>>, <<>>), Finding("fact", <<>>, <<1>>),
           Finding("fact", <<3>>, <<1>>)})

Chunk(heading, a, b) == [heading |-> heading, hits |-> <<a, b>>]

MCComparisons ==
  {[valid |-> v, secret |-> s, document |-> d, evidence |-> e] :
     v \in BOOLEAN, s \in BOOLEAN,
     d \in {<<>>, <<Chunk({}, 4, 0), Chunk({1}, 0, 0), Chunk({}, 3, 0)>>},
     e \in {<<>>, <<Page, PageAgain, Other, Rumour>>, <<Rumour, Stale, Other>>,
            <<[Page EXCEPT !.secret = TRUE]>>}}

MCTexts == {<<1>>, <<1, 2, 1>>, <<4, 1>>}

Source_(i, t, d, scope) == [id |-> i, tier |-> t, direct |-> d, scope |-> scope]
MCRegistry ==
  {Source_("a", "official", TRUE, {1, 2}), Source_("b", "official", TRUE, {3, 4}),
   Source_("c", "community", TRUE, {4, 5}), Source_("d", "community", FALSE, {1}),
   Source_("e", "official", TRUE, {2})}

Text_(i, s, says, text, t) ==
  [is |-> i, size |-> s, says |-> says, text |-> text, title |-> t, entries |-> <<>>,
   pages |-> <<>>, syntax |-> TRUE, passive |-> TRUE]

Entry(n) == [name |-> n, declared |-> 1, forbidden |-> FALSE, marked |-> FALSE, good |-> TRUE]
Archive(entries) == [Text_("docx", 1, "docx", "good", TRUE) EXCEPT !.entries = entries]

MCArchives ==
  {Archive(e) : e \in
     {<<Entry("types"), Entry("rels"), Entry("main"), Entry("more")>>,
      <<Entry("types"), Entry("main")>>,
      <<[Entry("types") EXCEPT !.good = FALSE], Entry("rels"), Entry("main"), Entry("types")>>,
      <<Entry("types"), Entry("rels"), Entry("main"), [Entry("more") EXCEPT !.good = FALSE]>>,
      <<Entry("types"), [Entry("rels") EXCEPT !.marked = TRUE], Entry("main")>>,
      <<Entry("main"), Entry("rels"), [Entry("types") EXCEPT !.forbidden = TRUE]>>,
      <<Entry("main"), [Entry("types") EXCEPT !.declared = 2], [Entry("rels") EXCEPT !.declared = 2]>>,
      <<Entry("main"), [Entry("types") EXCEPT !.declared = 3], Entry("rels")>>,
      <<Entry("main"), Entry("rels"), Entry("other"), Entry("other"), Entry("types")>>}}
  \cup {[Archive(<<Entry("types"), Entry("rels"), Entry("main")>>) EXCEPT !.text = x] :
          x \in {"empty", "bad"}}

PdfItems ==
  {<<>>, <<[len |-> 1, eol |-> FALSE]>>, <<[len |-> 0, eol |-> TRUE]>>,
   <<[len |-> 1, eol |-> FALSE], [len |-> 1, eol |-> FALSE]>>,
   <<[len |-> 1, eol |-> TRUE], [len |-> 0, eol |-> FALSE], [len |-> 2, eol |-> FALSE]>>,
   <<[len |-> 1, eol |-> FALSE], [len |-> 0, eol |-> TRUE], [len |-> 1, eol |-> TRUE]>>}

Pdf(pages) == [Text_("pdf", 1, "pdf", "good", TRUE) EXCEPT !.pages = pages]

MCPdfs ==
  {Pdf(p) : p \in BoundedSeq({[items |-> i, passive |-> TRUE] : i \in PdfItems}, 3)}
  \cup {Pdf([n \in 1..4 |-> [items |-> <<>>, passive |-> TRUE]]),
        Pdf(<<[items |-> <<[len |-> 1, eol |-> FALSE]>>, passive |-> TRUE],
              [items |-> <<>>, passive |-> FALSE]>>),
        [Pdf(<<[items |-> <<>>, passive |-> TRUE]>>) EXCEPT !.syntax = FALSE],
        [Pdf(<<[items |-> <<>>, passive |-> TRUE]>>) EXCEPT !.passive = FALSE]}

MCDocuments ==
  {Text_(i, 1, s, x, t) : i \in {"none", "other", "pdf", "docx"},
     s \in {"none", "text", "markdown", "pdf", "docx"},
     x \in {"good", "bad", "empty", "undecodable", "markup"}, t \in BOOLEAN}
  \cup {Text_("none", s, "text", "good", TRUE) : s \in {0, 3}}
  \cup MCArchives \cup MCPdfs

MCDnsAnswers == BoundedSeq({"p", "q", "private"}, 2)
====
