--------------------------- MODULE DocumentParser ---------------------------
(***************************************************************************)
(* extractPrivateDocument: what the worker thread of the private extractor *)
(* does with one document.  Text is decoded, an archive is read entry by   *)
(* entry before the reader of its text sees it, and a PDF is read page by  *)
(* page, its text laid out with separators that count against the bound.   *)
(* Whatever is thrown, what was opened is released.  Of a document the     *)
(* model keeps what the code asks about it; the scan of a PDF's syntax and *)
(* of an XML part is its verdict.                                          *)
(***************************************************************************)
EXTENDS Integers, SequencesExt, FiniteSetsExt

CONSTANTS
  Documents,     \* records, see the fields used below
  MaxDocument,   \* bytes of a document
  MaxEntries,    \* entries of an archive
  MaxEntryBytes, \* bytes of an entry
  MaxExpanded,   \* bytes of all entries, as the archive declares them
  MaxPages,      \* pages of a PDF
  MaxLaidOut     \* units of text, separators included

ASSUME ParserAssumption ==
  /\ MaxExpanded \in Nat /\ MaxLaidOut \in Nat
  /\ \A d \in Documents :
       /\ d.entries \in Seq(ToSet(d.entries)) /\ d.pages \in Seq(ToSet(d.pages))
       /\ \A i \in DOMAIN d.entries : d.entries[i].declared \in Nat
       /\ \A p \in DOMAIN d.pages :
            d.pages[p].items \in Seq([len : Nat, eol : BOOLEAN])

VARIABLES
  document,     \* the document and what its sender says it is
  ppc,          \* where the extraction is
  at,           \* entry or page that is next, or being read
  atItem,       \* item of the page that is laid out next
  expanded,     \* bytes declared by the entries so far
  parts,        \* names of the entries so far
  xml,          \* verdict of the last XML part of each name that is kept
  laidOut,      \* the PDF's text: its pieces, texts and separators
  total,        \* its length, as it is counted
  breakPending, \* a page had content and another follows
  open,         \* what is open: zip, task, pdf, page
  thrown,       \* category of the failure
  parsed        \* the result: none, or records type, title and text

laidVars == <<atItem, laidOut, total, breakPending>>
parserVars == <<document, ppc, at, expanded, parts, xml, laidVars, open, thrown, parsed>>

ParserInit ==
  /\ document \in Documents
  /\ ppc = "detect" /\ at = 1 /\ expanded = 0 /\ parts = {} /\ xml = << >>
  /\ atItem = 1 /\ laidOut = <<>> /\ total = 0 /\ breakPending = FALSE
  /\ open = {} /\ thrown = "none" /\ parsed = <<>>

\* The error leaves the function: where the code catches none, at once; in a
\* PDF through the release of what is open.
Throw(category) ==
  /\ thrown' = category
  /\ open' = open \ {"page", "zip"}
  /\ ppc' = (IF "task" \in open THEN "release" ELSE "done")
  /\ UNCHANGED parsed

\* A title or text the protocol refuses; an unsafe title has a fallback.
Finalize(type, text) ==
  IF document.text = "good"
  THEN /\ parsed' = <<[type |-> type, title |-> IF document.title THEN "own" ELSE "fallback",
                       text |-> text]>>
       /\ ppc' = (IF "task" \in open THEN "release" ELSE "done")
       /\ UNCHANGED <<open, thrown>>
  ELSE Throw("text-unavailable")

ReadText(type) ==
  \/ /\ document.text = "undecodable" /\ Throw("text-unavailable")
  \/ /\ document.text = "markup" /\ Throw("unsafe")
  \/ /\ document.text \notin {"undecodable", "markup"} /\ Finalize(type, <<>>)

\* What the bytes are, against what the sender says they are.
Detect ==
  /\ ppc = "detect"
  /\ LET d == document
         unsupported == d.size \notin 1..MaxDocument \/ d.says = "none" \/ d.is = "other"
         spoofed == \/ d.is = "pdf" /\ d.says # "pdf"
                    \/ d.is = "docx" /\ d.says # "docx"
         mistaken == d.is = "none" /\ d.says \notin {"text", "markdown"}
     IN  \/ /\ unsupported \/ mistaken
            /\ Throw("unsupported")
         \/ /\ ~unsupported /\ spoofed
            /\ Throw("spoofed")
         \/ /\ ~unsupported /\ ~spoofed /\ d.is = "none" /\ ~mistaken
            /\ ReadText(d.says)
         \/ /\ ~unsupported /\ ~spoofed /\ d.is = "docx"
            /\ ppc' = "unzip"
            /\ UNCHANGED <<open, thrown, parsed>>
         \/ /\ ~unsupported /\ ~spoofed /\ d.is = "pdf" /\ d.syntax
            /\ ppc' = "load" /\ open' = {"task"}
            /\ UNCHANGED <<thrown, parsed>>
         \/ /\ ~unsupported /\ ~spoofed /\ d.is = "pdf" /\ ~d.syntax
            /\ Throw("unsafe")
  /\ UNCHANGED <<document, at, expanded, parts, xml, laidVars>>

-----------------------------------------------------------------------------
\* The archive.  One entry is asked for at a time.

Unzip(opened) ==
  /\ ppc = "unzip"
  /\ IF opened
     THEN ppc' = "entry" /\ open' = {"zip"} /\ UNCHANGED <<thrown, parsed>>
     ELSE Throw("unsafe")
  /\ UNCHANGED <<document, at, expanded, parts, xml, laidVars>>

\* A name, flag or ratio that is refused, and the bounds.
EntryRefused(e) ==
  \/ at > MaxEntries \/ e.forbidden \/ e.declared > MaxEntryBytes
  \/ expanded + e.declared > MaxExpanded

OnEntry ==
  /\ ppc = "entry" /\ at <= Len(document.entries)
  /\ LET e == document.entries[at]
     IN  \/ /\ EntryRefused(e)
            /\ Throw("unsafe")
            /\ UNCHANGED <<expanded, parts>>
         \/ /\ ~EntryRefused(e)
            /\ expanded' = expanded + e.declared
            /\ parts' = parts \cup {e.name}
            /\ ppc' = "stream"
            /\ UNCHANGED <<open, thrown, parsed>>
  /\ UNCHANGED <<document, at, xml, laidVars>>

\* consumeZipEntry: the bytes that really come, their size and markers; of the
\* parts that are kept a later one of the same name replaces the earlier.
EntryRead ==
  /\ ppc = "stream"
  /\ LET e == document.entries[at]
     IN  \/ /\ e.marked
            /\ Throw("unsafe")
            /\ UNCHANGED <<at, xml>>
         \/ /\ ~e.marked
            /\ xml' = (IF e.name \in {"types", "rels", "more"}
                       THEN [n \in DOMAIN xml \cup {e.name} |-> IF n = e.name THEN e.good ELSE xml[n]]
                       ELSE xml)
            /\ at' = at + 1 /\ ppc' = "entry"
            /\ UNCHANGED <<open, thrown, parsed>>
  /\ UNCHANGED <<document, expanded, parts, laidVars>>

\* The archive or the stream of an entry is broken.
ZipFails ==
  /\ ppc \in {"entry", "stream"}
  /\ Throw("unsafe")
  /\ UNCHANGED <<document, at, expanded, parts, xml, laidVars>>

\* finish: the three parts must be there; the archive is closed either way.
OnEnd ==
  /\ ppc = "entry" /\ at > Len(document.entries)
  /\ IF {"types", "rels", "main"} \subseteq parts
     THEN ppc' = "structure" /\ open' = {} /\ UNCHANGED <<thrown, parsed>>
     ELSE Throw("unsafe")
  /\ UNCHANGED <<document, at, expanded, parts, xml, laidVars>>

\* inspectDocxStructure looks at the content types and all relationships.
InspectDocxStructure ==
  /\ ppc = "structure"
  /\ IF \A n \in DOMAIN xml : xml[n]
     THEN ppc' = "raw" /\ UNCHANGED <<open, thrown, parsed>>
     ELSE Throw("unsafe")
  /\ UNCHANGED <<document, at, expanded, parts, xml, laidVars>>

ExtractRawText(works) ==
  /\ ppc = "raw"
  /\ IF works /\ document.text # "empty" THEN Finalize("docx", <<>>) ELSE Throw("text-unavailable")
  /\ UNCHANGED <<document, at, expanded, parts, xml, laidVars>>

-----------------------------------------------------------------------------
\* The PDF.

LoadPdf ==
  /\ ppc = "load"
  /\ open' = open \cup {"pdf"}
  /\ LET n == Len(document.pages)
     IN  ppc' = (IF n \in 1..MaxPages /\ document.passive THEN "page" ELSE "release")
         /\ thrown' = CASE n \notin 1..MaxPages -> "unsupported"
                        [] n \in 1..MaxPages /\ ~document.passive -> "unsafe"
                        [] OTHER -> thrown
  /\ UNCHANGED <<document, at, expanded, parts, xml, laidVars, parsed>>

GetPage ==
  /\ ppc = "page" /\ at <= Len(document.pages)
  /\ open' = open \cup {"page"} /\ ppc' = "content"
  /\ UNCHANGED <<document, at, expanded, parts, xml, laidVars, thrown, parsed>>

Items == document.pages[at].items

HasContent(items) == \E i \in DOMAIN items : items[i].len > 0 \/ items[i].eol

\* Is there text after the item, on its page?
Follows(items, i) == \E j \in DOMAIN items : j > i /\ items[j].len > 0

\* A piece of the text, where it comes from and where it begins.
Piece(kind, i, len, from) == [kind |-> kind, place |-> <<at, i>>, len |-> len, from |-> from]

\* The page's text, annotations and actions came; a break that is pending is
\* put before a page with content.
PageRead ==
  /\ ppc = "content"
  /\ LET breaks == breakPending /\ HasContent(Items)
     IN  \/ /\ ~document.pages[at].passive
            /\ Throw("unsafe")
            /\ UNCHANGED laidVars
         \/ /\ document.pages[at].passive /\ breaks /\ total + 1 > MaxLaidOut
            /\ Throw("text-unavailable")
            /\ UNCHANGED laidVars
         \/ /\ document.pages[at].passive /\ ~(breaks /\ total + 1 > MaxLaidOut)
            /\ IF breaks
               THEN /\ laidOut' = Append(laidOut, Piece("line", 0, 1, total))
                    /\ total' = total + 1 /\ breakPending' = FALSE
               ELSE UNCHANGED <<laidOut, total, breakPending>>
            /\ atItem' = 1 /\ ppc' = "layout"
            /\ UNCHANGED <<open, thrown, parsed>>
  /\ UNCHANGED <<document, at, expanded, parts, xml>>

\* One item: its text, and a separator if text follows on the page.  Lengths
\* count up, so the bound that both pass is the one the code asks after each.
PutItem ==
  /\ ppc = "layout" /\ atItem <= Len(Items)
  /\ LET item == Items[atItem]
         separates == Follows(Items, atItem) /\ (item.eol \/ item.len > 0)
         text == IF item.len > 0 THEN Append(laidOut, Piece("text", atItem, item.len, total)) ELSE laidOut
         end == total + item.len
         length == IF separates THEN end + 1 ELSE end
     IN  \/ /\ length > MaxLaidOut
            /\ Throw("text-unavailable")
            /\ UNCHANGED laidVars
         \/ /\ length <= MaxLaidOut
            /\ laidOut' = (IF separates
                           THEN Append(text, Piece(IF item.eol THEN "line" ELSE "space", atItem, 1, end))
                           ELSE text)
            /\ total' = length /\ atItem' = atItem + 1
            /\ UNCHANGED <<ppc, breakPending, open, thrown, parsed>>
  /\ UNCHANGED <<document, at, expanded, parts, xml>>

\* Broken: a page without content forgets the break.
StillPending_Forgets == HasContent(Items) /\ at < Len(document.pages)

\* Does the next page with content begin with a break?
StillPending == breakPending \/ (HasContent(Items) /\ at < Len(document.pages))

\* All items are laid out; the page is released, as it is when one fails.
PageEnds ==
  /\ ppc = "layout" /\ atItem > Len(Items)
  /\ breakPending' = StillPending
  /\ open' = open \ {"page"}
  /\ at' = at + 1 /\ ppc' = "page"
  /\ UNCHANGED <<document, expanded, parts, xml, atItem, laidOut, total, thrown, parsed>>

PdfRead ==
  /\ ppc = "page" /\ at > Len(document.pages)
  /\ IF \E k \in DOMAIN laidOut : laidOut[k].kind = "text"
     THEN Finalize("pdf", laidOut) ELSE Throw("text-unavailable")
  /\ UNCHANGED <<document, at, expanded, parts, xml, laidVars>>

\* A call of the PDF library rejects.
PdfFails ==
  /\ \/ ppc \in {"load", "content"}
     \/ ppc = "page" /\ at <= Len(document.pages)
  /\ Throw("text-unavailable")
  /\ UNCHANGED <<document, at, expanded, parts, xml, laidVars>>

\* finally: document.cleanup, then loadingTask.destroy.
ReleasePdf ==
  /\ ppc = "release"
  /\ IF "pdf" \in open THEN open' = open \ {"pdf"} /\ UNCHANGED ppc
     ELSE open' = {} /\ ppc' = "done"
  /\ UNCHANGED <<document, at, expanded, parts, xml, laidVars, thrown, parsed>>

ParserStep ==
  \/ Detect
  \/ \E opened \in BOOLEAN : Unzip(opened)
  \/ OnEntry \/ EntryRead \/ ZipFails \/ OnEnd \/ InspectDocxStructure
  \/ \E works \in BOOLEAN : ExtractRawText(works)
  \/ LoadPdf \/ GetPage \/ PageRead \/ PutItem \/ PageEnds \/ PdfRead \/ PdfFails \/ ReleasePdf

ParserTypeOK ==
  /\ ppc \in {"detect", "unzip", "entry", "stream", "structure", "raw", "load", "page",
              "content", "layout", "release", "done"}
  /\ open \subseteq {"zip", "task", "pdf", "page"}
  /\ thrown \in {"none", "unsupported", "spoofed", "unsafe", "text-unavailable"}
  /\ Len(parsed) <= 1

ParserReleased ==
  /\ ppc = "done" => open = {} /\ (thrown = "none" <=> parsed # <<>>)
  /\ "page" \in open => "pdf" \in open
  /\ "pdf" \in open => "task" \in open

\* The order of the places of a document: by page, then by item.
Precedes(p, q) == p[1] < q[1] \/ (p[1] = q[1] /\ p[2] < q[2])

TextAt(pages, p) == pages[p[1]].items[p[2]]

\* Where the document has text.
TextPlaces(pages) ==
  UNION {{<<n, i>> : i \in {j \in DOMAIN pages[n].items : TextAt(pages, <<n, j>>).len > 0}} :
           n \in DOMAIN pages}

TextsOf(out) == {k \in DOMAIN out : out[k].kind = "text"}

\* Between two texts there is a separator, and a line break where the first
\* ends its line or a page turns.
Apart(pages, out, k, l) ==
  \E m \in (k + 1)..(l - 1) :
    /\ out[m].kind # "text"
    /\ TextAt(pages, out[k].place).eol \/ out[k].place[1] # out[l].place[1] => out[m].kind = "line"

\* Every piece begins where the one before it ends, the first at 0, and the
\* last ends at n.
Tiled(out, n) ==
  LET end(k) == IF k = 0 THEN 0 ELSE out[k].from + out[k].len
  IN  (\A k \in DOMAIN out : out[k].from = end(k - 1)) /\ n = end(Len(out))

\* The text of a PDF against its pages: every text of every page, once and in
\* its order, any two of them apart, and the bound counts all pieces.
LaidOutWhole(pages, out, n) ==
  /\ {out[k].place : k \in TextsOf(out)} = TextPlaces(pages)
  /\ \A k \in TextsOf(out) : out[k].len = TextAt(pages, out[k].place).len
  /\ \A k, l \in TextsOf(out) : k < l =>
       Precedes(out[k].place, out[l].place) /\ Apart(pages, out, k, l)
  /\ Tiled(out, n) /\ n <= MaxLaidOut

\* A result is given for a document only that is what its sender says, every
\* entry or page of which was looked at and is harmless, and that has the parts
\* it needs.
ParsedIsChecked ==
  parsed # <<>> =>
    LET type == parsed[1].type
    IN  /\ document.says = type
        /\ document.is = (IF type \in {"pdf", "docx"} THEN type ELSE "none")
        /\ document.text = "good"
        /\ type = "docx" =>
             /\ \A i \in DOMAIN document.entries :
                  ~document.entries[i].forbidden /\ ~document.entries[i].marked
             /\ {"types", "rels", "main"} \subseteq {e.name : e \in ToSet(document.entries)}
             /\ expanded <= MaxExpanded
        /\ type = "pdf" =>
             /\ document.syntax /\ document.passive
             /\ \A p \in DOMAIN document.pages : document.pages[p].passive

\* It is checked, and the text of a PDF is whole.
ParsedIsWhole ==
  /\ ParsedIsChecked
  /\ parsed # <<>> /\ parsed[1].type = "pdf" => LaidOutWhole(document.pages, parsed[1].text, total)
=============================================================================
