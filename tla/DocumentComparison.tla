------------------------- MODULE DocumentComparison -------------------------
(***************************************************************************)
(* comparePrivateDocument: a private document, cut into chunks of which    *)
(* the best for the caption are kept, compared with public evidence by two *)
(* calls of a model.  Claims cite the file ("Uk", chunk k here) and        *)
(* Cardano evidence ("Ek"); only a failure of the provider is thrown.      *)
(***************************************************************************)
EXTENDS Evidence

CONSTANTS
  Comparisons,     \* records: valid, secret, document, evidence
  Findings,        \* outputs of the model: records formed, secret, claims
  MaxChunks,       \* chunks of the document that are kept
  MaxPublic        \* items of public evidence that are kept

ASSUME ComparisonAssumption ==
  /\ \A c \in Comparisons : OfIndex(c.evidence)
  /\ \A d \in Findings : OfModel(d.claims)
  /\ MaxPublic \in Nat

VARIABLES
  comparison,      \* the input
  dpc,             \* where comparePrivateDocument is
  chunks,          \* ordinals of the chunks kept, best first
  public,          \* the snapshot of the evidence
  findings,        \* the claims generated
  confirmed,       \* positions of the claims the verifier supports
  billed,          \* completions handed to recordUsage
  verdict          \* kind and text; "thrown" names the provider's failure

comparisonVars == <<comparison, dpc, chunks, public, findings, confirmed, billed, verdict>>

ComparisonInit ==
  /\ comparison \in Comparisons
  /\ dpc = "input"
  /\ chunks = <<>>
  /\ public = <<>>
  /\ findings = <<>>
  /\ confirmed = {}
  /\ billed = 0
  /\ verdict = [kind |-> "none", text |-> NoText]

Gives(kind, text) ==
  /\ verdict' = [kind |-> kind, text |-> text]
  /\ dpc' = "done"

\* The heading counts 5 for a term of the caption, the content up to 3.
ScoreOf(chunk) ==
  MapThenSumSet(LAMBDA t : (IF t \in chunk.heading THEN 5 ELSE 0) + Min({3, chunk.hits[t]}),
                DOMAIN chunk.hits)

\* The best chunks, equal scores in the order of the document.
SelectPrivateChunks(document) ==
  LET better(i, j) == \/ ScoreOf(document[i]) > ScoreOf(document[j])
                      \/ ScoreOf(document[i]) = ScoreOf(document[j]) /\ i < j
      ranked == SetToSortSeq(DOMAIN document, better)
  IN  SubSeq(ranked, 1, Min({MaxChunks, Len(ranked)}))

\* More than ten items are refused; of ten, the first MaxPublic are used.
Retained(items) == SubSeq(items, 1, Min({MaxPublic, Len(items)}))
PublicEvidenceValid(items) == Len(items) <= MaxEvidence /\ SnapshotValid(Retained(items))

\* A field of the wrong shape is "dependency" and a secret "secret", whichever
\* is met first.
Refusals(items, kept) ==
  IF ~comparison.valid /\ comparison.secret THEN {"dependency", "secret"}
  ELSE IF comparison.secret THEN {"secret"}
  ELSE IF ~comparison.valid \/ ~PublicEvidenceValid(comparison.evidence) THEN {"dependency"}
  ELSE IF kept = <<>> \/ items = <<>> THEN {"insufficient"}
  ELSE IF AnySecret(items) THEN {"secret"}
  ELSE {}

CanonicalInput ==
  /\ dpc = "input"
  /\ LET items == Retained(comparison.evidence)
         kept == SelectPrivateChunks(comparison.document)
     IN  \/ /\ \E kind \in Refusals(items, kept) : Gives(kind, NoText)
            /\ UNCHANGED <<chunks, public>>
         \/ /\ Refusals(items, kept) = {}
            /\ chunks' = kept
            /\ public' = items
            /\ dpc' = "generation"
            /\ UNCHANGED verdict
  /\ UNCHANGED <<comparison, findings, confirmed, billed>>

\* complete threw: the one failure the caller may try again.
ProviderFails ==
  /\ dpc \in {"generation", "verification"}
  /\ Gives("thrown", NoText)
  /\ UNCHANGED <<comparison, chunks, public, findings, confirmed, billed>>

\* The output has the wrong shape, model or counts, or holds a secret.
OutputRefused ==
  /\ dpc \in {"generation", "verification"}
  /\ \E kind \in {"dependency", "secret"} : Gives(kind, NoText)
  /\ UNCHANGED <<comparison, chunks, public, findings, confirmed, billed>>

\* The file and Cardano: who must be cited depends on the kind of claim.
FindingAccepted(c) ==
  /\ c.clean
  /\ Known(c.private, chunks) /\ Known(c.cites, public)
  /\ c.kind \in {"fact", "conflict"} => c.private # <<>> /\ c.cites # <<>>
  /\ c.kind = "context" => c.private = <<>> /\ c.cites # <<>>
  /\ c.kind = "caveat" => c.private # <<>> \/ c.cites # <<>>
  /\ c.kind \in {"fact", "conflict"} => ~AllUnverified(Cited(c.cites, public))
  /\ c.kind = "conflict" => ConflictShown(c, Cited(c.cites, public))

ParseClaims(d) ==
  /\ d.formed
  /\ Len(d.claims) \in 1..MaxClaims
  /\ \A i \in DOMAIN d.claims : FindingAccepted(d.claims[i])
  /\ SumSizes(d.claims) <= MaxDraftSize

Finds(d) ==
  /\ dpc = "generation"
  /\ billed' = billed + 1
  /\ IF ParseClaims(d)
     THEN findings' = d.claims /\ dpc' = "verification" /\ UNCHANGED verdict
     ELSE Gives("insufficient", NoText) /\ UNCHANGED findings
  /\ UNCHANGED <<comparison, chunks, public, confirmed>>

ConfirmMalformed ==
  /\ dpc = "verification"
  /\ billed' = billed + 1
  /\ Gives("insufficient", NoText)
  /\ UNCHANGED <<comparison, chunks, public, findings, confirmed>>

\* Citations of one provenance become one number.
RenderClaims(s) ==
  [i \in s |-> [claim |-> findings[i], cited |-> UniqueCited(Cited(findings[i].cites, public))]]

Confirms(s) ==
  /\ dpc = "verification"
  /\ billed' = billed + 1
  /\ confirmed' = s
  /\ LET text == RenderAnswer(RenderClaims(s))
     IN  IF text = NoText \/ TextSecret(text)
         THEN Gives("insufficient", NoText)
         ELSE Gives("rendered", text)
  /\ UNCHANGED <<comparison, chunks, public, findings>>

ComparisonStep ==
  \/ CanonicalInput
  \/ ProviderFails \/ OutputRefused
  \/ \E d \in Findings : Finds(d)
  \/ ConfirmMalformed
  \/ dpc = "verification" /\ \E s \in SUBSET DOMAIN findings : Confirms(s)

ComparisonTypeOK ==
  /\ comparison \in Comparisons
  /\ dpc \in {"input", "generation", "verification", "done"}
  /\ ToSet(chunks) \subseteq DOMAIN comparison.document
  /\ confirmed \subseteq DOMAIN findings
  /\ billed \in 0..2
  /\ verdict.kind \in {"none", "secret", "dependency", "insufficient", "thrown", "rendered"}

ComparisonResolves == Resolves(verdict.text, public)

\* A fact or a conflict compares: it cites the file as well.
ComparisonGrounded ==
  /\ Grounded(verdict.text, public, {findings[i] : i \in confirmed})
  /\ \A i \in DOMAIN verdict.text.lines :
       LET c == verdict.text.lines[i].claim
       IN  /\ c.kind \in {"fact", "conflict"} => c.private # <<>>
           /\ ToSet(c.private) \subseteq DOMAIN chunks
  /\ verdict.kind = "rendered" => billed = 2
=============================================================================
