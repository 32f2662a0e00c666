--------------------------- MODULE GroundedAnswer ---------------------------
(***************************************************************************)
(* answerQuestion: one question from its validation to the text that is    *)
(* sent.  Evidence is retrieved, refreshed by live discovery when there is *)
(* none or some is stale, put to a model, and the claims the model writes  *)
(* are parsed, verified by a second call and rendered with their sources.  *)
(* Every call may throw or return something unusable.                      *)
(***************************************************************************)
EXTENDS Evidence

CONSTANTS
  Questions,   \* records: valid, secret, greeting, discover, models
  Retrievals,  \* sequences of items the index can return
  Drafts       \* outputs of the model: records formed, secret, claims

ASSUME AnswerAssumption ==
  /\ \A items \in Retrievals : OfIndex(items)
  /\ \A d \in Drafts : OfModel(d.claims)

VARIABLES
  question,    \* the question with the configuration it meets
  qpc,         \* where answerQuestion is
  first,       \* firstInteraction of the persistence result
  evidence,    \* the snapshot in use
  draft,       \* the claims generated
  supported,   \* positions of the claims the verifier supports
  usage,       \* completions handed to recordUsage, whose failure is ignored
  reply        \* the text: kind, notice, text

answerVars == <<question, qpc, first, evidence, draft, supported, usage, reply>>

NoReply == [kind |-> "none", notice |-> FALSE, text |-> NoText]

AnswerInit ==
  /\ question \in Questions
  /\ qpc = "received"
  /\ first = FALSE
  /\ evidence = <<>>
  /\ draft = <<>>
  /\ supported = {}
  /\ usage = 0
  /\ reply = NoReply

\* withNotice: the retention notice precedes the first answer of a user.
Returns(kind, notice, text) ==
  /\ reply' = [kind |-> kind, notice |-> notice, text |-> text]
  /\ qpc' = "done"

Says(kind) == Returns(kind, first, NoText)

Received ==
  /\ qpc = "received"
  /\ question.valid /\ ~question.secret
  /\ qpc' = "persist"
  /\ UNCHANGED <<question, first, evidence, draft, supported, usage, reply>>

\* Nothing of a question that is malformed or holds a secret is stored.
Refused ==
  /\ qpc = "received"
  /\ ~question.valid \/ question.secret
  /\ Says(IF question.valid THEN "secret" ELSE "invalid")
  /\ UNCHANGED <<question, first, evidence, draft, supported, usage>>

\* The dependencies are not valid, persist throws or its result is malformed:
\* no notice.
PersistFails ==
  /\ qpc = "persist"
  /\ Returns("dependency", FALSE, NoText)
  /\ UNCHANGED <<question, first, evidence, draft, supported, usage>>

Persisted(isFirst, blocked, existing) ==
  /\ qpc = "persist"
  /\ first' = isFirst
  /\ LET known == CASE blocked -> "insufficient"
                     [] ~blocked /\ existing = "secret" -> "secret"
                     [] ~blocked /\ existing = "text" -> "existing"
                     [] ~blocked /\ existing = "none" ->
                          IF question.greeting THEN "greeting" ELSE "none"
     IN  \/ known # "none" /\ Returns(known, isFirst, NoText)
         \/ known = "none" /\ qpc' = "retrieve" /\ UNCHANGED reply
  /\ UNCHANGED <<question, evidence, draft, supported, usage>>

\* The reasons to stop before any model is called, in their order.
Refusal(items) ==
  IF items = <<>> THEN "insufficient"
  ELSE IF AnySecret(items) \/ question.models = "secret" THEN "secret"
  ELSE IF question.models = "none" THEN "insufficient"
  ELSE IF question.models = "invalid" THEN "dependency"
  ELSE "none"

\* The evidence is settled.
Proceed(items) ==
  \/ Refusal(items) # "none" /\ Says(Refusal(items))
  \/ Refusal(items) = "none" /\ qpc' = "generate" /\ UNCHANGED reply

Retrieved(items) ==
  /\ qpc = "retrieve"
  /\ IF ~SnapshotValid(items)
     THEN Says("insufficient") /\ UNCHANGED evidence
     ELSE /\ evidence' = items
          /\ IF (items = <<>> \/ AnyStale(items)) /\ question.discover
             THEN qpc' = "discover" /\ UNCHANGED reply
             ELSE Proceed(items)
  /\ UNCHANGED <<question, first, draft, supported, usage>>

\* retrieve throws, or its result is no array.
RetrieveFails ==
  /\ qpc = "retrieve"
  /\ Says("dependency")
  /\ UNCHANGED <<question, first, evidence, draft, supported, usage>>

Discovered ==
  /\ qpc = "discover"
  /\ qpc' = "refresh"
  /\ UNCHANGED <<question, first, evidence, draft, supported, usage, reply>>

\* Discovery, or the retrieval after it, fails: the original evidence stays.
DiscoveryFails ==
  /\ qpc \in {"discover", "refresh"}
  /\ Proceed(evidence)
  /\ UNCHANGED <<question, first, evidence, draft, supported, usage>>

\* Broken: an empty result replaces the evidence.
Refresh_Always(items) == IF SnapshotValid(items) THEN items ELSE evidence

Refresh(items) == IF SnapshotValid(items) /\ items # <<>> THEN items ELSE evidence

Refreshed(items) ==
  /\ qpc = "refresh"
  /\ evidence' = Refresh(items)
  /\ Proceed(Refresh(items))
  /\ UNCHANGED <<question, first, draft, supported, usage>>

-----------------------------------------------------------------------------
\* parseGeneratedAnswer, one claim.
ClaimAccepted(c, items) ==
  /\ c.clean
  /\ Known(c.cites, items)
  /\ c.kind \in {"fact", "conflict"} => c.cites # <<>>
  /\ c.kind = "fact" => ~AllUnverified(Cited(c.cites, items))
  /\ c.kind = "conflict" => ConflictShown(c, Cited(c.cites, items))

\* One claim that breaks a rule refuses the whole output.
ParseGeneratedAnswer(d, items) ==
  /\ d.formed
  /\ Len(d.claims) \in 1..MaxClaims
  /\ \A i \in DOMAIN d.claims : ClaimAccepted(d.claims[i], items)
  /\ SumSizes(d.claims) <= MaxDraftSize

\* A throw, or a completion whose shape, model or counts are not valid.
CompletionFails ==
  /\ qpc \in {"generate", "verify"}
  /\ Says("insufficient")
  /\ UNCHANGED <<question, first, evidence, draft, supported, usage>>

\* A completion with a wallet secret is neither recorded nor read.
CompletionSecret ==
  /\ qpc \in {"generate", "verify"}
  /\ Says("secret")
  /\ UNCHANGED <<question, first, evidence, draft, supported, usage>>

Generated(d) ==
  /\ qpc = "generate"
  /\ usage' = usage + 1
  /\ IF ParseGeneratedAnswer(d, evidence)
     THEN draft' = d.claims /\ qpc' = "verify" /\ UNCHANGED reply
     ELSE Says("insufficient") /\ UNCHANGED draft
  /\ UNCHANGED <<question, first, evidence, supported>>

\* Claims left without text or, unless caveats, without a citation are dropped.
Prepared(claims) ==
  LET kept == {i \in DOMAIN claims :
                 claims[i].size > 0 /\ (claims[i].cites # <<>> \/ claims[i].kind = "caveat")}
  IN  [i \in kept |->
        [claim |-> claims[i], cited |-> UniqueCited(Cited(claims[i].cites, evidence))]]

SupportedClaims(s) == Restrict(draft, s)

\* The verifier answered, but not with one boolean for each claim.
SupportMalformed ==
  /\ qpc = "verify"
  /\ usage' = usage + 1
  /\ Says("insufficient")
  /\ UNCHANGED <<question, first, evidence, draft, supported>>

Verified(s) ==
  /\ qpc = "verify"
  /\ usage' = usage + 1
  /\ supported' = s
  /\ LET text == RenderAnswer(Prepared(SupportedClaims(s)))
     IN  IF text = NoText \/ TextSecret(text)
         THEN Says("insufficient")
         ELSE Returns("rendered", first, text)
  /\ UNCHANGED <<question, first, evidence, draft>>

-----------------------------------------------------------------------------
AnswerStep ==
  \/ Received \/ Refused
  \/ PersistFails
  \/ \E isFirst, blocked \in BOOLEAN, existing \in {"none", "text", "secret"} :
       Persisted(isFirst, blocked, existing)
  \/ \E items \in Retrievals : Retrieved(items) \/ Refreshed(items)
  \/ RetrieveFails \/ Discovered \/ DiscoveryFails
  \/ CompletionFails \/ CompletionSecret
  \/ \E d \in Drafts : Generated(d)
  \/ SupportMalformed
  \/ qpc = "verify" /\ \E s \in SUBSET DOMAIN draft : Verified(s)

AnswerTypeOK ==
  /\ question \in Questions
  /\ qpc \in {"received", "persist", "retrieve", "discover", "refresh", "generate", "verify", "done"}
  /\ first \in BOOLEAN
  /\ evidence \in Retrievals \cup {<<>>}
  /\ supported \subseteq DOMAIN draft
  /\ usage \in 0..2
  /\ reply.kind \in {"none", "invalid", "secret", "dependency", "insufficient", "greeting",
                     "existing", "rendered"}

AnswerResolves == Resolves(reply.text, evidence)
AnswerGrounded ==
  /\ Grounded(reply.text, evidence, {draft[i] : i \in supported})
  /\ reply.kind = "rendered" => usage = 2
=============================================================================
