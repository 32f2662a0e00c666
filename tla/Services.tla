------------------------------ MODULE Services ------------------------------
(***************************************************************************)
(* What one answer, one comparison, one call, one request, one process,    *)
(* one search, one file store, one parser or one fetch does from its       *)
(* beginning to its end: the parts of the bot that share no state.  A      *)
(* behaviour is about one of them, and the others stay as they began.      *)
(***************************************************************************)
EXTENDS GroundedAnswer, DocumentComparison, ModelCalls, WebhookRequest, Processes,
        LiveSearch, FileStore, DocumentParser, PublicFetch

VARIABLE part  \* the part a behaviour is about

Parts == {"answer", "comparison", "call", "webhook", "process", "search", "store",
          "parser", "fetch"}

vars == <<part, answerVars, comparisonVars, callVars, webhookVars, processVars, searchVars,
          fileVars, parserVars, fetchVars>>

\* The parts a behaviour is not about begin in one of their initial states.
Pinned ==
  /\ part # "answer" => question = CHOOSE q \in Questions : TRUE
  /\ part # "comparison" => comparison = CHOOSE c \in Comparisons : TRUE
  /\ part # "call" => client = "embedding" /\ texts = CHOOSE t \in Texts : TRUE
  /\ part # "process" => mode = "once"
  /\ part # "parser" => document = CHOOSE d \in Documents : TRUE

Init ==
  /\ part \in Parts
  /\ Pinned
  /\ AnswerInit /\ ComparisonInit /\ CallInit /\ WebhookInit /\ ProcessInit /\ SearchInit
  /\ FileInit /\ ParserInit /\ FetchInit

AnswerOrComparison == <<answerVars, comparisonVars>>
CallOrWebhook == <<callVars, webhookVars>>
SearchOrStore == <<searchVars, fileVars>>
ParserOrFetch == <<parserVars, fetchVars>>
Rest == <<processVars, SearchOrStore, ParserOrFetch>>

Answers ==
  /\ part = "answer" /\ AnswerStep
  /\ UNCHANGED <<part, comparisonVars, CallOrWebhook, Rest>>
Compares ==
  /\ part = "comparison" /\ ComparisonStep
  /\ UNCHANGED <<part, answerVars, CallOrWebhook, Rest>>
Calls ==
  /\ part = "call" /\ CallStep
  /\ UNCHANGED <<part, AnswerOrComparison, webhookVars, Rest>>
CallChanges ==
  /\ part = "call" /\ CallerAborts
  /\ UNCHANGED <<part, AnswerOrComparison, webhookVars, Rest>>
Receives ==
  /\ part = "webhook" /\ WebhookStep
  /\ UNCHANGED <<part, AnswerOrComparison, callVars, Rest>>
SenderChanges ==
  /\ part = "webhook" /\ SenderLeaves
  /\ UNCHANGED <<part, AnswerOrComparison, callVars, Rest>>
Runs ==
  /\ part = "process" /\ ProcessStep
  /\ UNCHANGED <<part, AnswerOrComparison, CallOrWebhook, SearchOrStore, ParserOrFetch>>
ProcessChanges ==
  /\ part = "process" /\ ProcessWorld
  /\ UNCHANGED <<part, AnswerOrComparison, CallOrWebhook, SearchOrStore, ParserOrFetch>>
Searches ==
  /\ part = "search" /\ SearchStep
  /\ UNCHANGED <<part, AnswerOrComparison, CallOrWebhook, processVars, fileVars, ParserOrFetch>>
Stores ==
  /\ part = "store" /\ FileStep
  /\ UNCHANGED <<part, AnswerOrComparison, CallOrWebhook, processVars, searchVars, ParserOrFetch>>
Parses ==
  /\ part = "parser" /\ ParserStep
  /\ UNCHANGED <<part, AnswerOrComparison, CallOrWebhook, processVars, SearchOrStore, fetchVars>>
Fetches ==
  /\ part = "fetch" /\ FetchStep
  /\ UNCHANGED <<part, AnswerOrComparison, CallOrWebhook, processVars, SearchOrStore, parserVars>>
FetchChanges ==
  /\ part = "fetch" /\ SignalExpires
  /\ UNCHANGED <<part, AnswerOrComparison, CallOrWebhook, processVars, SearchOrStore, parserVars>>

Rested ==
  /\ part = "answer" => qpc = "done"
  /\ part = "comparison" => dpc = "done"
  /\ part = "call" => CallEnded
  /\ part = "webhook" => wpc = "answered"
  /\ part = "process" => ProcessEnded \/ ProcessWaits
  /\ part = "search" => lpc = "done"
  /\ part = "store" => fpc = "idle"
  /\ part = "parser" => ppc = "done"
  /\ part = "fetch" => gpc = "done"

Quiescent == Rested /\ UNCHANGED vars

Next ==
  \/ Answers \/ Compares
  \/ Calls \/ CallChanges
  \/ Receives \/ SenderChanges
  \/ Runs \/ ProcessChanges
  \/ Searches \/ Stores \/ Parses
  \/ Fetches \/ FetchChanges
  \/ Quiescent

\* Every await of these parts ends by itself or by a timer: the calls have
\* their 45 seconds, the drain 15, a search and its links one deadline.
Fairness ==
  /\ WF_vars(Answers) /\ WF_vars(Compares)
  /\ WF_vars(Calls) /\ WF_vars(Receives)
  /\ WF_vars(Runs) /\ WF_vars(Searches) /\ WF_vars(Stores)
  /\ WF_vars(Parses) /\ WF_vars(Fetches)

Spec == Init /\ [][Next]_vars
FairSpec == Spec /\ Fairness

-----------------------------------------------------------------------------
\* Every variable of every part has its type.
TypeOK ==
  /\ part \in Parts
  /\ AnswerTypeOK /\ ComparisonTypeOK /\ CallTypeOK /\ WebhookTypeOK
  /\ ProcessTypeOK /\ SearchTypeOK /\ FileTypeOK /\ ParserTypeOK /\ FetchTypeOK

\* The numbers of a rendered text resolve: each claim's numbers stand for just
\* the provenances it cites, whatever was merged, dropped or shortened since
\* (renderAnswer.ts, renderClaims of comparePrivateDocument.ts).
CitationsResolve == AnswerResolves /\ ComparisonResolves

\* Only claims the verifier supported are sent, no fact rests on unverified
\* evidence alone, a conflict shows two official sources, and stale or
\* unofficial evidence is marked as such.
ShownIsGrounded == AnswerGrounded /\ ComparisonGrounded

\* Evidence that was found is never lost to a discovery that finds nothing or
\* fails (answerQuestion).
EvidenceKept == [][evidence # <<>> => evidence' # <<>>]_vars

\* No body of a response or request, archive, page or PDF is left open or
\* locked by code that went on, no listener is left on a signal, and no buffer
\* exceeds its bound (readBoundedBody, readBody, readIncomingMessageBytes,
\* preflightDocx, extractPdf).
BodyReleased == CallBodyReleased /\ WebhookBodyReleased /\ ParserReleased /\ FetchReleased

\* Every part ends; a process ends or waits for its signal.
ComesToRest == <>[]Rested
=============================================================================
