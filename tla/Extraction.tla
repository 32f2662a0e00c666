----------------------------- MODULE Extraction -----------------------------
(***************************************************************************)
(* Both extractors with their callers: the private one behind a download   *)
(* from Telegram, the PDF one called by a crawl.  A behaviour is one of    *)
(* either kind.                                                            *)
(***************************************************************************)
EXTENDS FileDownload, PdfExtractor

VARIABLE kind   \* the extractor this behaviour is about, "private" or "pdf"

vars == <<callVars, downloadVars, kind>>

TypeOK ==
  /\ CallsTypeOK
  /\ DownloadTypeOK
  /\ kind \in {"private", "pdf"}

Init ==
  /\ CallsInit
  /\ DownloadInit
  /\ kind \in {"private", "pdf"}

Private(c) ==
  /\ kind = "private"
  /\ \/ PrivateStep(c) /\ UNCHANGED downloadVars
     \/ DownloadStep(c)
  /\ UNCHANGED kind

PrivateFails(c) ==
  /\ kind = "private"
  /\ \/ PrivateFault(c) /\ UNCHANGED downloadVars
     \/ DownloadFault(c)
  /\ UNCHANGED kind

Pdf(c) == kind = "pdf" /\ PdfStep(c) /\ UNCHANGED <<downloadVars, kind>>

PdfFails(c) == kind = "pdf" /\ PdfFault(c) /\ UNCHANGED <<downloadVars, kind>>

Aborts(c) == CallerAborts(c) /\ UNCHANGED <<downloadVars, kind>>

Process == ProcessStep /\ UNCHANGED <<downloadVars, kind>>

Concluded(c) ==
  IF kind = "private" THEN download[c] \in {"ok", "failed"} ELSE client[c] \in Settlements

\* Nothing is left to do: every caller has its answer, the process serves
\* again, and no copy of a document remains.
AtRest ==
  /\ up /\ slot = "available"
  /\ \A c \in Calls : /\ Concluded(c) /\ serving[c] \notin Active
                      /\ input[c] # "held" /\ body[c] # "held" /\ buffer[c] = "zero"

Quiescent == AtRest /\ UNCHANGED vars

Next ==
  \/ \E c \in Calls : Private(c) \/ PrivateFails(c) \/ Pdf(c) \/ PdfFails(c) \/ Aborts(c)
  \/ Process
  \/ Quiescent

Spec == Init /\ [][Next]_vars

\* Every wait of the code has a timer, streams end or break, and the process
\* is restarted.
Fairness ==
  /\ \A c \in Calls : WF_vars(Private(c)) /\ WF_vars(Pdf(c))
  /\ WF_vars((PoisonedExit \/ Restart) /\ UNCHANGED <<downloadVars, kind>>)

FairSpec == Spec /\ Fairness

-----------------------------------------------------------------------------
\* Two documents are never parsed at once.  The private extractor waits until
\* the thread before is known to be gone, or serves nobody any more; the PDF
\* extractor only until it was told to go.
OneParser ==
  \A c, d \in Calls :
    /\ kind = "private" /\ thread[c] \in Alive /\ thread[d] \in Alive => c = d
    /\ thread[c] = "running" /\ thread[d] = "running" => c = d

\* The slot is taken exactly as long as one request is being served: no error
\* path, abort or late termination keeps it or gives away another's.
SlotIsHeld ==
  up => /\ slot = "busy" <=> \E c \in Calls : serving[c] \in Active
        /\ \A c, d \in Calls : serving[c] \in Active /\ serving[d] \in Active => c = d

\* The private extractor's answers wait for the parser: no thread is running
\* for a request that was answered, and a slot nobody can trust is poisoned.
PoisonCoversThreads ==
  up /\ kind = "private" =>
    \A c \in Calls : thread[c] \in Alive /\ serving[c] = "answered" => slot = "poisoned"

\* The slot is what keeps the parsers apart: it is taken while one is wanted, and
\* given away only when the last one is known to be gone.
SlotGuardsParser == OneParser /\ SlotIsHeld /\ PoisonCoversThreads

\* When a download has failed, the stream's later events neither start the
\* consumer nor put bytes back into the buffer that was wiped.
FailedIsFinal ==
  [][\A c \in Calls : download[c] = "failed" =>
       /\ buffer[c] = "zero"
       /\ UNCHANGED <<download[c], failure[c], buffer[c], started[c]>>]_vars

\* A user is told that the document is at fault only if the parser or Telegram
\* refused it, the download timed out or the extractor's token is wrong: never
\* because of a busy, poisoned, crashed or late extractor.
TerminalIsDeserved ==
  \A c \in Calls :
    kind = "private" /\ download[c] = "failed" /\ ~signal[c] /\ ~Retryable(c) =>
      c \in Unparsable \/ failure[c] \in {400, 404, 408} \/ reply[c] = 401

\* Whatever hangs, dies or arrives too late, every caller gets an answer, the
\* slot comes back, and no copy of a document stays behind.
ComesToRest == <>[]AtRest
=============================================================================
