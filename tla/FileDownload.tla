---------------------------- MODULE FileDownload ----------------------------
(***************************************************************************)
(* withTelegramFile (pollingRuntime.ts): a download is one promise that    *)
(* the response's events, two timeouts, the caller's abort and in the end  *)
(* the consumer all want to settle.  Destroying a stream is best effort,   *)
(* so its events may still come; only the promise's flags stop them.       *)
(*                                                                         *)
(* The consumer is PrivateDocumentClient.extract and what follows it.      *)
(***************************************************************************)
EXTENDS PrivateExtractor

VARIABLES
  stream,     \* the response: "none", "asked", "open", "ended" or "broken"
  download,   \* the promise: "idle", "loading", "consuming", "ok" or "failed"
  failure,    \* the status it failed with, 0 for the extractor client's error
  buffer,     \* the one buffer: "zero", "part" or "whole" of the file
  started     \* the consumer was called

downloadVars == <<stream, download, failure, buffer, started>>

DownloadTypeOK ==
  /\ stream \in [Calls -> {"none", "asked", "open", "ended", "broken"}]
  /\ download \in [Calls -> {"idle", "loading", "consuming", "ok", "failed"}]
  /\ failure \in [Calls -> {0, 400, 404, 408, 499, 502, 503}]
  /\ buffer \in [Calls -> {"zero", "part", "whole"}]
  /\ started \in [Calls -> BOOLEAN]

DownloadInit ==
  /\ stream = [c \in Calls |-> "none"]
  /\ download = [c \in Calls |-> "idle"]
  /\ failure = [c \in Calls |-> 0]
  /\ buffer = [c \in Calls |-> "zero"]
  /\ started = [c \in Calls |-> FALSE]

Loading(c) == download[c] = "loading"

Reject(c, status) ==
  /\ download' = [download EXCEPT ![c] = "failed"]
  /\ failure' = [failure EXCEPT ![c] = status]

Cleaned(c) == buffer' = [buffer EXCEPT ![c] = "zero"]

\* fail: nothing happens unless the network part is still going on.
Fail(c, status) ==
  IF Loading(c)
  THEN Reject(c, status) /\ Cleaned(c) /\ UNCHANGED started
  ELSE UNCHANGED <<download, failure, buffer, started>>

-----------------------------------------------------------------------------
Begin(c) ==
  /\ download[c] = "idle"
  /\ IF signal[c] THEN Reject(c, 499) /\ UNCHANGED stream
     ELSE /\ download' = [download EXCEPT ![c] = "loading"]
          /\ stream' = [stream EXCEPT ![c] = "asked"]
          /\ UNCHANGED failure
  /\ UNCHANGED <<buffer, started, callVars>>

\* A path, size or token that withTelegramFile does not accept.
BeginRefused(c) ==
  /\ download[c] = "idle" /\ Fault
  /\ Reject(c, 400)
  /\ UNCHANGED <<stream, buffer, started, processVars, serverVars, wire, clientVars>>

\* onResponse: headers that are accepted open the stream, others fail with
\* their status or, below 400, with 502.  A settled promise ignores them.
OnResponse(c) ==
  /\ stream[c] = "asked"
  /\ \/ /\ stream' = [stream EXCEPT ![c] = IF Loading(c) THEN "open" ELSE "broken"]
        /\ UNCHANGED <<download, failure, buffer, started>> /\ NoFault
     \/ /\ Fault
        /\ \E status \in {404, 502, 503} : Fail(c, status)
        /\ stream' = [stream EXCEPT ![c] = "broken"]
  /\ UNCHANGED <<processVars, serverVars, wire, clientVars>>

\* Broken: a chunk is copied before the flag is looked at.
OnData_Copies(c) ==
  /\ stream[c] = "open"
  /\ \/ /\ \E filled \in {"part", "whole"} : buffer' = [buffer EXCEPT ![c] = filled]
        /\ UNCHANGED <<download, failure, started>> /\ NoFault
     \/ Fail(c, 502) /\ Fault
  /\ UNCHANGED <<stream, processVars, serverVars, wire, clientVars>>

\* 'data': more of the file, or more than it was declared to have.
OnData(c) ==
  /\ stream[c] = "open"
  /\ \/ /\ IF Loading(c)
           THEN /\ buffer[c] # "whole"
                /\ \E filled \in {"part", "whole"} : buffer' = [buffer EXCEPT ![c] = filled]
           ELSE UNCHANGED buffer
        /\ UNCHANGED <<download, failure, started>> /\ NoFault
     \/ Fail(c, 502) /\ Fault
  /\ UNCHANGED <<stream, processVars, serverVars, wire, clientVars>>

\* succeed: the consumer gets a view of the buffer, and from now on neither
\* timeout nor abort reaches the promise.
Succeed(c) ==
  IF buffer[c] # "whole" \/ ~Loading(c)
  THEN Fail(c, 502)
  ELSE /\ download' = [download EXCEPT ![c] = "consuming"]
       /\ started' = [started EXCEPT ![c] = TRUE]
       /\ UNCHANGED <<failure, buffer>>

OnEnd(c) ==
  /\ stream[c] = "open"
  /\ stream' = [stream EXCEPT ![c] = "ended"]
  /\ Succeed(c)
  /\ UNCHANGED callVars

\* 'error' of the request or the response.
OnStreamError(c) ==
  /\ stream[c] \in {"asked", "open"} /\ Fault
  /\ stream' = [stream EXCEPT ![c] = "broken"]
  /\ Fail(c, 502)
  /\ UNCHANGED <<processVars, serverVars, wire, clientVars>>

\* The deadline of the whole download, or of an idle socket.
DownloadTimesOut(c) ==
  /\ Loading(c)
  /\ Fail(c, 408)
  /\ UNCHANGED <<stream, callVars>>

DownloadAborts(c) ==
  /\ Loading(c) /\ signal[c]
  /\ Fail(c, 499)
  /\ UNCHANGED <<stream, callVars>>

-----------------------------------------------------------------------------
\* The consumer calls the extractor.
Consume(c) ==
  /\ download[c] = "consuming"
  /\ Extract(c) \/ RejectInput(c)
  /\ UNCHANGED downloadVars

\* The consumer is done.  The extractor client's error is handed on, any
\* other one, of retrieval or comparison too, becomes a 502.
ConsumerEnds(c) ==
  /\ download[c] = "consuming" /\ client[c] \in Settlements
  /\ Cleaned(c)
  /\ \/ /\ client[c] = "ok" /\ NoFault
        /\ download' = [download EXCEPT ![c] = "ok"] /\ UNCHANGED failure
     \/ client[c] \in {"retry", "refused", "aborted"} /\ NoFault /\ Reject(c, 0)
     \/ client[c] = "threw" /\ NoFault /\ Reject(c, 502)
     \/ client[c] = "ok" /\ Fault /\ Reject(c, 502)
  /\ UNCHANGED <<stream, started, processVars, serverVars, wire, clientVars>>

\* classifyFailure: is a failed attempt worth another one?
Retryable(c) ==
  IF failure[c] = 0 THEN client[c] # "refused"
  ELSE failure[c] = 429 \/ failure[c] >= 500

DownloadStep(c) ==
  \/ Begin(c) \/ OnResponse(c) \/ OnData(c) \/ OnEnd(c) \/ DownloadTimesOut(c)
  \/ DownloadAborts(c) \/ Consume(c) \/ ConsumerEnds(c)

DownloadFault(c) == BeginRefused(c) \/ OnStreamError(c)
=============================================================================
