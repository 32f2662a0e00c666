----------------------------- MODULE ModelCalls -----------------------------
(***************************************************************************)
(* One call of LiteLlmClient.complete or EmbeddingClient.embed.  Texts to  *)
(* embed are sent in batches, one request after the other; the response of *)
(* each is read chunk by chunk under bounds, and refused unless it holds   *)
(* one vector for each text, in order.  A call returns everything or       *)
(* throws; whatever it does, the body of a response is read or cancelled.  *)
(***************************************************************************)
EXTENDS Integers, SequencesExt, FiniteSetsExt, Functions

CONSTANTS
  Texts,          \* sequences of the sizes of texts to embed
  MaxInputs,      \* texts of one request
  MaxChars,       \* their sizes together
  MaxBody,        \* size of a response
  MaxEmptyReads,  \* empty chunks in a row
  ChunkSizes      \* sizes of the chunks of a response

ASSUME CallAssumption ==
  /\ \A t \in Texts : t \in Seq(Nat)
  /\ MaxInputs \in Nat \ {0} /\ MaxBody \in Nat /\ ChunkSizes \subseteq Nat

VARIABLES
  client,    \* "litellm" or "embedding"
  texts,     \* the texts; one, the messages, for a completion
  mpc,       \* where the call is
  start,     \* texts whose vectors arrived
  aborted,   \* the caller's signal
  body,      \* the body of the response: none, open, locked, read, cancelled
  received,  \* bytes of it in the buffer
  empties,   \* empty chunks in a row
  vectors    \* output: records index and of, the text a vector is of

callVars == <<client, texts, mpc, start, aborted, body, received, empties, vectors>>

CallInit ==
  /\ client \in {"litellm", "embedding"}
  /\ texts \in Texts
  /\ client = "litellm" => Len(texts) = 1
  /\ mpc = "call" /\ start = 0 /\ aborted = FALSE
  /\ body = "none" /\ received = 0 /\ empties = 0 /\ vectors = <<>>

\* Do the next n texts fit into one request?  One always does.
Fits(n) ==
  /\ n <= MaxInputs
  /\ n = 1 \/ FoldLeft(+, 0, SubSeq(texts, start + 1, start + n)) <= MaxChars

\* The texts of the next request: as many as fit.
BatchSize == Max({n \in 1..(Len(texts) - start) : \A m \in 1..n : Fits(m)})

Throws == mpc' = "threw" /\ vectors' = <<>>

\* Each turn of the loop of embed.
NextBatch ==
  /\ mpc = "call"
  /\ \/ start < Len(texts) /\ aborted /\ Throws
     \/ start < Len(texts) /\ ~aborted /\ mpc' = "fetch" /\ UNCHANGED vectors
     \/ start = Len(texts) /\ mpc' = "returned" /\ UNCHANGED vectors
  /\ UNCHANGED <<client, texts, start, aborted, body, received, empties>>

\* The network, the 45 second timer or the caller's signal: no response.
FetchFails ==
  /\ mpc = "fetch"
  /\ Throws
  /\ UNCHANGED <<client, texts, start, aborted, body, received, empties>>

\* Only these three results of fetch are read at all.
FetchResponds(acceptable, declaredTooLong, hasBody) ==
  /\ mpc = "fetch"
  /\ received' = 0 /\ empties' = 0
  /\ \/ /\ acceptable /\ ~declaredTooLong /\ hasBody
        /\ body' = "locked" /\ mpc' = "read" /\ UNCHANGED vectors
     \/ /\ ~acceptable \/ declaredTooLong \/ ~hasBody
        /\ body' = (IF hasBody THEN "open" ELSE "none")
        /\ mpc' = "cancel" /\ UNCHANGED vectors
  /\ UNCHANGED <<client, texts, start, aborted>>

\* cancelResponseBody; its failure is ignored.
CancelResponseBody ==
  /\ mpc = "cancel"
  /\ body' = (IF body = "open" THEN "cancelled" ELSE body)
  /\ Throws
  /\ UNCHANGED <<client, texts, start, aborted, received, empties>>

\* The reader is cancelled and its lock released before the error goes on.
ReadRefused ==
  /\ body' = "cancelled"
  /\ mpc' = "cancel"
  /\ UNCHANGED <<received, empties>>

\* Broken: throws with the reader still locked.
ReadChunk_Locked(size) ==
  /\ mpc = "read"
  /\ IF size > 0 /\ received + size > MaxBody
     THEN Throws /\ UNCHANGED <<body, received, empties>>
     ELSE received' = received + size /\ UNCHANGED <<mpc, body, vectors, empties>>
  /\ UNCHANGED <<client, texts, start, aborted>>

ReadChunk(size) ==
  /\ mpc = "read"
  /\ IF size = 0
     THEN IF empties + 1 >= MaxEmptyReads
          THEN ReadRefused
          ELSE empties' = empties + 1 /\ UNCHANGED <<mpc, body, received>>
     ELSE IF received + size > MaxBody
          THEN ReadRefused
          ELSE received' = received + size /\ empties' = 0 /\ UNCHANGED <<mpc, body>>
  /\ UNCHANGED <<client, texts, start, aborted, vectors>>

EmbeddingReadChunk(size) == client = "embedding" /\ ReadChunk(size)
LiteLlmReadChunk(size) == client = "litellm" /\ ReadChunk(size)

\* The stream fails, or the timer or the caller's signal ends it.
ReadFails ==
  /\ mpc = "read"
  /\ ReadRefused
  /\ UNCHANGED <<client, texts, start, aborted, vectors>>

ReadDone ==
  /\ mpc = "read"
  /\ body' = "read"
  /\ mpc' = "parse"
  /\ UNCHANGED <<client, texts, start, aborted, received, empties, vectors>>

\* The text is no UTF-8, no JSON, or has not the shape of a completion; the
\* cancellation after a decoding error finds the body already read.
Malformed ==
  /\ mpc = "parse"
  /\ Throws
  /\ UNCHANGED <<client, texts, start, aborted, body, received, empties>>

ParseCompletion ==
  /\ mpc = "parse" /\ client = "litellm"
  /\ vectors' = <<[index |-> 0, of |-> 1]>>
  /\ mpc' = "returned"
  /\ UNCHANGED <<client, texts, start, aborted, body, received, empties>>

\* Broken: any order of the indexes will do.
ResponseAccepted_AnyOrder(data, count) == ToSet(data) = 0..(count - 1)

\* data is what the provider sent: the indexes its items carry.
ResponseAccepted(data, count) == data = [i \in 1..count |-> i - 1]

\* The vectors of a batch are numbered from its first text.
ParseResponse(data) ==
  /\ mpc = "parse" /\ client = "embedding"
  /\ IF aborted \/ ~ResponseAccepted(data, BatchSize)
     THEN Throws /\ UNCHANGED start
     ELSE /\ vectors' = vectors \o [i \in DOMAIN data |->
                           [index |-> start + i - 1, of |-> start + data[i] + 1]]
          /\ start' = start + BatchSize
          /\ mpc' = "call"
  /\ UNCHANGED <<client, texts, aborted, body, received, empties>>

\* The caller gives up.  Only embed is given a signal.
CallerAborts ==
  /\ client = "embedding" /\ ~aborted /\ mpc \notin {"returned", "threw"}
  /\ aborted' = TRUE
  /\ UNCHANGED <<client, texts, mpc, start, body, received, empties, vectors>>

Orders == UNION {[1..n -> 0..(n - 1)] : n \in 0..MaxInputs}

CallStep ==
  \/ NextBatch \/ FetchFails
  \/ \E acceptable, declaredTooLong, hasBody \in BOOLEAN :
       FetchResponds(acceptable, declaredTooLong, hasBody)
  \/ CancelResponseBody
  \/ \E size \in ChunkSizes : EmbeddingReadChunk(size) \/ LiteLlmReadChunk(size)
  \/ ReadFails \/ ReadDone \/ Malformed \/ ParseCompletion
  \/ \E data \in Orders : ParseResponse(data)

CallEnded == mpc \in {"returned", "threw"}

CallTypeOK ==
  /\ texts \in Texts /\ start \in 0..Len(texts) /\ aborted \in BOOLEAN
  /\ mpc \in {"call", "fetch", "read", "cancel", "parse", "returned", "threw"}
  /\ body \in {"none", "open", "locked", "read", "cancelled"}
  /\ empties \in 0..MaxEmptyReads

\* No body is left unread, or locked, by a call that ended or went on.
CallBodyReleased ==
  /\ received <= MaxBody
  /\ mpc \notin {"read", "cancel"} => body \notin {"open", "locked"}

\* A call that returns has one vector for each text, in the texts' order.
CallAligned ==
  mpc = "returned" =>
    /\ Len(vectors) = Len(texts)
    /\ \A i \in DOMAIN vectors : vectors[i] = [index |-> i - 1, of |-> i]
=============================================================================
