--------------------------- MODULE WebhookRequest ---------------------------
(***************************************************************************)
(* One HTTP request to the webhook server, from handleNodeRequest to the   *)
(* response: authentication, headers, the bounded body, the update in it   *)
(* and the queue.  The sender may go away at any moment, which aborts the  *)
(* request's signal.                                                       *)
(***************************************************************************)
EXTENDS Integers

CONSTANTS
  MaxUpdate,       \* size of a request body
  MaxUpdateEmpty,  \* empty chunks of one body
  UpdateChunks     \* sizes of its chunks

ASSUME UpdateAssumption == MaxUpdate \in Nat /\ UpdateChunks \subseteq Nat

VARIABLES
  wpc,       \* where the handler is
  gone,      \* the request's signal
  wbody,     \* open, locked, read, cancelled
  taken,     \* bytes in the buffer
  blanks,    \* empty chunks so far
  update,    \* what the body holds
  queued,    \* the transaction of enqueue committed
  status     \* 0, then the response's status

webhookVars == <<wpc, gone, wbody, taken, blanks, update, queued, status>>

WebhookInit ==
  /\ wpc = "headers" /\ gone = FALSE /\ wbody = "open"
  /\ taken = 0 /\ blanks = 0 /\ update = "unread" /\ queued = FALSE /\ status = 0

Responds(code) == status' = code /\ wpc' = "answered"

\* Another path: the handler never looks at the request.
NotFound ==
  /\ wpc = "headers"
  /\ Responds(404)
  /\ UNCHANGED <<gone, wbody, taken, blanks, update, queued>>

\* Secret, method, content type and declared length, in this order; the body
\* of a refused request is cancelled.
HeadersRefused ==
  /\ wpc = "headers"
  /\ \E code \in {401, 405, 400, 413} : Responds(code)
  /\ wbody' = "cancelled"
  /\ UNCHANGED <<gone, taken, blanks, update, queued>>

\* POST without a body is refused too.
HeadersPass(hasBody) ==
  /\ wpc = "headers"
  /\ \/ hasBody /\ wbody' = "locked" /\ wpc' = "body" /\ UNCHANGED status
     \/ ~hasBody /\ wbody' = "read" /\ Responds(400)
  /\ UNCHANGED <<gone, taken, blanks, update, queued>>

BodyRefused(code) ==
  /\ wbody' = "cancelled"
  /\ Responds(code)
  /\ UNCHANGED <<taken, blanks>>

\* Empty chunks are counted over the whole body.
ReadUpdateChunk(size) ==
  /\ wpc = "body" /\ ~gone
  /\ \/ size = 0 /\ blanks + 1 > MaxUpdateEmpty /\ BodyRefused(400)
     \/ size = 0 /\ blanks + 1 <= MaxUpdateEmpty
          /\ blanks' = blanks + 1 /\ UNCHANGED <<wpc, wbody, taken, status>>
     \/ size > MaxUpdate - taken /\ BodyRefused(413)
     \/ size > 0 /\ size <= MaxUpdate - taken
          /\ taken' = taken + size /\ UNCHANGED <<wpc, wbody, blanks, status>>
  /\ UNCHANGED <<gone, update, queued>>

\* The stream fails, or the signal cancels the reader and rejects the read.
ReadUpdateFails ==
  /\ wpc = "body"
  /\ BodyRefused(400)
  /\ UNCHANGED <<gone, update, queued>>

ReadUpdateDone ==
  /\ wpc = "body" /\ ~gone
  /\ wbody' = "read"
  /\ wpc' = "parse"
  /\ UNCHANGED <<gone, taken, blanks, update, queued, status>>

Updates_ == {"malformed", "ignored", "question", "document"}

\* Broken: acknowledges before the queue has the job.
ParseUpdate_Early(u) ==
  /\ wpc = "parse"
  /\ update' = u
  /\ IF u = "malformed" THEN Responds(400) ELSE Responds(202)
  /\ UNCHANGED <<gone, wbody, taken, blanks, queued>>

\* An update without a message, or with one that is neither text nor a
\* document, is acknowledged; one that is not valid is refused.
ParseUpdate(u) ==
  /\ wpc = "parse"
  /\ update' = u
  /\ IF gone \/ u = "malformed"
     THEN Responds(400)
     ELSE \/ u = "ignored" /\ Responds(202)
          \/ u # "ignored" /\ wpc' = "enqueue" /\ UNCHANGED status
  /\ UNCHANGED <<gone, wbody, taken, blanks, queued>>

\* No key for a document, or the job cannot be encrypted or protected.
JobNotMade ==
  /\ wpc = "enqueue"
  /\ Responds(500)
  /\ UNCHANGED <<gone, wbody, taken, blanks, update, queued>>

\* enqueue may throw before its commit or because the answer to it is lost.
EnqueueFails(committed) ==
  /\ wpc = "enqueue"
  /\ queued' = committed
  /\ Responds(500)
  /\ UNCHANGED <<gone, wbody, taken, blanks, update>>

Enqueued ==
  /\ wpc = "enqueue"
  /\ queued' = TRUE
  /\ Responds(202)
  /\ UNCHANGED <<gone, wbody, taken, blanks, update>>

SenderLeaves ==
  /\ ~gone /\ wpc # "answered"
  /\ gone' = TRUE
  /\ UNCHANGED <<wpc, wbody, taken, blanks, update, queued, status>>

WebhookStep ==
  \/ NotFound \/ HeadersRefused
  \/ \E hasBody \in BOOLEAN : HeadersPass(hasBody)
  \/ \E size \in UpdateChunks : ReadUpdateChunk(size)
  \/ ReadUpdateFails \/ ReadUpdateDone
  \/ \E u \in Updates_ : ParseUpdate(u)
  \/ JobNotMade
  \/ \E committed \in BOOLEAN : EnqueueFails(committed)
  \/ Enqueued

WebhookTypeOK ==
  /\ wpc \in {"headers", "body", "parse", "enqueue", "answered"}
  /\ wbody \in {"open", "locked", "read", "cancelled"}
  /\ update \in Updates_ \cup {"unread"}

\* The handler leaves no reader behind, and buffers within bounds.
WebhookBodyReleased ==
  /\ taken <= MaxUpdate
  /\ wpc # "body" => wbody # "locked"

\* A 202 ends an update's life with Telegram: it is stored, or needs no answer.
\* What is refused as invalid was not stored.
WebhookAcksTruly ==
  /\ status = 202 => queued \/ update = "ignored"
  /\ status \in {400, 401, 404, 405, 413} => ~queued
=============================================================================
