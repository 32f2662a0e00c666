----------------------------- MODULE PublicFetch ----------------------------
(***************************************************************************)
(* fetchUserProvidedUrl and what it shares with the crawler: the host of a *)
(* url is resolved once, an answer with any address that is not public is  *)
(* refused, the request is pinned to the address that was looked at, and   *)
(* the response is read under a bound.  The deadline, or the caller, may   *)
(* abort it at any point, and each wait listens to the signal for itself.  *)
(***************************************************************************)
EXTENDS Integers, SequencesExt, FiniteSetsExt

CONSTANTS
  DnsAnswers,   \* answers of the resolver: sequences of addresses
  PublicHosts,  \* the addresses that are globally reachable
  MaxFetch,     \* bytes of a response
  PieceSizes    \* bytes of a chunk

ASSUME FetchAssumption ==
  /\ MaxFetch \in Nat /\ PieceSizes \subseteq Nat
  /\ \A addresses \in DnsAnswers : addresses \in Seq(ToSet(addresses))

VARIABLES
  gpc,        \* resolve, lookup, connect, wait, accept, read, done
  expired,    \* the signal
  answer,     \* addresses of the host
  pinned,     \* address the request may connect to: none, or one
  request,    \* none, sent, destroyed
  message,    \* body of the response: none, flowing, complete, destroyed
  gathered,   \* bytes of it
  listeners,  \* who listens to the signal
  fetched     \* outcome: none, returned, threw

fetchVars == <<gpc, expired, answer, pinned, request, message, gathered, listeners, fetched>>

FetchInit ==
  /\ gpc = "resolve" /\ expired = FALSE
  /\ answer = <<>> /\ pinned = <<>>
  /\ request = "none" /\ message = "none" /\ gathered = 0
  /\ listeners = {} /\ fetched = "none"

Rejected == gpc' = "done" /\ fetched' = "threw"

\* A scheme, port or name that is refused, a host outside the allowlist.
UrlRefused ==
  /\ gpc = "resolve"
  /\ Rejected
  /\ UNCHANGED <<expired, answer, pinned, request, message, gathered, listeners>>

\* Broken: the first public address of the answer will do.
Selected_First(addresses) ==
  LET public == SelectSeq(addresses, LAMBDA a : a \in PublicHosts)
  IN  IF public = <<>> THEN <<>> ELSE <<Head(public)>>

\* The address to connect to, if all are public.
Selected(addresses) ==
  IF addresses # <<>> /\ ToSet(addresses) \subseteq PublicHosts
  THEN <<Head(addresses)>> ELSE <<>>

Resolved(addresses) ==
  /\ answer' = addresses
  /\ pinned' = Selected(addresses)
  /\ IF Selected(addresses) = <<>> THEN Rejected
     ELSE gpc' = "connect" /\ UNCHANGED fetched

\* The host is an address itself, or its name has to be looked up.
Resolve ==
  /\ gpc = "resolve"
  /\ \/ /\ expired /\ Rejected /\ UNCHANGED <<answer, pinned, listeners>>
     \/ /\ ~expired
        /\ \E a \in UNION {ToSet(s) : s \in DnsAnswers} : Resolved(<<a>>)
        /\ UNCHANGED listeners
     \/ /\ ~expired
        /\ gpc' = "lookup" /\ listeners' = {"lookup"}
        /\ UNCHANGED <<answer, pinned, fetched>>
  /\ UNCHANGED <<expired, request, message, gathered>>

LookupAnswers(addresses) ==
  /\ gpc = "lookup"
  /\ Resolved(addresses)
  /\ listeners' = {}
  /\ UNCHANGED <<expired, request, message, gathered>>

LookupFails ==
  /\ gpc = "lookup"
  /\ Rejected /\ listeners' = {}
  /\ UNCHANGED <<expired, answer, pinned, request, message, gathered>>

\* The request is sent unless the signal came between; its lookup gives the
\* pinned address whatever the resolver would say now.
Connect ==
  /\ gpc = "connect"
  /\ IF expired
     THEN Rejected /\ UNCHANGED <<request, listeners>>
     ELSE /\ request' = "sent" /\ listeners' = {"request"}
          /\ gpc' = "wait" /\ UNCHANGED fetched
  /\ UNCHANGED <<expired, answer, pinned, message, gathered>>

OnResponse(status) ==
  /\ gpc = "wait"
  /\ listeners' = {}
  /\ IF status = "none"
     THEN message' = "destroyed" /\ Rejected
     ELSE message' = "flowing" /\ gpc' = "accept" /\ UNCHANGED fetched
  /\ UNCHANGED <<expired, answer, pinned, request, gathered>>

RequestFails ==
  /\ gpc = "wait"
  /\ listeners' = {} /\ request' = "destroyed"
  /\ Rejected
  /\ UNCHANGED <<expired, answer, pinned, message, gathered>>

\* Another status than 2xx, the signal, a type, encoding or length that is not
\* accepted: cancelled before anything is read.
ResponseRefused ==
  /\ gpc = "accept"
  /\ message' = "destroyed"
  /\ Rejected
  /\ UNCHANGED <<expired, answer, pinned, request, gathered, listeners>>

ReadResponseBytesLimited ==
  /\ gpc = "accept" /\ ~expired
  /\ gpc' = "read" /\ listeners' = {"read"}
  /\ UNCHANGED <<expired, answer, pinned, request, message, gathered, fetched>>

\* The loop ends with an error: the rest is cancelled.
ReadEnds == listeners' = {} /\ message' = "destroyed" /\ Rejected

OnPiece(size) ==
  /\ gpc = "read" /\ message = "flowing"
  /\ IF gathered + size > MaxFetch
     THEN ReadEnds /\ UNCHANGED gathered
     ELSE gathered' = gathered + size /\ UNCHANGED <<listeners, message, gpc, fetched>>
  /\ UNCHANGED <<expired, answer, pinned, request>>

BodyComplete ==
  /\ gpc = "read" /\ message = "flowing"
  /\ message' = "complete"
  /\ UNCHANGED <<gpc, expired, answer, pinned, request, gathered, listeners, fetched>>

\* After its end the body is returned, unless the signal came in between or
\* what it says is too short to be a source.
BodyRead ==
  /\ gpc = "read" /\ message = "complete"
  /\ listeners' = {}
  /\ \/ /\ ~expired
        /\ gpc' = "done" /\ fetched' = "returned"
        /\ UNCHANGED message
     \/ /\ Rejected
        /\ message' = (IF expired THEN "destroyed" ELSE message)
  /\ UNCHANGED <<expired, answer, pinned, request, gathered>>

\* The connection breaks, or was destroyed with the signal.
BodyBreaks ==
  /\ gpc = "read" /\ message # "complete"
  /\ ReadEnds
  /\ UNCHANGED <<expired, answer, pinned, request, gathered>>

\* Each listener does its own part, once; the request has the signal as well.
SignalExpires ==
  /\ ~expired /\ gpc # "done"
  /\ expired' = TRUE
  /\ listeners' = {}
  /\ request' = (IF request = "sent" THEN "destroyed" ELSE request)
  /\ message' = (IF message = "flowing" THEN "destroyed" ELSE message)
  /\ IF gpc \in {"lookup", "wait"} THEN Rejected ELSE UNCHANGED <<gpc, fetched>>
  /\ UNCHANGED <<answer, pinned, gathered>>

FetchStep ==
  \/ UrlRefused \/ Resolve \/ LookupFails
  \/ \E addresses \in DnsAnswers : LookupAnswers(addresses)
  \/ Connect \/ RequestFails
  \/ \E status \in {"none", "some"} : OnResponse(status)
  \/ ResponseRefused \/ ReadResponseBytesLimited
  \/ \E size \in PieceSizes : OnPiece(size)
  \/ BodyComplete \/ BodyRead \/ BodyBreaks

FetchTypeOK ==
  /\ gpc \in {"resolve", "lookup", "connect", "wait", "accept", "read", "done"}
  /\ expired \in BOOLEAN
  /\ Len(pinned) <= 1
  /\ gathered \in 0..MaxFetch
  /\ fetched \in {"none", "returned", "threw"}

\* Nobody listens any more, and no body flows, once the promise is settled.
FetchReleased ==
  gpc = "done" => listeners = {} /\ message # "flowing"

\* A request is sent to one address only, of an answer all of which is public,
\* and returns a whole body within the bound.
FetchedIsPublic ==
  /\ request # "none" =>
       /\ Len(pinned) = 1
       /\ ToSet(pinned) \subseteq ToSet(answer)
       /\ ToSet(answer) \subseteq PublicHosts
  /\ fetched = "returned" => message = "complete" /\ ~expired /\ gathered <= MaxFetch
=============================================================================
