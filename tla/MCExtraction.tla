---- MODULE MCExtraction ----
(* Two calls of either extractor; one private document is refused by the   *)
(* parser or has no name, and the client's token may be wrong.             *)
EXTENDS Extraction, TLC

Good == [endpoint |-> TRUE, token |-> TRUE, octets |-> TRUE, chunked |-> FALSE,
         metadata |-> TRUE, length |-> TRUE]
MCRequests == {Good, [Good EXCEPT !.token = FALSE]}
====
