------------------------------ MODULE MCPolling ------------------------------
(* Small instances of Polling.                                             *)
EXTENDS Polling, Sequences

CONSTANTS group, dm

\* Two texts and a document of one chat around the limit, and what is not for
\* the bot last, so that nothing after it carries the offset past it.
MCKindOf == <<"text", "document", "text", "invalid", "other">>
MCChatOf == <<group, group, group, dm, dm>>
=============================================================================
