------------------------- MODULE MCPrivateComparison -------------------------
(* Small instances of PrivateComparison.                                   *)
EXTENDS PrivateComparison

CONSTANTS h1, h2, u1, u2
=============================================================================
