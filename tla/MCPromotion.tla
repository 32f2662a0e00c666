----------------------------- MODULE MCPromotion -----------------------------
(* Small instances of Promotion.                                           *)
EXTENDS Promotion, TLC

CONSTANTS first, second, crossed, i1, i2, n1, n2, h1, h2

\* Two requests, and one with the id of the first and the nonce of the second.
MCIdOf == (first :> i1) @@ (second :> i2) @@ (crossed :> i1)
MCSignedAt == (first :> 0) @@ (second :> 3) @@ (crossed :> 0)
MCNonceOf == (first :> n1) @@ (second :> n2) @@ (crossed :> n2)

=============================================================================
