----------------------------- MODULE MCRetrieval -----------------------------
(* Small instances of Retrieval.                                           *)
EXTENDS Retrieval, TLC

CONSTANTS i1, i2, r1, r2, a, b, c

Symmetry == Permutations(Indexers) \cup Permutations(Readers) \cup Permutations(Contents)
=============================================================================
