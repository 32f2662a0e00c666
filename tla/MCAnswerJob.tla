----------------------------- MODULE MCAnswerJob -----------------------------
(* Small instances of AnswerJob.                                           *)
EXTENDS AnswerJob, TLC

CONSTANTS h1, h2, u1, u2, u3, alice, bob

\* alice writes twice; bob's message held a secret.
MCUserOf == [u \in Updates |-> IF u = u3 THEN bob ELSE alice]

HandlerSymmetry == Permutations(Handlers)
=============================================================================
