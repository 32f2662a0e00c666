----------------------------- MODULE MCAdmission -----------------------------
(* Small instances of Admission: who sent which update, and where.         *)
EXTENDS Admission

CONSTANTS h1, h2, u1, u2, u3, alice, bob, group

\* alice writes twice to the group and bob once: two updates contend for both
\* windows, the third shares only the window of the group.
MCUserOf == [u \in Updates |-> IF u = u3 THEN bob ELSE alice]
MCChatOf == [u \in Updates |-> group]
=============================================================================
