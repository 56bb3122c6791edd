-------------------------- MODULE MCTokenSessions --------------------------
(* Instances of TokenSessions for TLC. *)
EXTENDS TokenSessions, TLC

\* Token ids are interchangeable; token sessions too, but a mutant picks one.
Symmetry == Permutations(Tokens)
=============================================================================
