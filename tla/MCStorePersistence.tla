------------------------- MODULE MCStorePersistence -------------------------
(* Instances of StorePersistence small enough for TLC. *)
EXTENDS StorePersistence, TLC

\* Pages, links and consent records are interchangeable.
Symmetry == Permutations(Pages) \cup Permutations(Links) \cup Permutations(Consents)
=============================================================================
