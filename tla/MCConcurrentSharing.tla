------------------------ MODULE MCConcurrentSharing ------------------------
(* Threads and links are interchangeable. *)
EXTENDS ConcurrentSharing, TLC

Symmetry == Permutations(Threads) \cup Permutations(Links)
=============================================================================
