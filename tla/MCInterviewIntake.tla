------------------------- MODULE MCInterviewIntake -------------------------
(* Instances of InterviewIntake small enough for TLC. *)
EXTENDS InterviewIntake, TLC

\* Photos, connections and consent records are interchangeable.
Symmetry == Permutations(Photos) \cup Permutations(Streams) \cup Permutations(Consents)
=============================================================================
