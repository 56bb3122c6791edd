-------------------------- MODULE MCStoryWorkflow --------------------------
(* Instances of StoryWorkflow small enough for TLC. *)
EXTENDS StoryWorkflow, TLC

\* Pages, links and consent records are interchangeable.
Symmetry == Permutations(Pages) \cup Permutations(Links) \cup Permutations(Consents)

\* Every claim is about work.
WorkSection == [c \in Claims |-> "work-migration"]
=============================================================================
