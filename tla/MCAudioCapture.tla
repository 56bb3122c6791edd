-------------------------- MODULE MCAudioCapture ---------------------------
(* Sessions, connections and frames are interchangeable: the page numbers the *)
(* frames in the order it takes them.                                         *)
EXTENDS AudioCapture, TLC

Symmetry ==
  Permutations(Sessions) \cup Permutations(Connections) \cup Permutations(Frames)
=============================================================================
