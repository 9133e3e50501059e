------------------------------- MODULE MCChat -------------------------------
(* Symmetry for the model-checking run of Chat. *)
EXTENDS Chat, TLC

ChatSymmetry ==
  Permutations(Conversation) \cup Permutations(Question) \cup Permutations(Request)
=============================================================================
