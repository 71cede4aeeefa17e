-------------------------- MODULE MCStreamFeedback --------------------------
(* StreamFeedback for TLC: the carrier paths are interchangeable. *)
EXTENDS StreamFeedback

Symmetry == Permutations(Outputs)
=============================================================================
