-------------------------- MODULE MCRequalification --------------------------
(* Requalification with interchangeable attachments: two flights of one, one  *)
(* flight with a second attached, and the competition of three for the probe. *)
EXTENDS Requalification

Attachments == Permutations(Candidates)

FlightBound(n) == CASE n <= 1 -> 2 [] n = 2 -> 1 [] OTHER -> 0
=============================================================================
