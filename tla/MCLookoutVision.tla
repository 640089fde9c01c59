--------------------------- MODULE MCLookoutVision ---------------------------
(* LookoutVision for TLC: two models, two servers, caps of two sizes. *)
EXTENDS LookoutVision, TLC

Symmetry == Permutations(Models) \cup Permutations(Dims)
=============================================================================
