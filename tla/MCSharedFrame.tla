---------------------------- MODULE MCSharedFrame ----------------------------
(* SharedFrame for TLC: frames of one, three and four pages, or only frames *)
(* that fit the initial segment of two pages.                               *)
EXTENDS SharedFrame, TLC

CONSTANTS tiny, small, large, huge

MCSize ==
    [f \in Frames |-> CASE f = tiny -> 1 [] f = small -> 2 [] f = large -> 3 [] f = huge -> 4]

Symmetry == Permutations(Clients) \cup Permutations(Objects)
=============================================================================
