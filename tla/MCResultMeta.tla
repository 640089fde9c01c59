---------------------------- MODULE MCResultMeta ----------------------------
(* ResultMeta for TLC: two threads, so that one branch of a tee reads while *)
(* the other copies, drops or makes new results, with memory for a buffer   *)
(* that two elements annotated and for its copy.                            *)
EXTENDS ResultMeta, TLC

Symmetry == Permutations(Places) \cup Permutations(Buffers) \cup Permutations(Frames)
            \cup Permutations(Cells)
=============================================================================
