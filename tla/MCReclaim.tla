----------------------------- MODULE MCReclaim -----------------------------
(* Small instances of Reclaim: interchangeable clusters and names. *)
EXTENDS Reclaim, TLC

Symmetry == Permutations(Clusters) \cup Permutations(Aliases)
=============================================================================
