-------------------------- MODULE MCModelRegistry --------------------------
(* Instances of ModelRegistry for TLC. *)
EXTENDS ModelRegistry, TLC

CONSTANTS s1, s2, m1, m2, m3

Symmetry == Permutations(Sessions) \cup Permutations(Models)
=============================================================================
