---------------------------- MODULE MCGateCache ----------------------------
(* Instances of GateCache for TLC. *)
EXTENDS GateCache, TLC

CONSTANTS l1, l2, l3, l4, s1, s2

Symmetry == Permutations(Layers) \cup Permutations(Setters)
=============================================================================
