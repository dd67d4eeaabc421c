---------------------------- MODULE MCDiscovery -----------------------------
(* Instances of Discovery for TLC. *)
EXTENDS Discovery, TLC

(* Nothing tells one CRD, or one shape, from another. *)
Symmetry == Permutations(CRDs) \union Permutations(Shapes)
=============================================================================
