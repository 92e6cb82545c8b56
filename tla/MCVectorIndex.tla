---------------------------- MODULE MCVectorIndex ----------------------------
(* Instances of VectorIndex for TLC. *)
EXTENDS VectorIndex, TLC

Symmetry == Permutations(Nodes) \cup Permutations(Entries)
==============================================================================
