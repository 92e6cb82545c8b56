-------------------------- MODULE MCRedisFlight --------------------------
(* Symmetry for the model checking of RedisFlight. *)
EXTENDS RedisFlight, TLC

Symmetry == Permutations(CanWrite) \cup Permutations(Workers \ CanWrite)
===========================================================================
