------------------------- MODULE MCResourceManager -------------------------
(* Instances of ResourceManager for TLC. *)
EXTENDS ResourceManager, TLC

Symmetry == Permutations(Requests)
===========================================================================
