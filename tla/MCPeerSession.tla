--------------------------- MODULE MCPeerSession ---------------------------
(* Instances of PeerSession for TLC. *)
EXTENDS PeerSession, TLC

Symmetry == Permutations(Tasks) \cup Permutations(Blocks)
===========================================================================
