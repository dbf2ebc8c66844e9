--------------------------- MODULE MCTorrentState ---------------------------
(* Instances of TorrentState for TLC. *)
EXTENDS TorrentState, TLC

Symmetry == Permutations(Peers)
===========================================================================
