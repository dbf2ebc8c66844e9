----------------------------- MODULE MCDhtDemand -----------------------------
(***************************************************************************)
(* Instances of DhtDemand.                                                 *)
(***************************************************************************)
EXTENDS DhtDemand, TLC

CONSTANTS h1, h2

OneEach == [c \in Class |-> 1]
TorrentsAlike == Permutations(Hashes)

=============================================================================
