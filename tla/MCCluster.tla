------------------------------ MODULE MCCluster ------------------------------
EXTENDS Cluster, TLC

CONSTANTS n1, n2, t1, r1, r2

MCOp == (r1 :> "pause") @@ (r2 :> "purge")
MCVia == (r1 :> {"file"}) @@ (r2 :> {"interface", "cli"})
MCTarget == [r \in {r1, r2} |-> t1]
=============================================================================
