--------------------------- MODULE MCMarketplace ---------------------------
(* Instances of Marketplace for TLC: a single-node and a cluster offer that *)
(* share a node.                                                            *)
EXTENDS Marketplace, TLC

CONSTANTS n1, n2, single, cluster, l1, l2, c1, c2

MCNodesOf == [o \in Offers |-> IF o = single THEN {n1} ELSE {n1, n2}]

MarketSymmetry == {p @@ q : p \in Permutations(Clients), q \in Permutations(Leases)}
=============================================================================
