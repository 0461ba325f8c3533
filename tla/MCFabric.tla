------------------------------ MODULE MCFabric ------------------------------
(***************************************************************************)
(* Three nodes of one or two GPUs and a pod of all of them.                 *)
(***************************************************************************)
EXTENDS Fabric

MCNodes == 1..3
Node(g, i) == [gpus |-> g, ib |-> i]
MCFleets == {<<Node(1, "active"), Node(2, "active"), Node(2, "active")>>,
             <<Node(2, "none"), Node(1, "active"), Node(1, "down")>>,
             <<Node(1, "none"), Node(1, "none"), Node(2, "none")>>}
MCPods == {{1, 2, 3}, {2}}
Ask(nn, np, p, m) == [nnodes |-> nn, nproc |-> np, policy |-> p, mode |-> m]
MCJobSpecs ==
    {Ask(d[1], d[2], p, m) :
        d \in {<<1, 2>>, <<2, 1>>, <<2, 2>>}, p \in {"pack", "spread"}, m \in {"auto", "ib"}}
    \cup {Ask(2, 1, "pack", "eth"), Ask(1, 2, "spread", "nvlink_only")}
MCInjections ==
    {[spoof |-> FALSE, eth |-> FALSE, status |-> "none"],
     [spoof |-> TRUE, eth |-> FALSE, status |-> "none"],
     [spoof |-> FALSE, eth |-> TRUE, status |-> "none"],
     [spoof |-> FALSE, eth |-> FALSE, status |-> "failed"]}
=============================================================================
