---------------------------- MODULE MCGpuProbe -----------------------------
(***************************************************************************)
(* Two nodes, two GPUs and two requests.                                    *)
(***************************************************************************)
EXTENDS GpuProbe, TLC

CONSTANTS n1, n2, g1, g2, r1, r2

MCNodes == {n1, n2}
MCGpus == {g1, g2}
MCRequests == {r1, r2}
Instant == [c \in Command |-> 0]
MCHosts ==
    {[takes |-> Instant, bad |-> {}],
     [takes |-> [Instant EXCEPT !["ssh_connect"] = 2], bad |-> {}],
     [takes |-> [Timeout EXCEPT !["cuda_microbench"] = 5] @@ Instant, bad |-> {"idle_util"}]}
MCAttachments == {[status |-> "passed", uuids |-> MCGpus]}
MCClaims == {Blank, [label |-> "verified", id |-> 1, uuids |-> MCGpus]}
MCSymmetry == Permutations(MCRequests) \cup Permutations(MCGpus) \cup Permutations(MCNodes)
=============================================================================
