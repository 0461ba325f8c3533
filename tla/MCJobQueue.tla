----------------------------- MODULE MCJobQueue -----------------------------
(* Instances of JobQueue for TLC: giants of world 2 and micros of world 1. *)
EXTENDS JobQueue

CONSTANTS giant, giant2, micro, micro2

GiantsAndMicro == {giant, giant2, micro}
GiantAndMicros == {giant, micro, micro2}

MCWorldSize == [j \in Jobs |-> IF j \in {giant, giant2} THEN 2 ELSE 1]

AllAuto == [j \in Jobs |-> "auto"]

\* One job on a lease, one on automatic capacity, one without any.
OneEach == [j \in Jobs |-> IF j = giant THEN "leased"
                           ELSE IF j = micro THEN "none" ELSE "auto"]
=============================================================================
