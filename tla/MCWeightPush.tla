---------------------------- MODULE MCWeightPush ----------------------------
(* An instance of WeightPush for TLC: the worker's loop and one process for   *)
(* each of the two commands.                                                  *)
EXTENDS WeightPush

CONSTANTS worker, operator, refresher

MCRole == [p \in Pushers |-> CASE p = worker -> "loop"
                               [] p = operator -> "push"
                               [] p = refresher -> "recompute"]
=============================================================================
