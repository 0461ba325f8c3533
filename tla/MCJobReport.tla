----------------------------- MODULE MCJobReport -----------------------------
(***************************************************************************)
(* A job of two nodes with two ranks each; the planner fills one node after *)
(* the other, or spreads the ranks in turn.                                 *)
(***************************************************************************)
EXTENDS JobReport, TLC

CONSTANTS c1, c2

RankmapsMC == {<<1, 1, 2, 2>>, <<1, 2, 1, 2>>}

Symmetry == Permutations({c1, c2})
=============================================================================
