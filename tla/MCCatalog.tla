----------------------------- MODULE MCCatalog -----------------------------
(***************************************************************************)
(* Two keys of one family, as A100_80GB and A100_40GB, and two requests.   *)
(***************************************************************************)
EXTENDS Catalog, TLC

CONSTANTS r1, r2, o1, a100

MCModels == {1, 2}
MCFamilyOf == [m \in MCModels |-> a100]
MCLadder == <<[model |-> 2, price |-> 7], [model |-> 1, price |-> 2]>>
MCRequests == {r1, r2}
MCFamilies == {a100}
MCOfferIds == {o1}
MCBodies == {[price |-> 1, active |-> TRUE, max |-> 0],
             [price |-> 2, active |-> TRUE, max |-> 1]}
RequestSymmetry == Permutations(MCRequests)
=============================================================================
