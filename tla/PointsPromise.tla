---------------------------- MODULE PointsPromise ----------------------------
(***************************************************************************)
(* What the points promise to a hotkey: an attempt is paid at most once, a  *)
(* payment is positive, and what was paid is never taken back.              *)
(***************************************************************************)
EXTENDS Naturals

CONSTANTS Attempt, Hotkey, Owner   \* Owner \in [Attempt -> Hotkey]

VARIABLES
    paid,      \* the attempts that were paid
    balance    \* [Hotkey -> Nat]

vars == <<paid, balance>>

Init ==
    /\ paid = {}
    /\ balance = [h \in Hotkey |-> 0]

Pay(a) ==
    /\ a \notin paid
    /\ paid' = paid \cup {a}
    /\ balance'[Owner[a]] > balance[Owner[a]]
    /\ \A h \in Hotkey \ {Owner[a]} : balance'[h] = balance[h]

Next == \E a \in Attempt : Pay(a)

Spec == Init /\ [][Next]_vars
=============================================================================
