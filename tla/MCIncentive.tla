---------------------------- MODULE MCIncentive ----------------------------
(* Three hotkeys and four attempts, two of them of one hotkey; one hotkey    *)
(* is not ss58.                                                             *)
EXTENDS Incentive

MCOwner == <<1, 2, 3, 1>>
MCSelfDeals == {1, 2}

Plain == [score_window |-> 3, damping |-> 1, top_k |-> 0, max_fraction |-> 0, normalize |-> TRUE]
\* The cap and top-k apart and together, with damping to a half; then each of the
\* other settings once, where the cap and top-k bind.
Both == [Plain EXCEPT !.top_k = 2, !.max_fraction = 2]
MCSettings ==
    {[Plain EXCEPT !.max_fraction = f] : f \in {0, 2}}
      \cup {[Both EXCEPT !.max_fraction = f] : f \in {1, 2}}
      \cup {[Both EXCEPT !.damping = 2], [Plain EXCEPT !.score_window = 2, !.max_fraction = 2],
            [Plain EXCEPT !.normalize = FALSE, !.max_fraction = 2]}
=============================================================================
