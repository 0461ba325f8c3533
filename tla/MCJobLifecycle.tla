--------------------------- MODULE MCJobLifecycle ---------------------------
(* Instances of JobLifecycle for TLC. *)
EXTENDS JobLifecycle, TLC

CONSTANTS j1, j2, j3, w1, w2, c1

OneJob == {j1}
TwoJobs == {j1, j2}
ThreeJobs == {j1, j2, j3}

MCWorldSize == [j \in Jobs |-> IF j = j1 THEN 1 ELSE 2]

Envelope(s, o, f, q) == [status |-> s, out |-> o, flagged |-> f, quote |-> q]

\* A clean success, a flagged success that also brings a quote, a failure, and
\* a progress report without outputs.
AllPayloads == { Envelope("succeeded", "o1", FALSE, FALSE),
                 Envelope("succeeded", "o2", TRUE, TRUE),
                 Envelope("failed", "o1", FALSE, FALSE),
                 Envelope("running", "none", FALSE, FALSE) }

CleanSuccess == { Envelope("succeeded", "o1", FALSE, FALSE) }

\* j2 and j3 have the same world size.
JobSymmetry == Permutations({j2, j3})

WorkerSymmetry == Permutations(Workers)
=============================================================================
