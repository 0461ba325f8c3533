----------------------------- MODULE JobPromise -----------------------------
(***************************************************************************)
(* What the job service promises about each job, whoever drives it: a job   *)
(* moves forward along the success path one status at a time or drops to a  *)
(* terminal status; it never comes back from a terminal status; it is       *)
(* placed once, on entering provisioning, and launched once, on leaving     *)
(* running.  Several workers, cancels and result posts race in              *)
(* JobLifecycle, which is shown to implement this.                          *)
(***************************************************************************)
EXTENDS JobStates

VARIABLES
    placements,  \* [Jobs -> Nat], job_placements rows of each job
    launches     \* [Jobs -> Nat], committed launcher runs of each job

vars == <<status, placements, launches>>

Init ==
    /\ status = [j \in Jobs |-> "absent"]
    /\ placements = [j \in Jobs |-> 0]
    /\ launches = [j \in Jobs |-> 0]

Admit(j) ==
    /\ status[j] = "absent"
    /\ status' = [status EXCEPT ![j] = "admitted"]
    /\ UNCHANGED <<placements, launches>>

Advance(j) ==
    /\ status[j] \in DOMAIN Forward
    /\ status' = [status EXCEPT ![j] = Forward[status[j]]]
    /\ placements' = IF status[j] = "placing"
                     THEN [placements EXCEPT ![j] = @ + 1] ELSE placements
    /\ launches' = IF status[j] = "running"
                   THEN [launches EXCEPT ![j] = @ + 1] ELSE launches

\* A cancel, timeout, failure or posted result; it may also rename the outcome
\* of a job another actor has just finished.  A launch that fails still ran.
Finish(j) ==
    /\ status[j] # "absent"
    /\ \E t \in Terminal : status' = [status EXCEPT ![j] = t]
    /\ \/ UNCHANGED launches
       \/ /\ status[j] = "running"
          /\ launches' = [launches EXCEPT ![j] = @ + 1]
    /\ UNCHANGED placements

Next == \E j \in Jobs : Admit(j) \/ Advance(j) \/ Finish(j)

Spec == Init /\ [][Next]_vars
-----------------------------------------------------------------------------
\* Position on the success path; every terminal status is last.
Rank == [ absent |-> 0, admitted |-> 1, placing |-> 2, provisioning |-> 3,
          running |-> 4, collecting |-> 5, scoring |-> 6,
          succeeded |-> 7, failed |-> 7, cancelled |-> 7, timeout |-> 7 ]

TypeOK ==
    /\ status \in [Jobs -> Status]
    /\ placements \in [Jobs -> Nat]
    /\ launches \in [Jobs -> Nat]

\* The counts follow the position on the path: nothing is placed before
\* provisioning, nothing launched before running is left, and neither twice.
CountsFollowRank ==
    \A j \in Jobs :
        /\ Rank[status[j]] < 3 => placements[j] = 0
        /\ Rank[status[j]] \in 3..6 => placements[j] = 1
        /\ placements[j] <= 1
        /\ Rank[status[j]] < 5 => launches[j] = 0
        /\ Rank[status[j]] \in 5..6 => launches[j] = 1
        /\ launches[j] <= 1

\* However many workers drain the queue, a job gets at most one placement and
\* at most one launcher run (job_lifecycle.py, the CAS claims).
PlacedAndLaunchedOnce ==
    \A j \in Jobs : placements[j] <= 1 /\ launches[j] <= 1

\* A job's status never moves backwards along the path: in particular no step
\* takes a job out of a terminal status back into the pipeline.
ForwardOnly == [][\A j \in Jobs : Rank[status[j]] <= Rank[status'[j]]]_vars
=============================================================================
