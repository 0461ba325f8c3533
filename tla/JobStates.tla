------------------------------ MODULE JobStates ------------------------------
(***************************************************************************)
(* The job status vocabulary of domain/job_lifecycle.py and the concurrency *)
(* budget of domain/job_queue.py, shared by every module about jobs.        *)
(***************************************************************************)
EXTENDS Naturals, FiniteSets

CONSTANTS
    Jobs,            \* job ids
    WorldSize,       \* [Jobs -> Nat \ {0}]: jobs.world_size
    LargeThreshold,  \* large_job_world_size_threshold
    MaxLarge,        \* max_concurrent_large_jobs
    MaxWorld         \* max_concurrent_world_size_budget

VARIABLE status  \* [Jobs -> Status]: jobs.status, "absent" while there is no row

ASSUME WorldSizeAssumption == WorldSize \in [Jobs -> Nat \ {0}]
ASSUME BudgetAssumption ==
    /\ LargeThreshold \in Nat \ {0}
    /\ MaxLarge \in Nat \ {0}
    /\ MaxWorld \in Nat \ {0}

\* The forward arrow of each status on the success path.
Forward == [ admitted     |-> "placing",
             placing      |-> "provisioning",
             provisioning |-> "running",
             running      |-> "collecting",
             collecting   |-> "scoring",
             scoring      |-> "succeeded" ]

NonTerminal == {"admitted", "placing", "provisioning", "running", "collecting", "scoring"}
Terminal    == {"succeeded", "failed", "cancelled", "timeout"}

\* "absent": no row with this id yet.
Status == NonTerminal \cup Terminal \cup {"absent"}

\* Jobs that consume the concurrency / world_size budget while mid-flight.
BudgetHolding == {"provisioning", "running", "collecting", "scoring"}

IsLarge(j) == WorldSize[j] >= LargeThreshold

\* The sum of the world sizes, as the number of ranks that the jobs have.
Ranks(S) == UNION {{j} \X (1..WorldSize[j]) : j \in S}
WorldSum(S) == Cardinality(Ranks(S))

\* The jobs other than j that hold budget when the jobs.status column is `table`.
OtherHolders(table, j) == {k \in Jobs \ {j} : table[k] \in BudgetHolding}

\* Mutant of CanAdmit: admits one more large job than the cap.
CanAdmitAtLargeCap(table, j) ==
    LET holders == OtherHolders(table, j)
    IN  /\ IsLarge(j) => Cardinality({k \in holders : IsLarge(k)}) <= MaxLarge
        /\ WorldSum(holders) + WorldSize[j] <= MaxWorld

\* can_admit_to_running: the answer the query gives on this table.
CanAdmit(table, j) ==
    LET holders == OtherHolders(table, j)
    IN  /\ IsLarge(j) => Cardinality({k \in holders : IsLarge(k)}) < MaxLarge
        /\ WorldSum(holders) + WorldSize[j] <= MaxWorld

\* The caps the budget is for, on a whole table.
Holders(table) == {k \in Jobs : table[k] \in BudgetHolding}
LargeHolders(table) == {k \in Holders(table) : IsLarge(k)}

WithinBudget(table) ==
    /\ Cardinality(LargeHolders(table)) <= MaxLarge
    /\ WorldSum(Holders(table)) <= MaxWorld
=============================================================================
