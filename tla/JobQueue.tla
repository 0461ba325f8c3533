------------------------------ MODULE JobQueue ------------------------------
(***************************************************************************)
(* Scheduling by the combined worker (app.py, drain_jobs_once): a tick lists *)
(* the first Limit jobs, smallest world first, and advances each of them one *)
(* step.  The races inside one step are the subject of JobLifecycle; here a  *)
(* step is atomic, the worker is alone, and the question is who is served.   *)
(***************************************************************************)
EXTENDS JobStates, SequencesExt

CONSTANTS
    Limit,     \* jobs listed per tick (16 in app.py)
    Capacity,  \* [Jobs -> {"leased", "auto", "none"}]: what a job asked to run on
    Endings    \* terminal statuses that requests give: a cancel or a result post

ASSUME JobsAssumption == IsFiniteSet(Jobs)
ASSUME LimitAssumption == Limit \in Nat \ {0}
ASSUME CapacityAssumption == Capacity \in [Jobs -> {"leased", "auto", "none"}]
ASSUME EndingsAssumption == Endings \subseteq Terminal

VARIABLES
    created,  \* the job ids by created_at
    overdue,  \* jobs past the limit of the phase they are in: capacity_wait_timeout_s
              \* until placed, then timeout_s from admitted_at, then from started_at
    tick      \* the rest of the list that the running tick goes through

queueVars == <<status, created, overdue, tick>>

QueueInit ==
    /\ status = [j \in Jobs |-> "absent"]
    /\ created = <<>>
    /\ overdue = {}
    /\ tick = <<>>

\* A new status; a new phase has a limit of its own, which the clock may have
\* passed already (then Overdue comes at once).
Move(j, s) ==
    /\ status' = [status EXCEPT ![j] = s]
    /\ overdue' = IF s \in {"provisioning", "running"} \cup Terminal
                  THEN overdue \ {j} ELSE overdue

QueueAdmit(j) ==
    /\ status[j] = "absent"
    /\ Move(j, "admitted")
    /\ created' = Append(created, j)
    /\ UNCHANGED tick

\* A cancel, or a post of results with a terminal status.
Finish(j) ==
    /\ status[j] \in NonTerminal
    /\ \E t \in Endings : Move(j, t)
    /\ UNCHANGED <<created, tick>>

\* The clock passes the limit of a job's phase.
Overdue(j) ==
    /\ status[j] \in NonTerminal
    /\ j \notin overdue
    /\ overdue' = overdue \cup {j}
    /\ UNCHANGED <<status, created, tick>>
-----------------------------------------------------------------------------
\* fair_queue_stmt: ORDER BY world_size, created_at.
Before(j, k) ==
    \/ WorldSize[j] < WorldSize[k]
    \/ WorldSize[j] = WorldSize[k] /\ SelectInSeq(created, LAMBDA i : i = j)
                                       < SelectInSeq(created, LAMBDA i : i = k)

\* list_drainable_jobs: the first Limit of the non-terminal jobs.
Drainable ==
    LET queue == SortSeq(SelectSeq(created, LAMBDA j : status[j] \in NonTerminal), Before)
    IN  SubSeq(queue, 1, IF Len(queue) < Limit THEN Len(queue) ELSE Limit)

StartTick ==
    /\ tick = <<>>
    /\ Drainable # <<>>
    /\ tick' = Drainable
    /\ UNCHANGED <<status, created, overdue>>

\* The tick comes to job j, and goes on to the next one after it.
AtJob(j) ==
    /\ tick # <<>>
    /\ j = Head(tick)
    /\ tick' = Tail(tick)
    /\ UNCHANGED created

\* refresh shows that the job has ended since the list was read.
VisitEnded(j) ==
    /\ AtJob(j)
    /\ status[j] \in Terminal
    /\ UNCHANGED <<status, overdue>>

\* should_timeout: only a job that was placed has a start to be late from.
TimesOut(j) == j \in overdue /\ status[j] \in BudgetHolding

VisitLate(j) ==
    /\ AtJob(j)
    /\ TimesOut(j)
    /\ Move(j, "timeout")

\* Mutant of VisitUnbound: a job without capacity keeps waiting.
VisitUnboundWaits(j) ==
    /\ AtJob(j)
    /\ status[j] \in {"admitted", "placing"}
    /\ \/ Capacity[j] = "leased" /\ Move(j, "failed")
       \/ Capacity[j] = "none" /\ Move(j, "placing")

\* try_bind_capacity: a lease may have become inactive; without any capacity
\* the job is parked in placing until its wait is over, and then fails.
VisitUnbound(j) ==
    /\ AtJob(j)
    /\ status[j] \in {"admitted", "placing"}
    /\ \/ Capacity[j] = "leased" /\ Move(j, "failed")
       \/ Capacity[j] = "none" /\ Move(j, IF j \in overdue THEN "failed" ELSE "placing")

\* With capacity the job goes through placing to provisioning in one visit,
\* unless the budget holds it back in placing or the placement fails.
VisitBound(j) ==
    /\ AtJob(j)
    /\ status[j] \in {"admitted", "placing"}
    /\ Capacity[j] # "none"
    /\ IF CanAdmit(status, j) THEN Move(j, "provisioning") \/ Move(j, "failed")
       ELSE Move(j, "placing")

\* The start of the run sets started_at, so the deadline counts from now on.
VisitStart(j) ==
    /\ AtJob(j)
    /\ status[j] = "provisioning"
    /\ ~TimesOut(j)
    /\ Move(j, "running") \/ Move(j, "failed")

VisitLaunch(j) ==
    /\ AtJob(j)
    /\ status[j] = "running"
    /\ ~TimesOut(j)
    /\ \E s \in {"collecting", "failed", "timeout"} : Move(j, s)

VisitCollected(j) ==
    /\ AtJob(j)
    /\ status[j] \in {"collecting", "scoring"}
    /\ ~TimesOut(j)
    /\ Move(j, Forward[status[j]])

\* One visit that runs to its end.
Visit(j) ==
    \/ VisitEnded(j)
    \/ VisitLate(j)
    \/ VisitUnbound(j)
    \/ VisitBound(j)
    \/ VisitStart(j)
    \/ VisitLaunch(j)
    \/ VisitCollected(j)

\* An exception, or a claim lost to a request that finished the job meanwhile:
\* the session is rolled back, which expires every listed row, and reading the
\* status of the next job then raises outside the per-job handler.  The tick
\* ends there; what the visit had committed (placing) stays.
VisitRolledBack(j) ==
    /\ tick # <<>>
    /\ j = Head(tick)
    /\ status[j] \in NonTerminal
    /\ tick' = <<>>
    /\ \/ UNCHANGED <<status, overdue>>
       \/ status[j] = "admitted" /\ Move(j, "placing")
       \/ \E t \in Endings : Move(j, t)
    /\ UNCHANGED created

QueueNext ==
    \/ StartTick
    \/ \E j \in Jobs :
          \/ QueueAdmit(j)
          \/ Finish(j)
          \/ Overdue(j)
          \/ Visit(j)
          \/ VisitRolledBack(j)

\* The loop sleeps and ticks for ever, and time passes.  A rollback comes of a
\* busy database or of a race with a request: a job whose turn comes again and
\* again is not rolled back every time.
Fairness ==
    /\ WF_queueVars(StartTick)
    /\ \A j \in Jobs : SF_queueVars(Visit(j)) /\ WF_queueVars(Overdue(j))

QueueSpec == QueueInit /\ [][QueueNext]_queueVars /\ Fairness
-----------------------------------------------------------------------------
QueueTypeOK ==
    /\ status \in [Jobs -> Status]
    /\ created \in Seq(Jobs)
    /\ overdue \subseteq Jobs
    /\ tick \in Seq(Jobs)

\* The caps on concurrent worlds hold at every moment of every tick, although
\* each job is admitted on a count of its own (can_admit_to_running).
BudgetKept == WithinBudget(status)

\* Every admitted job ends, giants and micros alike: nobody holds the budget
\* for ever and nobody waits for it for ever.
Served == \A j \in Jobs : status[j] = "admitted" ~> status[j] \in Terminal

\* "prefer small world_size so micros are not starved" (list_drainable_jobs).
MicrosNotStarved ==
    \A j \in Jobs : (~IsLarge(j) /\ status[j] = "admitted") ~> status[j] \in Terminal

=============================================================================
