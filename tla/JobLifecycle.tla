---------------------------- MODULE JobLifecycle ----------------------------
(***************************************************************************)
(* The life of a job as domain/job_lifecycle.py and domain/job_queue.py     *)
(* drive it: any number of workers draining the queue, and any number of    *)
(* HTTP requests that cancel a job or post results, all on one SQLite       *)
(* database.                                                                *)
(*                                                                          *)
(* A handler is a series of committed reads, each of which may be stale     *)
(* when the next one runs, and one atomic write: pysqlite opens the write   *)
(* transaction at the first INSERT/UPDATE and holds the single writer lock  *)
(* to the commit.  So a process here has a program counter and the rows it  *)
(* has read, each read is an action, and each action that writes is one     *)
(* whole transaction.  Only cas_status_transition re-checks what was read;  *)
(* the other writes are unconditional UPDATEs of the columns the handler    *)
(* changed.                                                                 *)
(***************************************************************************)
EXTENDS JobStates

CONSTANTS
    Workers,       \* drain loops (combined worker, or separate ones)
    Clients,       \* concurrent cancel / results requests
    MaxAttempt,    \* bound on the attempt_no that a results post names
    Outputs,       \* digests of what a client's run put out
    Payloads,      \* result envelopes that clients post
    NoDigest,      \* result_digest IS NULL
    LaunchDigest,  \* result_digest written by the worker's own collect
    NoJob          \* a process that holds no job

\* A posted status is any string: "running" stands for the non-terminal ones.
AttemptStatus == Terminal \cup {"running"}

\* An envelope: its status, its (output, fabric report) digests, whether it
\* is flagged (unverified or carrying integrity codes), and whether the same
\* request also carries a quote to verify.
Payload == [status : AttemptStatus, out : Outputs \cup {"none"},
            flagged : BOOLEAN, quote : BOOLEAN]

ASSUME PayloadAssumption ==
    /\ Payloads \subseteq Payload
    /\ NoDigest \notin Payloads
    /\ LaunchDigest \notin Payloads
    /\ NoDigest # LaunchDigest
ASSUME MaxAttemptAssumption == MaxAttempt \in Nat \ {0}
ASSUME NoJobAssumption == NoJob \notin Jobs

AttemptNos == 1..MaxAttempt

VARIABLES
    placements,  \* number of job_placements rows of each job
    launches,    \* history: launcher runs whose transaction committed
    attempts,    \* job_attempts rows, and whether each has a scores row
    worker,      \* what each drain loop has read
    client       \* what each request has read

vars == <<status, placements, launches, attempts, worker, client>>
db == <<status, placements, launches, attempts>>

Digest == Payloads \cup {NoDigest, LaunchDigest}

\* digest is set together with finished_at, so a row is sealed when it has one.
Attempt == [status : AttemptStatus \cup {"absent"}, digest : Digest,
            out : Outputs \cup {"none", "launch", "fabric"}, scored : BOOLEAN]

NoAttempt == [status |-> "absent", digest |-> NoDigest, out |-> "none", scored |-> FALSE]
NewAttempt(s) == [NoAttempt EXCEPT !.status = s]

Exists(a) == a.status # "absent"
IsOpen(a) == a.status = "running"
IsSealed(a) == a.digest # NoDigest

\* get_latest_attempt: the highest attempt_no; 1 names the row to create when
\* the job has none.
Latest(j) ==
    LET taken == {n \in AttemptNos : Exists(attempts[j][n])}
    IN  IF taken = {} THEN 1 ELSE CHOOSE n \in taken : \A m \in taken : m <= n

\* The ORM writes a column only when the handler changed the value it read.
Dirty(stored, read, new) == IF new = read THEN stored ELSE new

WriteAttempt(j, n, a) == attempts' = [attempts EXCEPT ![j][n] = a]

\* score_attempt_with_tee where an exception in it is only logged: the rest of
\* the transaction still commits.
SealZero(scored) == {scored, TRUE}

WorkerPc == {"idle", "timing_out", "timeout_write", "failing", "fail_write",
             "holding", "binding", "rereading", "gated", "claiming"}
ClientPc == {"idle", "cancelling", "cancel_write", "posting", "post_write", "quoting"}

Idle == [pc |-> "idle", job |-> NoJob, seen |-> "absent", no |-> 1, found |-> NoAttempt]
IdleClient == [pc |-> "idle", job |-> NoJob, no |-> 1, found |-> NoAttempt,
               payload |-> NoDigest, live |-> FALSE]

Init ==
    /\ status = [j \in Jobs |-> "absent"]
    /\ placements = [j \in Jobs |-> 0]
    /\ launches = [j \in Jobs |-> 0]
    /\ attempts = [j \in Jobs |-> [n \in AttemptNos |-> NoAttempt]]
    /\ worker = [w \in Workers |-> Idle]
    /\ client = [c \in Clients |-> IdleClient]

\* admit_job: a validated request inserts the row already in "admitted".
Admit(j) ==
    /\ status[j] = "absent"
    /\ status' = [status EXCEPT ![j] = "admitted"]
    /\ UNCHANGED <<placements, launches, attempts, worker, client>>
-----------------------------------------------------------------------------
(* advance_job_one_step, by a drain loop. *)

WorkerAt(w, pc) == worker[w].pc = pc
Goto(w, pc) == worker' = [worker EXCEPT ![w].pc = pc]
Release(w) == worker' = [worker EXCEPT ![w] = Idle]
Picked(j, pc) == [Idle EXCEPT !.pc = pc, !.job = j, !.seen = status[j]]

\* session.refresh(job), should_timeout, try_bind_capacity.  The clock and the
\* lease rows are outside this module: a job past its start may or may not be
\* late, and capacity may be bound, missing for now, or refused.  Capacity that
\* is missing leaves a job that already is in placing alone.
WorkerRefresh(w, j) ==
    /\ WorkerAt(w, "idle")
    /\ status[j] \in NonTerminal
    /\ \E pc \in IF status[j] \in BudgetHolding THEN {"timing_out", "claiming"}
                 ELSE IF status[j] = "admitted" THEN {"failing", "holding", "binding"}
                 ELSE {"failing", "gated"} :
          worker' = [worker EXCEPT ![w] = Picked(j, pc)]
    /\ UNCHANGED <<db, client>>

\* mark_timeout and mark_failed read the latest attempt before they write.
WorkerReadAttempt(w) ==
    LET j == worker[w].job
        n == Latest(j)
        next == IF worker[w].pc = "timing_out" THEN "timeout_write" ELSE "fail_write"
    IN  /\ worker[w].pc \in {"timing_out", "failing"}
        /\ worker' = [worker EXCEPT ![w] = [@ EXCEPT !.pc = next, !.no = n,
                                                    !.found = attempts[j][n]]]
        /\ UNCHANGED <<db, client>>

\* mark_timeout: an unconditional write; a job that had no attempt gets a
\* first one, unless another process has inserted it (then the transaction
\* fails: see WorkerAbort).  A zero score is sealed.
MarkTimeout(w) ==
    LET j == worker[w].job
        n == worker[w].no
        a == attempts[j][n]
        read == worker[w].found
    IN  /\ WorkerAt(w, "timeout_write")
        /\ Exists(a) <=> Exists(read)
        /\ status' = [status EXCEPT ![j] = "timeout"]
        /\ \E z \in SealZero(a.scored) : WriteAttempt(j, n, [a EXCEPT
              !.status = IF ~Exists(read) \/ IsOpen(read) THEN "timeout" ELSE @,
              !.scored = z])
        /\ Release(w)
        /\ UNCHANGED <<placements, launches, client>>

\* mark_failed: no attempt is created, no score is written.
MarkFailed(w) ==
    LET j == worker[w].job
        n == worker[w].no
    IN  /\ WorkerAt(w, "fail_write")
        /\ status' = [status EXCEPT ![j] = "failed"]
        /\ attempts' = IF IsOpen(worker[w].found)
                       THEN [attempts EXCEPT ![j][n].status = "failed"] ELSE attempts
        /\ Release(w)
        /\ UNCHANGED <<placements, launches, client>>

\* cas_status_transition out of "admitted": applied only when it still holds.
LeaveAdmitted(j) ==
    status' = IF status[j] = "admitted" THEN [status EXCEPT ![j] = "placing"] ELSE status

\* Capacity wait: park the job in placing and leave it.
WorkerHold(w) ==
    /\ WorkerAt(w, "holding")
    /\ LeaveAdmitted(worker[w].job)
    /\ Release(w)
    /\ UNCHANGED <<placements, launches, attempts, client>>

\* Capacity bound: move to placing, then read the row again and go on from
\* whatever status it has by then.
WorkerBind(w) ==
    /\ WorkerAt(w, "binding")
    /\ LeaveAdmitted(worker[w].job)
    /\ Goto(w, "rereading")
    /\ UNCHANGED <<placements, launches, attempts, client>>

WorkerReread(w) ==
    LET now == status[worker[w].job]
    IN  /\ WorkerAt(w, "rereading")
        /\ IF now \in DOMAIN Forward
           THEN worker' = [worker EXCEPT ![w].seen = now,
                              ![w].pc = IF now = "placing" THEN "gated" ELSE "claiming"]
           ELSE Release(w)
        /\ UNCHANGED <<db, client>>

\* can_admit_to_running, read before the claim and not re-checked by it.
WorkerGate(w) ==
    /\ WorkerAt(w, "gated")
    /\ IF CanAdmit(status, worker[w].job) THEN Goto(w, "claiming") ELSE Release(w)
    /\ UNCHANGED <<db, client>>

\* The CAS claim of seen -> Forward[seen]; its side effects commit with it.
LostClaim(w) ==
    /\ WorkerAt(w, "claiming")
    /\ status[worker[w].job] # worker[w].seen
    /\ Release(w)
    /\ UNCHANGED <<db, client>>

\* Mutant of WonClaim: trusts the status read earlier instead of a CAS.
WonClaimBlind(w, from) ==
    /\ WorkerAt(w, "claiming")
    /\ worker[w].seen = from
    /\ Release(w)
    /\ UNCHANGED client

WonClaim(w, from) ==
    /\ WorkerAt(w, "claiming")
    /\ worker[w].seen = from
    /\ status[worker[w].job] = from
    /\ Release(w)
    /\ UNCHANGED client

\* _place_job writes a placement if there is none, or fails the job.
ClaimProvisioning(w) ==
    LET j == worker[w].job
    IN  /\ WonClaim(w, "placing")
        /\ \/ /\ status' = [status EXCEPT ![j] = "provisioning"]
              /\ placements' = IF placements[j] = 0
                               THEN [placements EXCEPT ![j] = 1] ELSE placements
           \/ /\ status' = [status EXCEPT ![j] = "failed"]
              /\ UNCHANGED placements
        /\ UNCHANGED <<launches, attempts>>

\* Mutant of ClaimRunning: leaves the attempt row to a later step.
ClaimRunningNoAttempt(w) ==
    /\ WonClaim(w, "provisioning")
    /\ status' = [status EXCEPT ![worker[w].job] = "running"]
    /\ UNCHANGED <<placements, launches, attempts>>

\* _ensure_running_attempt keeps the latest attempt, sealed or not, and only
\* invents number 1; a forced launch failure fails the job and that attempt.
ClaimRunning(w) ==
    LET j == worker[w].job
        n == Latest(j)
        a == IF Exists(attempts[j][n]) THEN attempts[j][n] ELSE NewAttempt("running")
    IN  /\ WonClaim(w, "provisioning")
        /\ \/ /\ status' = [status EXCEPT ![j] = "running"]
              /\ WriteAttempt(j, n, a)
           \/ /\ status' = [status EXCEPT ![j] = "failed"]
              /\ WriteAttempt(j, n, [a EXCEPT !.status = "failed"])
        /\ UNCHANGED <<placements, launches>>

\* Mutant of Collect: forgets the score of a good launch.
CollectUnscored(j, n, a) ==
    /\ launches' = [launches EXCEPT ![j] = @ + 1]
    /\ status' = [status EXCEPT ![j] = "collecting"]
    /\ WriteAttempt(j, n, IF IsSealed(a) THEN a
                          ELSE [a EXCEPT !.status = "succeeded", !.digest = LaunchDigest])

\* _collect_success: the launcher runs.  Results a provider sealed first keep
\* their digests and only gain a score; otherwise the launch result is sealed
\* on the attempt, or fails or times out the job with it.
Collect(j, n, a) ==
    /\ launches' = [launches EXCEPT ![j] = @ + 1]
    /\ \/ /\ IsSealed(a)
          /\ status' = [status EXCEPT ![j] = "collecting"]
          /\ WriteAttempt(j, n, [a EXCEPT !.scored = TRUE])
       \/ /\ ~IsSealed(a)
          /\ status' = [status EXCEPT ![j] = "collecting"]
          /\ WriteAttempt(j, n, [status |-> "succeeded", digest |-> LaunchDigest,
                                 out |-> "launch", scored |-> TRUE])
       \/ /\ ~IsSealed(a)
          /\ status' = [status EXCEPT ![j] = "failed"]
          /\ WriteAttempt(j, n, [a EXCEPT !.status = "failed", !.out = "fabric"])
       \/ /\ ~IsSealed(a)
          /\ status' = [status EXCEPT ![j] = "timeout"]
          /\ \E z \in SealZero(a.scored) :
                WriteAttempt(j, n, [a EXCEPT !.status = "timeout", !.out = "fabric",
                                             !.scored = z])

\* The claim is held through the optional run sleep; a job that is late after
\* it is timed out in the same transaction, without a launch.
ClaimCollecting(w) ==
    LET j == worker[w].job
        n == Latest(j)
        stored == attempts[j][n]
        a == IF Exists(stored) THEN stored ELSE NewAttempt("running")
    IN  /\ WonClaim(w, "running")
        /\ \/ Collect(j, n, a)
           \/ /\ status' = [status EXCEPT ![j] = "timeout"]
              /\ \E z \in SealZero(a.scored) : WriteAttempt(j, n, [a EXCEPT
                    !.status = IF IsOpen(a) THEN "timeout" ELSE @, !.scored = z])
              /\ UNCHANGED launches
        /\ UNCHANGED placements

ClaimScoring(w) ==
    /\ WonClaim(w, "collecting")
    /\ status' = [status EXCEPT ![worker[w].job] = "scoring"]
    /\ UNCHANGED <<placements, launches, attempts>>

\* Success overwrites the status of the latest attempt, whatever it says.
ClaimSucceeded(w) ==
    LET j == worker[w].job
        n == Latest(j)
    IN  /\ WonClaim(w, "scoring")
        /\ status' = [status EXCEPT ![j] = "succeeded"]
        /\ attempts' = IF Exists(attempts[j][n])
                       THEN [attempts EXCEPT ![j][n].status = "succeeded"] ELSE attempts
        /\ UNCHANGED <<placements, launches>>

\* An exception (rolled back and logged by drain_jobs_once), a busy database,
\* or a crash of the process: nothing of the open transaction is kept.
WorkerAbort(w) ==
    /\ ~WorkerAt(w, "idle")
    /\ Release(w)
    /\ UNCHANGED <<db, client>>

WorkerStep(w) ==
    \/ \E j \in Jobs : WorkerRefresh(w, j)
    \/ WorkerReadAttempt(w)
    \/ MarkTimeout(w)
    \/ MarkFailed(w)
    \/ WorkerHold(w)
    \/ WorkerBind(w)
    \/ WorkerReread(w)
    \/ WorkerGate(w)
    \/ LostClaim(w)
    \/ ClaimProvisioning(w)
    \/ ClaimRunning(w)
    \/ ClaimCollecting(w)
    \/ ClaimScoring(w)
    \/ ClaimSucceeded(w)
    \/ WorkerAbort(w)
-----------------------------------------------------------------------------
(* cancel_job and the results route, by HTTP requests. *)

ClientAt(c, pc) == client[c].pc = pc
Respond(c) == client' = [client EXCEPT ![c] = IdleClient]

\* cancel_job by the owner: a terminal job is refused with 409.
CancelReadJob(c, j) ==
    /\ ClientAt(c, "idle")
    /\ status[j] \in NonTerminal
    /\ client' = [client EXCEPT ![c] = [IdleClient EXCEPT !.pc = "cancelling", !.job = j]]
    /\ UNCHANGED <<db, worker>>

CancelReadAttempt(c) ==
    LET j == client[c].job
        n == Latest(j)
    IN  /\ ClientAt(c, "cancelling")
        /\ client' = [client EXCEPT ![c] = [@ EXCEPT !.pc = "cancel_write", !.no = n,
                                                    !.found = attempts[j][n]]]
        /\ UNCHANGED <<db, worker>>

\* The write does not look at the job again.
CancelWrite(c) ==
    LET j == client[c].job
        n == client[c].no
    IN  /\ ClientAt(c, "cancel_write")
        /\ status' = [status EXCEPT ![j] = "cancelled"]
        /\ attempts' = IF IsOpen(client[c].found)
                       THEN [attempts EXCEPT ![j][n].status = "cancelled"] ELSE attempts
        /\ Respond(c)
        /\ UNCHANGED <<placements, launches, worker>>

\* post_job_results: reads the job, then the named attempt.
PostReadJob(c, j, n, p) ==
    /\ ClientAt(c, "idle")
    /\ status[j] # "absent"
    /\ client' = [client EXCEPT ![c] = [IdleClient EXCEPT !.pc = "posting", !.job = j,
                     !.no = n, !.payload = p, !.live = status[j] \in NonTerminal]]
    /\ UNCHANGED <<db, worker>>

\* The same result again: same envelope, or same outputs and status.
SameResult(a, p) ==
    /\ Exists(a)
    /\ a.digest = p \/ (a.out = p.out /\ a.status = p.status)

\* A repeat is answered from the row (the quote step still runs), a different
\* result on a sealed attempt is refused with 409, anything else is written.
PostReadAttempt(c) ==
    LET p == client[c].payload
        a == attempts[client[c].job][client[c].no]
    IN  /\ ClientAt(c, "posting")
        /\ \/ /\ SameResult(a, p) /\ p.quote
              /\ client' = [client EXCEPT ![c].pc = "quoting"]
           \/ /\ SameResult(a, p) => ~p.quote
              /\ SameResult(a, p) \/ IsSealed(a)
              /\ Respond(c)
           \/ /\ ~SameResult(a, p) /\ ~IsSealed(a)
              /\ client' = [client EXCEPT ![c].pc = "post_write", ![c].found = a]
        /\ UNCHANGED <<db, worker>>

\* Only flagged or unsuccessful results are scored here; a clean success is
\* left to the worker's collect.
SealsScore(p) == p.flagged \/ p.status # "succeeded"

\* A row that another process has inserted since fails the insert (ClientAbort).
PostWrite(c) ==
    LET j == client[c].job
        n == client[c].no
        p == client[c].payload
        read == client[c].found
        a == attempts[j][n]
    IN  /\ ClientAt(c, "post_write")
        /\ Exists(read) <=> Exists(a)
        /\ \E z \in IF SealsScore(p) THEN SealZero(a.scored) ELSE {a.scored} :
              WriteAttempt(j, n, [status |-> Dirty(a.status, read.status, p.status),
                                  digest |-> p,
                                  out |-> Dirty(a.out, read.out, p.out),
                                  scored |-> z])
        /\ status' = IF client[c].live /\ p.status \in Terminal
                     THEN [status EXCEPT ![j] = p.status] ELSE status
        /\ IF p.quote THEN client' = [client EXCEPT ![c].pc = "quoting"] ELSE Respond(c)
        /\ UNCHANGED <<placements, launches, worker>>

\* jobs_post_results with a quote: a second transaction verifies and scores.
QuoteWrite(c) ==
    LET j == client[c].job
        n == client[c].no
    IN  /\ ClientAt(c, "quoting")
        /\ attempts' = [attempts EXCEPT ![j][n].scored = TRUE]
        /\ Respond(c)
        /\ UNCHANGED <<status, placements, launches, worker>>

\* A uniqueness conflict at the commit, on another table's row: rolled back, and
\* answered as a repeat when the stored row agrees, so the quote step still runs.
PostConflict(c) ==
    LET p == client[c].payload
        a == attempts[client[c].job][client[c].no]
    IN  /\ ClientAt(c, "post_write")
        /\ p.quote
        /\ Exists(a)
        /\ a.digest \in {NoDigest, p} \/ a.out = p.out
        /\ client' = [client EXCEPT ![c].pc = "quoting"]
        /\ UNCHANGED <<db, worker>>

\* A disconnect, a conflict on the attempt's own insert, or a crash before the
\* commit.
ClientAbort(c) ==
    /\ ~ClientAt(c, "idle")
    /\ Respond(c)
    /\ UNCHANGED <<db, worker>>

ClientStep(c) ==
    \/ \E j \in Jobs : CancelReadJob(c, j)
    \/ CancelReadAttempt(c)
    \/ CancelWrite(c)
    \/ \E j \in Jobs, n \in AttemptNos, p \in Payloads : PostReadJob(c, j, n, p)
    \/ PostReadAttempt(c)
    \/ PostWrite(c)
    \/ PostConflict(c)
    \/ QuoteWrite(c)
    \/ ClientAbort(c)

Next ==
    \/ \E j \in Jobs : Admit(j)
    \/ \E w \in Workers : WorkerStep(w)
    \/ \E c \in Clients : ClientStep(c)

Spec == Init /\ [][Next]_vars
-----------------------------------------------------------------------------
WorkerState == [pc : WorkerPc, job : Jobs \cup {NoJob}, seen : Status,
                no : AttemptNos, found : Attempt]
ClientState == [pc : ClientPc, job : Jobs \cup {NoJob}, no : AttemptNos,
                found : Attempt, payload : Payloads \cup {NoDigest}, live : BOOLEAN]

\* The tables and every process's reads are well formed; a process that is not
\* idle holds a job, and a request that posts holds an envelope.
TypeOK ==
    /\ status \in [Jobs -> Status]
    /\ placements \in [Jobs -> Nat]
    /\ launches \in [Jobs -> Nat]
    /\ attempts \in [Jobs -> [AttemptNos -> Attempt]]
    /\ worker \in [Workers -> WorkerState]
    /\ client \in [Clients -> ClientState]
    /\ \A w \in Workers : worker[w].pc # "idle" => worker[w].job \in Jobs
    /\ \A c \in Clients : client[c].pc # "idle" => client[c].job \in Jobs
    /\ \A c \in Clients : client[c].pc \in {"posting", "post_write", "quoting"}
                          => client[c].payload \in Payloads

\* A job's status vouches for the rows behind it, whoever wrote them: a job in
\* provisioning or later has its one placement, a job in running or later has an
\* attempt, a job in collecting or later was launched once and has sealed and
\* scored results; before that there is nothing (advance_job_one_step claims a
\* status and writes its rows in one transaction, and no late write undoes them).
PipelineEvidence ==
    \A j \in Jobs :
        /\ status[j] \in {"absent", "admitted", "placing"} => placements[j] = 0
        /\ status[j] \in BudgetHolding => placements[j] = 1
        /\ status[j] \in {"running", "collecting", "scoring"}
              => \E n \in AttemptNos : Exists(attempts[j][n])
        /\ status[j] \in NonTerminal \ {"collecting", "scoring"} => launches[j] = 0
        /\ status[j] \in {"collecting", "scoring"}
              => /\ launches[j] = 1
                 /\ \E n \in AttemptNos : IsSealed(attempts[j][n]) /\ attempts[j][n].scored

\* Only a results post makes an attempt beyond the first: whatever the drain,
\* a timeout and a cancel do with attempt n > 1, it carries a posted envelope
\* (_ensure_running_attempt must not invent attempt 2, VAL-JOB-009).
OnlyPostsAddAttempts ==
    \A j \in Jobs, n \in AttemptNos \ {1} :
        Exists(attempts[j][n]) => attempts[j][n].digest \in Payloads

\* A scored attempt, or one with a posted envelope.
HasResult(a) == Exists(a) /\ (a.scored \/ a.digest \in Payloads)

\* A succeeded job has results to show for it, however its success was reached
\* and whoever raced with it.
SuccessHasResults ==
    \A j \in Jobs : status[j] = "succeeded" => \E n \in AttemptNos : HasResult(attempts[j][n])

\* What the others rest on.  Results and scores belong to a row.
RowsReal ==
    \A j \in Jobs, n \in AttemptNos :
        IsSealed(attempts[j][n]) \/ attempts[j][n].scored => Exists(attempts[j][n])

\* A drain loop holds a job that has a row; the attempt that it is about to
\* write back, if it read one, still exists (rows are never deleted).
WorkersReal ==
    \A w \in Workers :
        LET r == worker[w]
        IN  /\ r.pc # "idle" => status[r.job] # "absent"
            /\ r.pc \in {"timeout_write", "fail_write"} =>
                  IF Exists(r.found) THEN Exists(attempts[r.job][r.no]) ELSE r.no = 1

\* The same of a request; one that is about to score a quote has an attempt.
ClientsReal ==
    \A c \in Clients :
        LET r == client[c]
        IN  /\ r.pc # "idle" => status[r.job] # "absent"
            /\ r.pc = "cancel_write" /\ Exists(r.found) => Exists(attempts[r.job][r.no])
            /\ r.pc = "quoting" => Exists(attempts[r.job][r.no])

NoPhantomRows == RowsReal /\ WorkersReal /\ ClientsReal

\* The caps on concurrent worlds hold when one loop drains the queue, although
\* the budget is read before the claim and not re-checked by it.
OneWorkerKeepsBudget ==
    (\A v, w \in Workers : v = w) => WithinBudget(status)

\* The detailed lifecycle keeps the promise made about every job.
Promise == INSTANCE JobPromise
               WITH status <- status, placements <- placements, launches <- launches
KeepsPromise == Promise!Spec

\* "Cancel if non-terminal" (docs/jobs.md) and 409 already_terminal: a job that
\* reached a terminal status keeps it.
TerminalIsFinal ==
    [][\A j \in Jobs : status[j] \in Terminal => status'[j] = status[j]]_vars

=============================================================================
