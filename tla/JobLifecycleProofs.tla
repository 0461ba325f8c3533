------------------------- MODULE JobLifecycleProofs -------------------------
(***************************************************************************)
(* Theorems about jobs, for every number of jobs, workers, clients,         *)
(* attempts and envelopes: what JobPromise promises, that JobLifecycle      *)
(* keeps it and vouches for the rows behind each status, and that the       *)
(* budget holds in JobLifecycle and in JobQueue.                            *)
(***************************************************************************)
EXTENDS JobLifecycle, JobQueue, FiniteSetTheorems, WellFoundedInduction, TLAPS

\* A nonempty set of attempt numbers has a greatest element: this is what
\* makes get_latest_attempt (ORDER BY attempt_no DESC LIMIT 1) well defined.
LEMMA GreatestExists ==
  ASSUME NEW S \in SUBSET AttemptNos, S # {}
  PROVE  \E n \in S : \A m \in S : m <= n
<1> DEFINE Above(n) == {m \in S : n < m}
           T == {Above(n) : n \in S}
           R == StrictSubsetOrdering(S)
<1>1. IsFiniteSet(S)
  <2>1. IsFiniteSet(AttemptNos)
    BY FS_Interval, MaxAttemptAssumption DEF AttemptNos
  <2> QED BY <2>1, FS_Subset
<1>2. IsWellFoundedOn(R, SUBSET S)
  BY <1>1, FS_FiniteSubsetsOfFinite, FS_StrictSubsetOrderingWellFounded
<1>3. T \subseteq SUBSET S /\ T # {}
  OBVIOUS
<1>4. PICK x \in T : \A y \in T : ~(<<y, x>> \in R)
  <2> HIDE DEF T, R
  <2> QED BY <1>2, <1>3, WFMin
<1>5. PICK n \in S : x = Above(n)
  BY <1>4
<1>6. ASSUME NEW m \in S, n < m
      PROVE  FALSE
  <2>1. \A k \in S : k \in Int
    BY DEF AttemptNos
  <2>2. Above(m) \subseteq Above(n) /\ m \in Above(n) /\ m \notin Above(m)
    BY <1>6, <2>1
  <2>3. <<Above(m), Above(n)>> \in R
    BY <2>2 DEF StrictSubsetOrdering
  <2> QED BY <2>3, <1>4, <1>5
<1>7. \A m \in S : m <= n
  BY <1>6, MaxAttemptAssumption DEF AttemptNos
<1> QED BY <1>7

\* Latest names an existing row when the job has one, and number 1 otherwise.
LEMMA LatestProperty ==
  ASSUME NEW j \in Jobs
  PROVE  /\ Latest(j) \in AttemptNos
         /\ Exists(attempts[j][Latest(j)]) \/ Latest(j) = 1
         /\ (\E n \in AttemptNos : Exists(attempts[j][n])) => Exists(attempts[j][Latest(j)])
<1> DEFINE taken == {n \in AttemptNos : Exists(attempts[j][n])}
<1>1. CASE taken = {}
  BY <1>1, MaxAttemptAssumption DEF Latest, AttemptNos
<1>2. CASE taken # {}
  <2>1. \E n \in taken : \A m \in taken : m <= n
    BY <1>2, GreatestExists
  <2>2. Latest(j) = CHOOSE n \in taken : \A m \in taken : m <= n
    BY <1>2 DEF Latest
  <2>3. Latest(j) \in taken
    BY <2>1, <2>2
  <2> QED BY <2>3
<1> QED BY <1>1, <1>2
-----------------------------------------------------------------------------
(* The promise: JobPromise by itself, whoever takes its steps. *)

\* Along the success path a step goes to the next rank, and no status that a
\* step can reach has a rank above the terminal one.
LEMMA RankProperty ==
  /\ \A s \in Promise!Status : Promise!Rank[s] \in 0..7
  /\ \A s \in DOMAIN Promise!Forward :
        s \in Promise!Status /\ Promise!Rank[Promise!Forward[s]] = Promise!Rank[s] + 1
  /\ \A s \in DOMAIN Promise!Forward : Promise!Forward[s] \in Promise!Status
  /\ \A s \in DOMAIN Promise!Forward : (s = "placing") <=> (Promise!Rank[s] = 2)
  /\ \A s \in DOMAIN Promise!Forward : (s = "running") <=> (Promise!Rank[s] = 4)
  /\ \A s \in Promise!Terminal : s \in Promise!Status /\ Promise!Rank[s] = 7
  /\ Promise!Rank["absent"] = 0 /\ Promise!Rank["admitted"] = 1 /\ Promise!Rank["running"] = 4
BY DEF Promise!Rank, Promise!Status, Promise!Forward, Promise!NonTerminal, Promise!Terminal

\* No counts at first.
LEMMA CountsInit == Promise!Init => Promise!TypeOK /\ Promise!CountsFollowRank
BY RankProperty DEF Promise!Init, Promise!TypeOK, Promise!CountsFollowRank, Promise!Status

\* One step along the path keeps the counts in line with it.
LEMMA CountsStep ==
  ASSUME Promise!TypeOK, Promise!CountsFollowRank, [Promise!Next]_Promise!vars
  PROVE  Promise!TypeOK' /\ Promise!CountsFollowRank'
<1> USE RankProperty
<1>1. ASSUME NEW j \in Jobs, Promise!Admit(j) PROVE Promise!TypeOK' /\ Promise!CountsFollowRank'
  BY <1>1 DEF Promise!Admit, Promise!TypeOK, Promise!CountsFollowRank, Promise!Status, Promise!NonTerminal
<1>2. ASSUME NEW j \in Jobs, Promise!Advance(j) PROVE Promise!TypeOK' /\ Promise!CountsFollowRank'
  <2>1. Promise!TypeOK'
    BY <1>2 DEF Promise!Advance, Promise!TypeOK
  <2>2. ASSUME NEW k \in Jobs, k # j
        PROVE  status'[k] = status[k] /\ placements'[k] = placements[k]
               /\ launches'[k] = launches[k]
    BY <1>2, <2>2 DEF Promise!Advance, Promise!TypeOK
  <2>3. /\ status'[j] = Promise!Forward[status[j]]
        /\ placements'[j] = IF Promise!Rank[status[j]] = 2 THEN placements[j] + 1 ELSE placements[j]
        /\ launches'[j] = IF Promise!Rank[status[j]] = 4 THEN launches[j] + 1 ELSE launches[j]
    <3>1. status[j] \in DOMAIN Promise!Forward
      BY <1>2 DEF Promise!Advance
    <3>2. /\ (status[j] = "placing") <=> (Promise!Rank[status[j]] = 2)
          /\ (status[j] = "running") <=> (Promise!Rank[status[j]] = 4)
      BY <3>1
    <3>3. CASE status[j] = "placing"
      BY <1>2, <3>2, <3>3 DEF Promise!Advance, Promise!TypeOK
    <3>4. CASE status[j] # "placing"
      BY <1>2, <3>2, <3>4 DEF Promise!Advance, Promise!TypeOK
    <3> QED BY <3>3, <3>4
  <2>4. Promise!Rank[status[j]] \in 0..7 /\ Promise!Rank[status'[j]] = Promise!Rank[status[j]] + 1
    BY <1>2, <2>3 DEF Promise!Advance, Promise!TypeOK
  <2> QED BY <2>1, <2>2, <2>3, <2>4 DEF Promise!CountsFollowRank, Promise!TypeOK
<1>3. ASSUME NEW j \in Jobs, Promise!Finish(j) PROVE Promise!TypeOK' /\ Promise!CountsFollowRank'
  <2>1. Promise!TypeOK'
    BY <1>3 DEF Promise!Finish, Promise!TypeOK
  <2>2. /\ Promise!Rank[status'[j]] = 7
        /\ launches'[j] = launches[j]
           \/ (Promise!Rank[status[j]] = 4 /\ launches'[j] = launches[j] + 1)
        /\ placements' = placements
    BY <1>3 DEF Promise!Finish, Promise!TypeOK
  <2>3. \A k \in Jobs \ {j} : status'[k] = status[k] /\ launches'[k] = launches[k]
    BY <1>3 DEF Promise!Finish, Promise!TypeOK
  <2> QED BY <2>1, <2>2, <2>3 DEF Promise!CountsFollowRank, Promise!TypeOK
<1>4. CASE UNCHANGED Promise!vars
  BY <1>4 DEF Promise!vars, Promise!TypeOK, Promise!CountsFollowRank
<1> QED BY <1>1, <1>2, <1>3, <1>4 DEF Promise!Next

\* No job is placed or launched twice, and none before its turn: the counts
\* follow the status (job_lifecycle.py, the claims of advance_job_one_step).
THEOREM CountsCorrect == Promise!Spec => [](Promise!TypeOK /\ Promise!CountsFollowRank)
<1>1. Promise!TypeOK /\ Promise!CountsFollowRank /\ [Promise!Next]_Promise!vars
        => Promise!TypeOK' /\ Promise!CountsFollowRank'
  BY CountsStep
<1> QED BY <1>1, CountsInit, PTL DEF Promise!Spec

\* A job never moves backwards: no step takes it out of a terminal status back
\* into the pipeline, or back to an earlier stage (advance_job_one_step).
THEOREM NeverBackwards == Promise!Spec => Promise!ForwardOnly
<1>1. Promise!TypeOK /\ [Promise!Next]_Promise!vars
        => [\A j \in Jobs : Promise!Rank[status[j]] <= Promise!Rank[status'[j]]]_Promise!vars
  <2> SUFFICES ASSUME Promise!TypeOK, NEW j \in Jobs, NEW k \in Jobs,
                      Promise!Admit(j) \/ Promise!Advance(j) \/ Promise!Finish(j)
               PROVE  Promise!Rank[status[k]] <= Promise!Rank[status'[k]]
    BY DEF Promise!Next
  <2>1. Promise!Rank[status[k]] \in 0..7
    BY RankProperty DEF Promise!TypeOK
  <2>2. CASE k # j
    BY <2>1, <2>2 DEF Promise!Admit, Promise!Advance, Promise!Finish, Promise!TypeOK
  <2>3. CASE k = j
    BY <2>1, <2>3, RankProperty DEF Promise!Admit, Promise!Advance, Promise!Finish, Promise!TypeOK
  <2> QED BY <2>2, <2>3
<1> QED BY <1>1, CountsCorrect, PTL DEF Promise!Spec, Promise!ForwardOnly
-----------------------------------------------------------------------------
\* The empty records are well typed.
LEMMA EmptyRecordsTyped ==
  /\ NoAttempt \in Attempt /\ NewAttempt("running") \in Attempt
  /\ Idle \in WorkerState /\ Idle.pc = "idle"
  /\ IdleClient \in ClientState /\ IdleClient.pc = "idle"
<1>1. NoAttempt \in Attempt /\ NewAttempt("running") \in Attempt
  <2>1. NoAttempt \in Attempt
    BY DEF NoAttempt, Attempt, Digest
  <2>2. [NoAttempt EXCEPT !.status = "running"] \in Attempt
    BY <2>1 DEF Attempt, AttemptStatus
  <2> QED BY <2>1, <2>2 DEF NewAttempt
<1>2. 1 \in AttemptNos
  BY MaxAttemptAssumption DEF AttemptNos
<1> QED
  BY <1>1, <1>2 DEF Idle, IdleClient, WorkerState, ClientState, WorkerPc, ClientPc, Status

\* The conjuncts of TypeOK about the tables, and those about the processes.
TablesTyped ==
    /\ status \in [Jobs -> Status]
    /\ placements \in [Jobs -> Nat]
    /\ launches \in [Jobs -> Nat]
    /\ attempts \in [Jobs -> [AttemptNos -> Attempt]]
WorkersTyped ==
    /\ worker \in [Workers -> WorkerState]
    /\ \A w \in Workers : worker[w].pc # "idle" => worker[w].job \in Jobs
ClientsTyped ==
    /\ client \in [Clients -> ClientState]
    /\ \A c \in Clients : client[c].pc # "idle" => client[c].job \in Jobs
    /\ \A c \in Clients : client[c].pc \in {"posting", "post_write", "quoting"}
                          => client[c].payload \in Payloads

\* TypeOK is the three parts.
LEMMA TypeOKParts == TypeOK <=> TablesTyped /\ WorkersTyped /\ ClientsTyped
BY DEF TypeOK, TablesTyped, WorkersTyped, ClientsTyped

\* Every step keeps the processes' reads typed.
LEMMA WorkersStayTyped ==
  ASSUME TablesTyped, WorkersTyped, NEW w \in Workers, WorkerStep(w)
  PROVE  WorkersTyped'
<1> USE DEF WorkersTyped
<1>1. CASE Release(w)
  BY <1>1, EmptyRecordsTyped DEF Release
<1>2. ASSUME NEW j \in Jobs, WorkerRefresh(w, j) PROVE WorkersTyped'
  <2>1. PICK pc \in WorkerPc : worker' = [worker EXCEPT ![w] = Picked(j, pc)]
    BY <1>2 DEF WorkerRefresh, WorkerPc
  <2>2. Picked(j, pc) \in WorkerState /\ Picked(j, pc).job = j
    BY EmptyRecordsTyped DEF Picked, WorkerState, TablesTyped, Idle
  <2> QED BY <2>1, <2>2
<1>3. CASE WorkerReadAttempt(w)
  <2> DEFINE j == worker[w].job
             n == Latest(j)
  <2>1. /\ worker[w].pc \in {"timing_out", "failing"}
        /\ \E pc \in WorkerPc : worker' = [worker EXCEPT ![w] =
               [@ EXCEPT !.pc = pc, !.no = n, !.found = attempts[j][n]]]
    BY <1>3 DEF WorkerReadAttempt, WorkerPc
  <2>2. j \in Jobs /\ n \in AttemptNos
    BY <2>1, LatestProperty
  <2>3. attempts[j][n] \in Attempt
    BY <2>2 DEF TablesTyped
  <2> HIDE DEF j, n
  <2>4. PICK pc \in WorkerPc : worker' = [worker EXCEPT ![w] =
               [worker[w] EXCEPT !.pc = pc, !.no = n, !.found = attempts[j][n]]]
    BY <2>1
  <2>5. /\ [worker[w] EXCEPT !.pc = pc, !.no = n, !.found = attempts[j][n]] \in WorkerState
        /\ worker[w].job \in Jobs
    BY <2>1, <2>2, <2>3 DEF WorkerState
  <2> QED BY <2>4, <2>5 DEF WorkerState
<1>4. CASE WorkerBind(w)
  BY <1>4 DEF WorkerBind, Goto, WorkerAt, WorkerState, WorkerPc
<1>5. CASE WorkerReread(w)
  BY <1>5, <1>1 DEF WorkerReread, WorkerAt, WorkerState, WorkerPc, TablesTyped
<1>6. CASE WorkerGate(w)
  BY <1>6, <1>1 DEF WorkerGate, Goto, WorkerAt, WorkerState, WorkerPc
<1>7. CASE \/ MarkTimeout(w) \/ MarkFailed(w) \/ WorkerHold(w) \/ LostClaim(w)
           \/ ClaimProvisioning(w) \/ ClaimRunning(w) \/ ClaimCollecting(w)
           \/ ClaimScoring(w) \/ ClaimSucceeded(w) \/ WorkerAbort(w)
  BY <1>7, <1>1 DEF MarkTimeout, MarkFailed, WorkerHold, LostClaim, ClaimProvisioning,
       ClaimRunning, ClaimCollecting, ClaimScoring, ClaimSucceeded, WorkerAbort, WonClaim
<1> QED BY <1>2, <1>3, <1>4, <1>5, <1>6, <1>7 DEF WorkerStep

\* So does every step of a request.
LEMMA ClientsStayTyped ==
  ASSUME TablesTyped, ClientsTyped, NEW c \in Clients, ClientStep(c)
  PROVE  ClientsTyped'
<1> USE DEF ClientsTyped
<1>1. CASE Respond(c)
  BY <1>1, EmptyRecordsTyped DEF Respond
<1>2. ASSUME NEW j \in Jobs, CancelReadJob(c, j) PROVE ClientsTyped'
  BY <1>2, EmptyRecordsTyped DEF CancelReadJob, ClientState, ClientPc, IdleClient
<1>3. CASE CancelReadAttempt(c)
  <2> DEFINE j == client[c].job
             n == Latest(j)
             r == [client[c] EXCEPT !.pc = "cancel_write", !.no = n, !.found = attempts[j][n]]
  <2>1. client[c].pc = "cancelling" /\ client' = [client EXCEPT ![c] = r]
    BY <1>3 DEF CancelReadAttempt, ClientAt
  <2>2. j \in Jobs /\ n \in AttemptNos
    BY <2>1, LatestProperty
  <2>3. attempts[j][n] \in Attempt
    BY <2>2 DEF TablesTyped
  <2> HIDE DEF j, n
  <2>4. r \in ClientState /\ r.pc = "cancel_write" /\ r.job \in Jobs
    BY <2>1, <2>2, <2>3 DEF ClientState, ClientPc, j
  <2> HIDE DEF r
  <2> QED BY <2>1, <2>4 DEF ClientState
<1>4. ASSUME NEW j \in Jobs, NEW n \in AttemptNos, NEW p \in Payloads,
             PostReadJob(c, j, n, p)
      PROVE  ClientsTyped'
  <2> DEFINE live == status[j] \in NonTerminal
             r == [IdleClient EXCEPT !.pc = "posting", !.job = j, !.no = n,
                     !.payload = p, !.live = live]
  <2>1. client' = [client EXCEPT ![c] = r]
    BY <1>4 DEF PostReadJob
  <2>a. live \in BOOLEAN
    OBVIOUS
  <2> HIDE DEF live
  <2>2. r \in ClientState /\ r.job \in Jobs /\ r.payload \in Payloads
    BY EmptyRecordsTyped, <2>a DEF ClientState, ClientPc, IdleClient
  <2> HIDE DEF r
  <2> QED BY <2>1, <2>2
<1>5. CASE PostReadAttempt(c)
  <2>1. /\ client[c].pc = "posting"
        /\ client[c].job \in Jobs /\ client[c].no \in AttemptNos
    BY <1>5 DEF PostReadAttempt, ClientAt, ClientState
  <2>2. attempts[client[c].job][client[c].no] \in Attempt
    BY <2>1 DEF TablesTyped
  <2>3. CASE client' = [client EXCEPT ![c].pc = "quoting"]
    BY <2>1, <2>3 DEF ClientState, ClientPc
  <2>4. CASE client' = [client EXCEPT ![c].pc = "post_write",
                          ![c].found = attempts[client[c].job][client[c].no]]
    BY <2>1, <2>2, <2>4 DEF ClientState, ClientPc
  <2> QED BY <1>1, <1>5, <2>3, <2>4 DEF PostReadAttempt
<1>6. CASE PostWrite(c)
  <2>1. client[c].pc = "post_write"
    BY <1>6 DEF PostWrite, ClientAt
  <2>2. CASE client' = [client EXCEPT ![c].pc = "quoting"]
    BY <2>1, <2>2 DEF ClientState, ClientPc
  <2> QED BY <1>1, <1>6, <2>2 DEF PostWrite
<1>7. CASE PostConflict(c)
  BY <1>7 DEF PostConflict, ClientAt, ClientState, ClientPc
<1>8. CASE CancelWrite(c) \/ QuoteWrite(c) \/ ClientAbort(c)
  BY <1>8, <1>1 DEF CancelWrite, QuoteWrite, ClientAbort
<1> QED BY <1>2, <1>3, <1>4, <1>5, <1>6, <1>7, <1>8 DEF ClientStep

\* What PayloadAssumption says of one envelope.
LEMMA PayloadsTyped == \A p \in Payloads :
  /\ p \in Digest /\ p # NoDigest /\ p # LaunchDigest
  /\ p.status \in AttemptStatus /\ p.out \in Outputs \cup {"none"}
  /\ p.flagged \in BOOLEAN /\ p.quote \in BOOLEAN
BY PayloadAssumption DEF Digest, Payload

\* Writing a typed row keeps the attempts table typed.
LEMMA AttemptWriteTyped ==
  ASSUME TablesTyped, NEW j \in Jobs, NEW n \in AttemptNos, NEW a \in Attempt,
         WriteAttempt(j, n, a)
  PROVE  attempts' \in [Jobs -> [AttemptNos -> Attempt]]
BY DEF WriteAttempt, TablesTyped

\* Every step keeps the tables typed: one step per writing action.
LEMMA WorkersKeepTablesTyped ==
  ASSUME TablesTyped, WorkersTyped, NEW w \in Workers, WorkerStep(w)
  PROVE  TablesTyped'
<1> DEFINE j == worker[w].job
           n == Latest(j)
           no == worker[w].no
<1>1. CASE UNCHANGED db
  BY <1>1 DEF TablesTyped, db
<1>2. /\ worker[w] \in WorkerState
      /\ worker[w].pc # "idle" => /\ j \in Jobs
                                  /\ n \in AttemptNos
                                  /\ attempts[j][n] \in Attempt
                                  /\ attempts[j][no] \in Attempt
                                  /\ no \in AttemptNos
  BY LatestProperty DEF WorkersTyped, WorkerState, TablesTyped
<1>3. CASE MarkTimeout(w)
  <2>1. j \in Jobs /\ no \in AttemptNos /\ attempts[j][no] \in Attempt
    BY <1>2, <1>3 DEF MarkTimeout, WorkerAt
  <2>2. PICK a \in Attempt : WriteAttempt(j, no, a)
    <3> DEFINE a == attempts[j][no]
               s == IF ~Exists(worker[w].found) \/ IsOpen(worker[w].found)
                    THEN "timeout" ELSE a.status
    <3>1. PICK z \in SealZero(a.scored) :
             WriteAttempt(j, no, [a EXCEPT !.status = s, !.scored = z])
      BY <1>3 DEF MarkTimeout
    <3>2. [a EXCEPT !.status = s, !.scored = z] \in Attempt
      BY <2>1, <3>1 DEF Attempt, AttemptStatus, Terminal, SealZero
    <3> QED BY <3>1, <3>2
  <2>3. attempts' \in [Jobs -> [AttemptNos -> Attempt]]
    BY <2>1, <2>2, AttemptWriteTyped
  <2> QED BY <1>3, <2>1, <2>3 DEF MarkTimeout, TablesTyped, Status, Terminal
<1>4. CASE MarkFailed(w)
  <2>1. j \in Jobs /\ no \in AttemptNos /\ attempts[j][no] \in Attempt
    BY <1>2, <1>4 DEF MarkFailed, WorkerAt
  <2>2. attempts' \in [Jobs -> [AttemptNos -> Attempt]]
    BY <1>4, <2>1 DEF MarkFailed, TablesTyped, Attempt, AttemptStatus, Terminal
  <2> QED BY <1>4, <2>1, <2>2 DEF MarkFailed, TablesTyped, Status, Terminal
<1>5. CASE WorkerHold(w) \/ WorkerBind(w)
  BY <1>5, <1>2 DEF WorkerHold, WorkerBind, WorkerAt, LeaveAdmitted, TablesTyped,
                    Status, NonTerminal
<1>6. CASE ClaimProvisioning(w)
  BY <1>6, <1>2 DEF ClaimProvisioning, WonClaim, WorkerAt, TablesTyped, Status,
                    NonTerminal, Terminal
<1>7. CASE ClaimRunning(w)
  <2> DEFINE a == IF Exists(attempts[j][n]) THEN attempts[j][n] ELSE NewAttempt("running")
  <2>1. j \in Jobs /\ n \in AttemptNos /\ a \in Attempt
    BY <1>2, <1>7, EmptyRecordsTyped DEF ClaimRunning, WonClaim, WorkerAt
  <2>2. [a EXCEPT !.status = "failed"] \in Attempt
    BY <2>1 DEF Attempt, AttemptStatus, Terminal
  <2>3. \/ status' = [status EXCEPT ![j] = "running"] /\ WriteAttempt(j, n, a)
        \/ /\ status' = [status EXCEPT ![j] = "failed"]
           /\ WriteAttempt(j, n, [a EXCEPT !.status = "failed"])
    BY <1>7 DEF ClaimRunning
  <2>4. attempts' \in [Jobs -> [AttemptNos -> Attempt]]
    <3> HIDE DEF a, j, n
    <3> QED BY <2>1, <2>2, <2>3, AttemptWriteTyped
  <2>5. status' \in [Jobs -> Status]
    BY <2>3 DEF TablesTyped, Status, NonTerminal, Terminal
  <2> QED BY <1>7, <2>4, <2>5 DEF ClaimRunning, TablesTyped
<1>8. CASE ClaimCollecting(w)
  <2> DEFINE a == IF Exists(attempts[j][n]) THEN attempts[j][n] ELSE NewAttempt("running")
  <2>1. j \in Jobs /\ n \in AttemptNos /\ a \in Attempt
    BY <1>2, <1>8, EmptyRecordsTyped DEF ClaimCollecting, WonClaim, WorkerAt
  <2>2. \/ Collect(j, n, a)
        \/ /\ status' = [status EXCEPT ![j] = "timeout"]
           /\ \E z \in SealZero(a.scored) : WriteAttempt(j, n, [a EXCEPT
                  !.status = IF IsOpen(a) THEN "timeout" ELSE @, !.scored = z])
           /\ UNCHANGED launches
    BY <1>8 DEF ClaimCollecting
  <2> HIDE DEF a, n, j
  <2>3. PICK b \in Attempt : WriteAttempt(j, n, b)
    <3>1. [status |-> "succeeded", digest |-> LaunchDigest,
           out |-> "launch", scored |-> TRUE] \in Attempt
      BY DEF Attempt, AttemptStatus, Terminal, Digest
    <3>2. /\ [a EXCEPT !.scored = TRUE] \in Attempt
          /\ [a EXCEPT !.status = "failed", !.out = "fabric"] \in Attempt
          /\ \A z \in SealZero(a.scored) :
                /\ [a EXCEPT !.status = "timeout", !.out = "fabric", !.scored = z] \in Attempt
                /\ [a EXCEPT !.status = IF IsOpen(a) THEN "timeout" ELSE @, !.scored = z]
                      \in Attempt
      BY <2>1 DEF Attempt, AttemptStatus, Terminal, SealZero
    <3> QED BY <2>2, <3>1, <3>2 DEF Collect
  <2>4. attempts' \in [Jobs -> [AttemptNos -> Attempt]]
    BY <2>1, <2>3, AttemptWriteTyped
  <2>5. launches' \in [Jobs -> Nat]
    <3>1. UNCHANGED launches \/ launches' = [launches EXCEPT ![j] = @ + 1]
      BY <2>2 DEF Collect
    <3> QED BY <2>1, <3>1 DEF TablesTyped
  <2>6. status' \in [Jobs -> Status]
    BY <2>1, <2>2 DEF Collect, TablesTyped, Status, NonTerminal, Terminal
  <2> QED BY <1>8, <2>4, <2>5, <2>6 DEF ClaimCollecting, TablesTyped
<1>9. CASE ClaimScoring(w)
  BY <1>9, <1>2 DEF ClaimScoring, TablesTyped, Status, NonTerminal
<1>10. CASE ClaimSucceeded(w)
  <2>1. j \in Jobs /\ n \in AttemptNos /\ attempts[j][n] \in Attempt
    BY <1>2, <1>10 DEF ClaimSucceeded, WonClaim, WorkerAt
  <2>2. /\ status' = [status EXCEPT ![j] = "succeeded"]
        /\ attempts' = IF Exists(attempts[j][n])
              THEN [attempts EXCEPT ![j][n].status = "succeeded"] ELSE attempts
    BY <1>10 DEF ClaimSucceeded
  <2> HIDE DEF n, j
  <2>3. attempts' \in [Jobs -> [AttemptNos -> Attempt]]
    BY <2>1, <2>2 DEF TablesTyped, Attempt, AttemptStatus, Terminal
  <2> QED BY <1>10, <2>1, <2>2, <2>3 DEF ClaimSucceeded, TablesTyped, Status, Terminal
<1>11. CASE WorkerReadAttempt(w) \/ WorkerReread(w) \/ WorkerGate(w) \/ LostClaim(w)
            \/ WorkerAbort(w) \/ \E k \in Jobs : WorkerRefresh(w, k)
  BY <1>11, <1>1 DEF WorkerReadAttempt, WorkerReread, WorkerGate, LostClaim, WorkerAbort,
                     WorkerRefresh
<1> QED
  BY <1>3, <1>4, <1>5, <1>6, <1>7, <1>8, <1>9, <1>10, <1>11 DEF WorkerStep

\* Requests keep the tables typed: they write statuses, attempts and scores.
LEMMA ClientsKeepTablesTyped ==
  ASSUME TablesTyped, ClientsTyped, NEW c \in Clients, ClientStep(c)
  PROVE  TablesTyped'
<1> DEFINE j == client[c].job
           n == client[c].no
           a == attempts[j][n]
<1>1. CASE UNCHANGED db
  BY <1>1 DEF TablesTyped, db
<1>2. /\ client[c] \in ClientState
      /\ client[c].pc # "idle" => j \in Jobs /\ n \in AttemptNos /\ a \in Attempt
  BY DEF ClientsTyped, ClientState, TablesTyped
<1>3. CASE CancelWrite(c)
  <2>1. j \in Jobs /\ n \in AttemptNos /\ a \in Attempt
    BY <1>2, <1>3 DEF CancelWrite, ClientAt
  <2>2. attempts' \in [Jobs -> [AttemptNos -> Attempt]]
    BY <1>3, <2>1 DEF CancelWrite, TablesTyped, Attempt, AttemptStatus, Terminal
  <2> QED BY <1>3, <2>1, <2>2 DEF CancelWrite, TablesTyped, Status, Terminal
<1>4. CASE PostWrite(c)
  <2> DEFINE p == client[c].payload
             read == client[c].found
             row(z) == [status |-> Dirty(a.status, read.status, p.status), digest |-> p,
                        out |-> Dirty(a.out, read.out, p.out), scored |-> z]
  <2>1. j \in Jobs /\ n \in AttemptNos /\ a \in Attempt /\ p \in Payloads
    BY <1>2, <1>4 DEF PostWrite, ClientAt, ClientsTyped
  <2>2. PICK z \in {a.scored, TRUE} : WriteAttempt(j, n, row(z))
    BY <1>4 DEF PostWrite, SealZero
  <2> DEFINE b == row(z)
  <2>3. b \in Attempt
    <3>1. /\ Dirty(a.status, read.status, p.status) \in AttemptStatus \cup {"absent"}
          /\ Dirty(a.out, read.out, p.out) \in Outputs \cup {"none", "launch", "fabric"}
      BY <2>1, PayloadsTyped DEF Dirty, Attempt
    <3> QED BY <2>1, <2>2, <3>1, PayloadsTyped DEF Attempt
  <2>4. attempts' \in [Jobs -> [AttemptNos -> Attempt]]
    <3> HIDE DEF row, b, j, n
    <3> QED BY <2>1, <2>2, <2>3, AttemptWriteTyped DEF b
  <2>5. status' \in [Jobs -> Status]
    BY <1>4, <2>1 DEF PostWrite, TablesTyped, Status
  <2> QED BY <1>4, <2>4, <2>5 DEF PostWrite, TablesTyped
<1>5. CASE QuoteWrite(c)
  <2>1. j \in Jobs /\ n \in AttemptNos /\ a \in Attempt
    BY <1>2, <1>5 DEF QuoteWrite, ClientAt
  <2>2. attempts' \in [Jobs -> [AttemptNos -> Attempt]]
    BY <1>5, <2>1 DEF QuoteWrite, TablesTyped, Attempt
  <2> QED BY <1>5, <2>2 DEF QuoteWrite, TablesTyped
<1>6. CASE \/ CancelReadAttempt(c) \/ PostReadAttempt(c) \/ PostConflict(c)
           \/ ClientAbort(c) \/ \E k \in Jobs : CancelReadJob(c, k)
           \/ \E k \in Jobs, m \in AttemptNos, p \in Payloads : PostReadJob(c, k, m, p)
  BY <1>6, <1>1 DEF CancelReadAttempt, PostReadAttempt, PostConflict, ClientAbort,
                    CancelReadJob, PostReadJob
<1> QED BY <1>3, <1>4, <1>5, <1>6 DEF ClientStep

\* A drain loop touches no request, and no request a drain loop: they meet only
\* in the database.
LEMMA WorkersLeaveClients ==
  ASSUME NEW w \in Workers, WorkerStep(w)
  PROVE  client' = client
BY DEF WorkerStep, WorkerRefresh, WorkerReadAttempt, MarkTimeout, MarkFailed, WorkerHold,
  WorkerBind, WorkerReread, WorkerGate, LostClaim, ClaimProvisioning, ClaimRunning,
  ClaimCollecting, ClaimScoring, ClaimSucceeded, WorkerAbort, WonClaim

\* The other half.
LEMMA ClientsLeaveWorkers ==
  ASSUME NEW c \in Clients, ClientStep(c)
  PROVE  worker' = worker
BY DEF ClientStep, CancelReadJob, CancelReadAttempt, CancelWrite, PostReadJob,
  PostReadAttempt, PostWrite, PostConflict, QuoteWrite, ClientAbort
-----------------------------------------------------------------------------
\* What a write may do to an attempt row, and what every row must satisfy.
RowKept(a, b) ==
    /\ Exists(a) => Exists(b)
    /\ IsSealed(a) => IsSealed(b)
    /\ a.scored => b.scored
    /\ HasResult(a) => HasResult(b)
RowOK(n, a) ==
    /\ IsSealed(a) \/ a.scored => Exists(a)
    /\ n # 1 /\ Exists(a) => a.digest \in Payloads

\* A write of row b over row number n of job j that respects both.
RowWrite(j, n, b) ==
    /\ WriteAttempt(j, n, b)
    /\ RowKept(attempts[j][n], b)
    /\ RowOK(n, b)
RowsStep == \/ UNCHANGED attempts
            \/ \E j \in Jobs, n \in AttemptNos, b \in Attempt : RowWrite(j, n, b)

RowsOK == RowsReal /\ OnlyPostsAddAttempts

\* RowsOK, row by row.
LEMMA RowsOKPerRow == RowsOK <=> \A j \in Jobs, n \in AttemptNos : RowOK(n, attempts[j][n])
BY DEF RowsOK, RowsReal, OnlyPostsAddAttempts, RowOK

\* A row whose digest is kept and whose score is not taken away.
LEMMA UpdatedRow ==
  ASSUME NEW n \in AttemptNos, NEW a \in Attempt, NEW b \in Attempt,
         RowOK(n, a), Exists(a) \/ n = 1, Exists(b), b.digest = a.digest, a.scored => b.scored
  PROVE  RowKept(a, b) /\ RowOK(n, b)
BY DEF RowKept, RowOK, HasResult, IsSealed

\* A row sealed by the drain itself can only be the first.
LEMMA LaunchedRow ==
  ASSUME NEW a \in Attempt, NEW b \in Attempt, Exists(b), b.digest = LaunchDigest, b.scored
  PROVE  RowKept(a, b) /\ RowOK(1, b)
BY PayloadAssumption DEF RowKept, RowOK, HasResult, IsSealed

\* A row sealed by a post keeps the score it has.
LEMMA PostedRow ==
  ASSUME NEW n \in AttemptNos, NEW a \in Attempt, NEW b \in Attempt, Exists(b),
         b.digest \in Payloads, a.scored => b.scored
  PROVE  RowKept(a, b) /\ RowOK(n, b)
BY PayloadAssumption DEF RowKept, RowOK, HasResult, IsSealed, Attempt

\* A drain-loop step writes one row in order, or none.
LEMMA WorkersWriteRows ==
  ASSUME TablesTyped, WorkersTyped, RowsOK, WorkersReal, NEW w \in Workers, WorkerStep(w)
  PROVE  RowsStep
<1> DEFINE j == worker[w].job
           n == Latest(j)
           no == worker[w].no
           read == worker[w].found
<1>1. ASSUME worker[w].pc # "idle"
      PROVE  /\ j \in Jobs /\ n \in AttemptNos /\ no \in AttemptNos
             /\ attempts[j][n] \in Attempt /\ RowOK(n, attempts[j][n])
             /\ attempts[j][no] \in Attempt /\ RowOK(no, attempts[j][no])
             /\ Exists(attempts[j][n]) \/ n = 1
  BY <1>1, LatestProperty, RowsOKPerRow DEF WorkersTyped, WorkerState, TablesTyped
<1>2. CASE UNCHANGED attempts
  BY <1>2 DEF RowsStep
<1>3. CASE MarkTimeout(w)
  <2> DEFINE a == attempts[j][no]
             row(z) == [a EXCEPT
                !.status = IF ~Exists(read) \/ IsOpen(read) THEN "timeout" ELSE @, !.scored = z]
  <2>0. PICK z \in SealZero(a.scored) : WriteAttempt(j, no, row(z))
    BY <1>3 DEF MarkTimeout
  <2> DEFINE b == row(z)
  <2>1. WriteAttempt(j, no, b) /\ (Exists(a) <=> Exists(read))
    BY <1>3, <2>0 DEF MarkTimeout
  <2>2. j \in Jobs /\ no \in AttemptNos /\ a \in Attempt /\ RowOK(no, a)
        /\ (Exists(a) \/ no = 1)
    BY <1>1, <1>3, <2>1 DEF MarkTimeout, WorkerAt, WorkersReal
  <2>3. b \in Attempt /\ Exists(b) /\ b.digest = a.digest /\ (a.scored => b.scored)
    BY <2>0, <2>1, <2>2 DEF Attempt, AttemptStatus, Terminal, Exists, SealZero
  <2> HIDE DEF a, b, j, no
  <2>4. RowKept(a, b) /\ RowOK(no, b)
    BY <2>2, <2>3, UpdatedRow
  <2> QED BY <2>1, <2>2, <2>3, <2>4 DEF RowsStep, RowWrite, a
<1>4. CASE MarkFailed(w)
  <2> DEFINE a == attempts[j][no]
             b == [a EXCEPT !.status = "failed"]
  <2>1. UNCHANGED attempts \/ (IsOpen(read) /\ WriteAttempt(j, no, b))
    BY <1>4 DEF MarkFailed, WriteAttempt
  <2>2. CASE IsOpen(read) /\ WriteAttempt(j, no, b)
    <3>1. j \in Jobs /\ no \in AttemptNos /\ a \in Attempt /\ RowOK(no, a) /\ Exists(a)
      BY <1>1, <1>4, <2>2 DEF MarkFailed, WorkerAt, WorkersReal, IsOpen, Exists
    <3>2. b \in Attempt /\ Exists(b) /\ b.digest = a.digest /\ b.scored = a.scored
      BY <3>1 DEF Attempt, AttemptStatus, Terminal, Exists
    <3> HIDE DEF a, b, j, no
    <3>3. RowKept(a, b) /\ RowOK(no, b)
      BY <3>1, <3>2, UpdatedRow
    <3> QED BY <2>2, <3>1, <3>2, <3>3 DEF RowsStep, RowWrite, a
  <2> QED BY <1>2, <2>1, <2>2
<1>5. CASE ClaimRunning(w)
  <2> DEFINE s == attempts[j][n]
             a == IF Exists(s) THEN s ELSE NewAttempt("running")
             f == [a EXCEPT !.status = "failed"]
  <2>1. /\ j \in Jobs /\ n \in AttemptNos /\ s \in Attempt /\ RowOK(n, s)
        /\ Exists(s) \/ n = 1
    BY <1>1, <1>5 DEF ClaimRunning, WonClaim, WorkerAt
  <2>2. WriteAttempt(j, n, a) \/ WriteAttempt(j, n, f)
    BY <1>5 DEF ClaimRunning
  <2>3. a \in Attempt /\ Exists(a) /\ a.digest = s.digest /\ (s.scored => a.scored)
    BY <2>1, EmptyRecordsTyped DEF NewAttempt, NoAttempt, Exists, RowOK, IsSealed
  <2>4. f \in Attempt /\ Exists(f) /\ f.digest = s.digest /\ (s.scored => f.scored)
    BY <2>3 DEF Attempt, AttemptStatus, Terminal, Exists
  <2> HIDE DEF a, f, j, n
  <2>5. RowKept(s, a) /\ RowOK(n, a) /\ RowKept(s, f) /\ RowOK(n, f)
    BY <2>1, <2>3, <2>4, UpdatedRow
  <2> QED BY <2>1, <2>2, <2>3, <2>4, <2>5 DEF RowsStep, RowWrite
<1>6. CASE ClaimCollecting(w)
  <2> DEFINE s == attempts[j][n]
             a == IF Exists(s) THEN s ELSE NewAttempt("running")
             launched == [status |-> "succeeded", digest |-> LaunchDigest,
                          out |-> "launch", scored |-> TRUE]
             scored == [a EXCEPT !.scored = TRUE]
             failed == [a EXCEPT !.status = "failed", !.out = "fabric"]
             lateRow(z) == [a EXCEPT !.status = "timeout", !.out = "fabric", !.scored = z]
             sleptRow(z) == [a EXCEPT !.status = IF IsOpen(a) THEN "timeout" ELSE @, !.scored = z]
  <2>1. /\ j \in Jobs /\ n \in AttemptNos /\ s \in Attempt /\ RowOK(n, s)
        /\ Exists(s) \/ n = 1
    BY <1>1, <1>6 DEF ClaimCollecting, WonClaim, WorkerAt
  <2>2. PICK z \in {a.scored, TRUE} :
           \/ WriteAttempt(j, n, scored) \/ WriteAttempt(j, n, failed)
           \/ WriteAttempt(j, n, lateRow(z)) \/ WriteAttempt(j, n, sleptRow(z))
           \/ ~IsSealed(a) /\ WriteAttempt(j, n, launched)
    BY <1>6 DEF ClaimCollecting, Collect, SealZero
  <2> DEFINE late == lateRow(z)
             slept == sleptRow(z)
  <2>3. a \in Attempt /\ Exists(a) /\ a.digest = s.digest /\ (s.scored => a.scored)
    BY <2>1, EmptyRecordsTyped DEF NewAttempt, NoAttempt, Exists, RowOK, IsSealed
  <2>4. \A b \in {scored, failed, late, slept} :
           b \in Attempt /\ Exists(b) /\ b.digest = s.digest /\ (s.scored => b.scored)
    <3>1. z \in BOOLEAN /\ (a.scored => z)
      BY <2>2, <2>3 DEF Attempt
    <3> HIDE DEF a, s
    <3> QED BY <2>3, <3>1 DEF Attempt, AttemptStatus, Terminal, Exists
  <2>5. launched \in Attempt /\ Exists(launched) /\ launched.digest = LaunchDigest
        /\ launched.scored
    BY DEF Attempt, AttemptStatus, Terminal, Digest, Exists
  <2>6. ~IsSealed(a) => n = 1
    BY <2>1, <2>3, PayloadAssumption DEF RowOK, IsSealed
  <2> HIDE DEF a, s, launched, scored, failed, lateRow, sleptRow, late, slept, j, n
  <2>7. \A b \in {scored, failed, late, slept} : RowKept(s, b) /\ RowOK(n, b)
    BY <2>1, <2>4, UpdatedRow
  <2>8. ~IsSealed(a) => RowKept(s, launched) /\ RowOK(n, launched)
    BY <2>1, <2>5, <2>6, LaunchedRow
  <2>9. \E b \in Attempt : RowWrite(j, n, b)
    BY <2>2, <2>4, <2>5, <2>7, <2>8 DEF RowWrite, s, late, slept
  <2> QED BY <2>1, <2>9 DEF RowsStep
<1>7. CASE ClaimSucceeded(w)
  <2> DEFINE a == attempts[j][n]
             b == [a EXCEPT !.status = "succeeded"]
  <2>1. UNCHANGED attempts \/ (Exists(a) /\ WriteAttempt(j, n, b))
    BY <1>7 DEF ClaimSucceeded, WriteAttempt
  <2>2. CASE Exists(a) /\ WriteAttempt(j, n, b)
    <3>1. j \in Jobs /\ n \in AttemptNos /\ a \in Attempt /\ RowOK(n, a) /\ Exists(a)
      BY <1>1, <1>7, <2>2 DEF ClaimSucceeded, WonClaim, WorkerAt
    <3>2. b \in Attempt /\ Exists(b) /\ b.digest = a.digest /\ b.scored = a.scored
      BY <3>1 DEF Attempt, AttemptStatus, Terminal, Exists
    <3> HIDE DEF a, b, j, n
    <3>3. RowKept(a, b) /\ RowOK(n, b)
      BY <3>1, <3>2, UpdatedRow
    <3> QED BY <2>2, <3>1, <3>2, <3>3 DEF RowsStep, RowWrite, a
  <2> QED BY <1>2, <2>1, <2>2
<1>8. CASE \/ \E k \in Jobs : WorkerRefresh(w, k)
           \/ WorkerReadAttempt(w) \/ WorkerHold(w) \/ WorkerBind(w) \/ WorkerReread(w)
           \/ WorkerGate(w) \/ LostClaim(w) \/ ClaimProvisioning(w) \/ ClaimScoring(w)
           \/ WorkerAbort(w)
  BY <1>2, <1>8 DEF WorkerRefresh, WorkerReadAttempt, WorkerHold, WorkerBind,
     WorkerReread,
       WorkerGate, LostClaim, ClaimProvisioning, ClaimScoring, WorkerAbort, db
<1> QED BY <1>3, <1>4, <1>5, <1>6, <1>7, <1>8 DEF WorkerStep

\* So does a step of a request.
LEMMA ClientsWriteRows ==
  ASSUME TablesTyped, ClientsTyped, RowsOK, ClientsReal, NEW c \in Clients, ClientStep(c)
  PROVE  RowsStep
<1> DEFINE j == client[c].job
           n == client[c].no
           a == attempts[j][n]
           read == client[c].found
           p == client[c].payload
<1>1. ASSUME client[c].pc # "idle"
      PROVE  /\ j \in Jobs /\ n \in AttemptNos
             /\ a \in Attempt /\ RowOK(n, a)
  BY <1>1, RowsOKPerRow DEF ClientsTyped, ClientState, TablesTyped
<1>2. CASE UNCHANGED attempts
  BY <1>2 DEF RowsStep
<1>3. CASE CancelWrite(c)
  <2> DEFINE b == [a EXCEPT !.status = "cancelled"]
  <2>1. UNCHANGED attempts \/ (IsOpen(read) /\ WriteAttempt(j, n, b))
    BY <1>3 DEF CancelWrite, WriteAttempt
  <2>2. CASE IsOpen(read) /\ WriteAttempt(j, n, b)
    <3>1. j \in Jobs /\ n \in AttemptNos /\ a \in Attempt /\ RowOK(n, a) /\ Exists(a)
      BY <1>1, <1>3, <2>2 DEF CancelWrite, ClientAt, ClientsReal, IsOpen, Exists
    <3>2. b \in Attempt /\ Exists(b) /\ b.digest = a.digest /\ b.scored = a.scored
      BY <3>1 DEF Attempt, AttemptStatus, Terminal, Exists
    <3> HIDE DEF a, b, j, n
    <3>3. RowKept(a, b) /\ RowOK(n, b)
      BY <3>1, <3>2, UpdatedRow
    <3> QED BY <2>2, <3>1, <3>2, <3>3 DEF RowsStep, RowWrite, a
  <2> QED BY <1>2, <2>1, <2>2
<1>4. CASE PostWrite(c)
  <2> DEFINE row(z) == [status |-> Dirty(a.status, read.status, p.status), digest |-> p,
                        out |-> Dirty(a.out, read.out, p.out), scored |-> z]
  <2>0. PICK z \in {a.scored, TRUE} : WriteAttempt(j, n, row(z))
    BY <1>4 DEF PostWrite, SealZero
  <2> DEFINE b == row(z)
  <2>1. WriteAttempt(j, n, b) /\ (Exists(read) <=> Exists(a))
    BY <1>4, <2>0 DEF PostWrite
  <2>2. j \in Jobs /\ n \in AttemptNos /\ a \in Attempt /\ p \in Payloads
    BY <1>1, <1>4 DEF PostWrite, ClientAt, ClientsTyped
  <2>3. /\ Dirty(a.status, read.status, p.status) \in AttemptStatus
        /\ Dirty(a.out, read.out, p.out) \in Outputs \cup {"none", "launch", "fabric"}
    BY <2>1, <2>2, PayloadsTyped DEF Dirty, Attempt, Exists, AttemptStatus, Terminal
  <2>4. b \in Attempt /\ Exists(b)
    BY <2>0, <2>2, <2>3, PayloadsTyped DEF Attempt, Exists, AttemptStatus, Terminal
  <2>5. b.digest = p /\ (a.scored => b.scored)
    BY <2>0
  <2> HIDE DEF a, b, j, n
  <2>6. RowKept(a, b) /\ RowOK(n, b)
    BY <2>2, <2>4, <2>5, PostedRow
  <2> QED BY <2>1, <2>2, <2>4, <2>6 DEF RowsStep, RowWrite, a
<1>5. CASE QuoteWrite(c)
  <2> DEFINE b == [a EXCEPT !.scored = TRUE]
  <2>1. WriteAttempt(j, n, b)
    BY <1>5 DEF QuoteWrite, WriteAttempt
  <2>2. j \in Jobs /\ n \in AttemptNos /\ a \in Attempt /\ RowOK(n, a) /\ Exists(a)
    BY <1>1, <1>5 DEF QuoteWrite, ClientAt, ClientsReal
  <2>3. b \in Attempt /\ Exists(b) /\ b.digest = a.digest /\ b.scored
    BY <2>2 DEF Attempt, Exists
  <2> HIDE DEF a, b, j, n
  <2>4. RowKept(a, b) /\ RowOK(n, b)
    BY <2>2, <2>3, UpdatedRow
  <2> QED BY <2>1, <2>2, <2>3, <2>4 DEF RowsStep, RowWrite, a
<1>6. CASE \/ CancelReadAttempt(c) \/ PostReadAttempt(c) \/ PostConflict(c)
           \/ ClientAbort(c) \/ \E k \in Jobs : CancelReadJob(c, k)
           \/ \E k \in Jobs, m \in AttemptNos, q \in Payloads : PostReadJob(c, k, m, q)
  BY <1>2, <1>6 DEF CancelReadAttempt, PostReadAttempt, PostConflict, ClientAbort,
                    CancelReadJob, PostReadJob, db
<1> QED BY <1>3, <1>4, <1>5, <1>6 DEF ClientStep

\* After such a step every row is still there and still in order.
LEMMA RowsAfterStep ==
  ASSUME TablesTyped, RowsOK, RowsStep
  PROVE  /\ RowsOK'
         /\ \A j \in Jobs, n \in AttemptNos : RowKept(attempts[j][n], attempts'[j][n])
<1>1. \A j \in Jobs, n \in AttemptNos :
         RowOK(n, attempts'[j][n]) /\ RowKept(attempts[j][n], attempts'[j][n])
  <2>1. CASE UNCHANGED attempts
    BY <2>1, RowsOKPerRow DEF RowKept
  <2>2. ASSUME NEW j \in Jobs, NEW n \in AttemptNos, NEW b \in Attempt, RowWrite(j, n, b),
               NEW k \in Jobs, NEW m \in AttemptNos
        PROVE  RowOK(m, attempts'[k][m]) /\ RowKept(attempts[k][m], attempts'[k][m])
    <3>1. attempts'[k][m] = IF k = j /\ m = n THEN b ELSE attempts[k][m]
      BY <2>2 DEF RowWrite, WriteAttempt, TablesTyped
    <3>2. RowOK(m, attempts[k][m]) /\ RowKept(attempts[k][m], attempts[k][m])
      BY RowsOKPerRow DEF RowKept
    <3> QED BY <2>2, <3>1, <3>2 DEF RowWrite
  <2> QED BY <2>1, <2>2 DEF RowsStep
<1>2. RowsOK'
  BY <1>1 DEF RowOK, RowsOK, RowsReal, OnlyPostsAddAttempts
<1> QED BY <1>1, <1>2
-----------------------------------------------------------------------------
\* The steps of JobPromise: what each action does to status, placements, launches.
Unplaced == \A j \in Jobs : status[j] = "placing" => placements[j] = 0

\* Every drain-loop step is a step of the promise, or none.
LEMMA WorkersKeepPromise ==
  ASSUME TablesTyped, WorkersTyped, WorkersReal, Unplaced,
         NEW w \in Workers, WorkerStep(w)
  PROVE  \/ UNCHANGED <<status, placements, launches>>
         \/ \E j \in Jobs : Promise!Advance(j) \/ Promise!Finish(j)
<1> DEFINE j == worker[w].job
<1>1. worker[w].pc # "idle" => j \in Jobs /\ status[j] # "absent"
  BY DEF WorkersTyped, WorkersReal
<1>2. CASE MarkTimeout(w) \/ MarkFailed(w)
  <2>1. j \in Jobs /\ status[j] # "absent"
    BY <1>1, <1>2 DEF MarkTimeout, MarkFailed, WorkerAt
  <2>2. Promise!Finish(j)
    BY <1>2, <2>1 DEF MarkTimeout, MarkFailed, Promise!Finish, Promise!Terminal, Terminal
  <2> QED BY <2>1, <2>2
<1>3. CASE WorkerHold(w) \/ WorkerBind(w)
  <2>1. j \in Jobs
    BY <1>1, <1>3 DEF WorkerHold, WorkerBind, WorkerAt
  <2>2. LeaveAdmitted(j) /\ UNCHANGED <<placements, launches>>
    BY <1>3 DEF WorkerHold, WorkerBind
  <2>3. UNCHANGED <<status, placements, launches>> \/ Promise!Advance(j)
    <3> HIDE DEF j
    <3>1. CASE status[j] = "admitted"
      BY <2>2, <3>1 DEF LeaveAdmitted, Promise!Advance, Promise!Forward
    <3>2. CASE status[j] # "admitted"
      BY <2>2, <3>2 DEF LeaveAdmitted
    <3> QED BY <3>1, <3>2
  <2> QED BY <2>1, <2>3
<1>4. ASSUME NEW from \in DOMAIN Forward, WonClaim(w, from)
      PROVE  j \in Jobs /\ status[j] = from /\ status[j] # "absent"
  BY <1>1, <1>4 DEF WonClaim, WorkerAt
<1>5. CASE ClaimProvisioning(w)
  <2>1. j \in Jobs /\ status[j] = "placing" /\ placements[j] = 0
    BY <1>4, <1>5 DEF ClaimProvisioning, Unplaced, Forward
  <2>2. Promise!Advance(j) \/ Promise!Finish(j)
    BY <1>5, <2>1 DEF ClaimProvisioning, Promise!Advance, Promise!Finish, Promise!Forward,
       Promise!Terminal, Forward, Terminal,
                      TablesTyped
  <2> QED BY <2>1, <2>2
<1>6. CASE ClaimRunning(w)
  <2>1. j \in Jobs /\ status[j] = "provisioning"
    BY <1>4, <1>6 DEF ClaimRunning, Forward
  <2>2. /\ status' = [status EXCEPT ![j] = "running"]
           \/ status' = [status EXCEPT ![j] = "failed"]
        /\ UNCHANGED <<placements, launches>>
    BY <1>6 DEF ClaimRunning
  <2>3. Promise!Advance(j) \/ Promise!Finish(j)
    BY <2>1, <2>2 DEF Promise!Advance, Promise!Finish, Promise!Forward, Promise!Terminal,
       Forward, Terminal
  <2> QED BY <2>1, <2>3
<1>7. CASE ClaimCollecting(w)
  <2>1. j \in Jobs /\ status[j] = "running"
    BY <1>4, <1>7 DEF ClaimCollecting, Forward
  <2>2. /\ placements' = placements
        /\ \/ /\ launches' = [launches EXCEPT ![j] = @ + 1]
              /\ \E s \in {"collecting", "failed", "timeout"} :
                    status' = [status EXCEPT ![j] = s]
           \/ status' = [status EXCEPT ![j] = "timeout"] /\ launches' = launches
    BY <1>7 DEF ClaimCollecting, Collect
  <2>3. Promise!Advance(j) \/ Promise!Finish(j)
    BY <2>1, <2>2 DEF Promise!Advance, Promise!Finish, Promise!Forward, Promise!Terminal,
       Forward, Terminal
  <2> QED BY <2>1, <2>3
<1>8. CASE ClaimScoring(w) \/ ClaimSucceeded(w)
  <2>1. /\ j \in Jobs
        /\ \/ status[j] = "collecting" /\ status' = [status EXCEPT ![j] = "scoring"]
           \/ status[j] = "scoring" /\ status' = [status EXCEPT ![j] = "succeeded"]
        /\ UNCHANGED <<placements, launches>>
    BY <1>4, <1>8 DEF ClaimScoring, ClaimSucceeded, Forward
  <2>2. Promise!Advance(j)
    BY <2>1 DEF Promise!Advance, Promise!Forward, Forward
  <2> QED BY <2>1, <2>2
<1>9. CASE \/ \E k \in Jobs : WorkerRefresh(w, k)
           \/ WorkerReadAttempt(w) \/ WorkerReread(w) \/ WorkerGate(w) \/ LostClaim(w)
           \/ WorkerAbort(w)
  BY <1>9 DEF WorkerRefresh, WorkerReadAttempt, WorkerReread, WorkerGate, LostClaim,
              WorkerAbort, db
<1> QED BY <1>2, <1>3, <1>5, <1>6, <1>7, <1>8, <1>9 DEF WorkerStep

\* So is every step of a request: it finishes a job or leaves its status alone.
LEMMA ClientsKeepPromise ==
  ASSUME TablesTyped, ClientsTyped, ClientsReal, NEW c \in Clients, ClientStep(c)
  PROVE  \/ UNCHANGED <<status, placements, launches>>
         \/ \E j \in Jobs : Promise!Finish(j)
<1> DEFINE j == client[c].job
<1>1. CASE CancelWrite(c) \/ PostWrite(c)
  <2>1. j \in Jobs /\ status[j] # "absent"
    BY <1>1 DEF CancelWrite, PostWrite, ClientAt, ClientsTyped, ClientsReal
  <2>2. /\ UNCHANGED <<placements, launches>>
        /\ status' = status \/ \E t \in Terminal : status' = [status EXCEPT ![j] = t]
    BY <1>1 DEF CancelWrite, PostWrite, Terminal
  <2> QED BY <2>1, <2>2 DEF Promise!Finish, Promise!Terminal, Terminal
<1>2. CASE \/ CancelReadAttempt(c) \/ PostReadAttempt(c) \/ PostConflict(c)
           \/ QuoteWrite(c) \/ ClientAbort(c) \/ \E k \in Jobs : CancelReadJob(c, k)
           \/ \E k \in Jobs, m \in AttemptNos, q \in Payloads : PostReadJob(c, k, m, q)
  BY <1>2 DEF CancelReadAttempt, PostReadAttempt, PostConflict, QuoteWrite, ClientAbort,
              CancelReadJob, PostReadJob, db
<1> QED BY <1>1, <1>2 DEF ClientStep
-----------------------------------------------------------------------------
\* A job's row is never deleted, so what a process holds stays there.
LEMMA RowsStayForWorkers ==
  ASSUME TablesTyped, WorkersTyped, WorkersReal,
         \A j \in Jobs : status[j] # "absent" => status'[j] # "absent",
         \A j \in Jobs, n \in AttemptNos : Exists(attempts[j][n]) => Exists(attempts'[j][n]),
         UNCHANGED worker
  PROVE  WorkersReal'
BY DEF WorkersReal, WorkersTyped, WorkerState

\* The same for requests.
LEMMA RowsStayForClients ==
  ASSUME TablesTyped, ClientsTyped, ClientsReal,
         \A j \in Jobs : status[j] # "absent" => status'[j] # "absent",
         \A j \in Jobs, n \in AttemptNos : Exists(attempts[j][n]) => Exists(attempts'[j][n]),
         UNCHANGED client
  PROVE  ClientsReal'
BY DEF ClientsReal, ClientsTyped, ClientState

\* The step of one drain loop keeps what every loop holds real.
LEMMA WorkersStayReal ==
  ASSUME TablesTyped, WorkersTyped, WorkersReal, NEW w \in Workers, WorkerStep(w),
         \A j \in Jobs : status[j] # "absent" => status'[j] # "absent",
         \A j \in Jobs, n \in AttemptNos : Exists(attempts[j][n]) => Exists(attempts'[j][n])
  PROVE  WorkersReal'
<1>1. ASSUME NEW v \in Workers \ {w}
      PROVE  /\ worker'[v] = worker[v]
             /\ worker[v].pc # "idle" => worker[v].job \in Jobs
             /\ worker[v].no \in AttemptNos
  BY DEF WorkerStep, WorkerRefresh, WorkerReadAttempt, MarkTimeout, MarkFailed,
     WorkerHold,
    WorkerBind, WorkerReread, WorkerGate, LostClaim, ClaimProvisioning, ClaimRunning,
    ClaimCollecting, ClaimScoring, ClaimSucceeded, WorkerAbort, WonClaim, Release, Goto,
    WorkersTyped, WorkerState
<1>2. LET r == worker'[w]
      IN  /\ r.pc # "idle" => status'[r.job] # "absent"
          /\ r.pc \in {"timeout_write", "fail_write"} =>
                IF Exists(r.found) THEN Exists(attempts'[r.job][r.no]) ELSE r.no = 1
  <2>1. CASE Release(w)
    BY <2>1, EmptyRecordsTyped DEF Release, WorkersTyped
  <2>2. ASSUME NEW j \in Jobs, WorkerRefresh(w, j)
        PROVE  /\ worker'[w].pc \notin {"timeout_write", "fail_write"}
               /\ worker'[w].job = j /\ status'[j] # "absent"
    BY <2>2 DEF WorkerRefresh, Picked, Idle, WorkersTyped, NonTerminal
  <2>3. CASE WorkerReadAttempt(w)
    <3> DEFINE j == worker[w].job
               n == Latest(j)
    <3>1. /\ worker'[w].job = j /\ worker'[w].no = n /\ worker'[w].found = attempts[j][n]
          /\ attempts' = attempts /\ status' = status /\ worker[w].pc # "idle"
      BY <2>3 DEF WorkerReadAttempt, WorkersTyped, WorkerState, db
    <3>2. j \in Jobs /\ status[j] # "absent" /\ (Exists(attempts[j][n]) \/ n = 1)
      BY <3>1, LatestProperty DEF WorkersTyped, WorkersReal
    <3> QED BY <3>1, <3>2
  <2>4. CASE WorkerBind(w) \/ WorkerReread(w) \/ WorkerGate(w)
    <3>1. \/ Release(w)
          \/ /\ worker'[w].pc \in {"rereading", "gated", "claiming"}
             /\ worker'[w].job = worker[w].job /\ worker[w].pc # "idle"
      BY <2>4 DEF WorkerBind, WorkerReread, WorkerGate, WorkerAt, Goto, WorkersTyped,
         WorkerState
    <3> QED BY <2>1, <3>1 DEF WorkersTyped, WorkersReal
  <2>5. CASE \/ MarkTimeout(w) \/ MarkFailed(w) \/ WorkerHold(w) \/ LostClaim(w)
             \/ ClaimProvisioning(w) \/ ClaimRunning(w) \/ ClaimCollecting(w)
             \/ ClaimScoring(w) \/ ClaimSucceeded(w) \/ WorkerAbort(w)
    BY <2>1, <2>5 DEF MarkTimeout, MarkFailed, WorkerHold, LostClaim, ClaimProvisioning,
         ClaimRunning, ClaimCollecting, ClaimScoring, ClaimSucceeded, WorkerAbort, WonClaim
  <2> QED BY <2>2, <2>3, <2>4, <2>5 DEF WorkerStep
<1> QED BY <1>1, <1>2 DEF WorkersReal

\* The step of one request keeps what every request holds real.
LEMMA ClientsStayReal ==
  ASSUME TablesTyped, ClientsTyped, ClientsReal, RowsOK', NEW c \in Clients, ClientStep(c),
         \A j \in Jobs : status[j] # "absent" => status'[j] # "absent",
         \A j \in Jobs, n \in AttemptNos : Exists(attempts[j][n]) => Exists(attempts'[j][n])
  PROVE  ClientsReal'
<1>1. ASSUME NEW d \in Clients \ {c}
      PROVE  /\ client'[d] = client[d]
             /\ client[d].pc # "idle" => client[d].job \in Jobs
             /\ client[d].no \in AttemptNos
  BY DEF ClientStep, CancelReadJob, CancelReadAttempt, CancelWrite, PostReadJob,
    PostReadAttempt, PostWrite, PostConflict, QuoteWrite, ClientAbort, Respond,
    ClientsTyped, ClientState
<1>2. LET r == client'[c]
      IN  /\ r.pc # "idle" => status'[r.job] # "absent"
          /\ r.pc = "cancel_write" /\ Exists(r.found) => Exists(attempts'[r.job][r.no])
          /\ r.pc = "quoting" => Exists(attempts'[r.job][r.no])
  <2> DEFINE j == client[c].job
             n == client[c].no
             p == client[c].payload
  <2>a. client[c].pc # "idle" => j \in Jobs /\ n \in AttemptNos /\ status'[j] # "absent"
    BY DEF ClientsTyped, ClientState, ClientsReal
  <2>1. CASE Respond(c)
    BY <2>1, EmptyRecordsTyped DEF Respond, ClientsTyped
  <2>2. ASSUME NEW k \in Jobs, CancelReadJob(c, k)
        PROVE  client'[c].pc = "cancelling" /\ client'[c].job = k /\ status'[k] # "absent"
    BY <2>2 DEF CancelReadJob, IdleClient, ClientsTyped, NonTerminal
  <2>3. CASE CancelReadAttempt(c)
    <3> DEFINE m == Latest(j)
    <3>1. /\ client'[c].pc = "cancel_write" /\ client'[c].job = j /\ client'[c].no = m
          /\ client'[c].found = attempts[j][m] /\ client[c].pc # "idle"
      BY <2>3 DEF CancelReadAttempt, ClientAt, ClientsTyped, ClientState
    <3>2. m \in AttemptNos
      BY <2>a, <3>1, LatestProperty
    <3> QED BY <2>a, <3>1, <3>2
  <2>4. ASSUME NEW k \in Jobs, NEW m \in AttemptNos, NEW q \in Payloads,
               PostReadJob(c, k, m, q)
        PROVE  client'[c].pc = "posting" /\ client'[c].job = k /\ status'[k] # "absent"
    BY <2>4 DEF PostReadJob, IdleClient, ClientsTyped
  <2>5. CASE PostReadAttempt(c)
    <3>1. \/ Respond(c)
          \/ /\ client'[c].pc = "post_write" /\ client'[c].job = j
             /\ client[c].pc # "idle"
          \/ /\ client'[c].pc = "quoting" /\ client'[c].job = j /\ client'[c].no = n
             /\ client[c].pc # "idle" /\ SameResult(attempts[j][n], p)
      BY <2>5 DEF PostReadAttempt, ClientAt, ClientsTyped, ClientState
    <3> QED BY <2>1, <2>a, <3>1 DEF SameResult
  <2>6. CASE PostWrite(c)
    <3>1. \/ Respond(c)
          \/ /\ client'[c].pc = "quoting" /\ client'[c].job = j /\ client'[c].no = n
             /\ client[c].pc = "post_write"
      BY <2>6 DEF PostWrite, ClientAt, ClientsTyped, ClientState
    <3>2. client[c].pc = "post_write" => attempts'[j][n].digest = p /\ p \in Payloads
      BY <2>6, <2>a DEF PostWrite, WriteAttempt, TablesTyped, ClientsTyped
    <3>3. client[c].pc = "post_write" => Exists(attempts'[j][n])
      BY <2>a, <3>2, PayloadAssumption DEF RowsOK, RowsReal, IsSealed
    <3> QED BY <2>1, <2>a, <3>1, <3>3
  <2>7. CASE PostConflict(c)
    BY <2>7, <2>a DEF PostConflict, ClientAt, ClientsTyped, ClientState
  <2>8. CASE CancelWrite(c) \/ QuoteWrite(c) \/ ClientAbort(c)
    BY <2>1, <2>8 DEF CancelWrite, QuoteWrite, ClientAbort
  <2> QED BY <2>2, <2>3, <2>4, <2>5, <2>6, <2>7, <2>8 DEF ClientStep
<1> QED BY <1>1, <1>2 DEF ClientsReal
-----------------------------------------------------------------------------
\* The inductive invariant: well-formed tables and reads, counts that follow the
\* status (from JobPromise), and no row, score or read without what it refers to.
IInv ==
    /\ TypeOK
    /\ Promise!CountsFollowRank
    /\ OnlyPostsAddAttempts
    /\ NoPhantomRows

\* What the lemmas above need of the inductive invariant.
LEMMA IInvParts ==
  ASSUME IInv
  PROVE  /\ TablesTyped /\ WorkersTyped /\ ClientsTyped
         /\ RowsOK /\ WorkersReal /\ ClientsReal /\ Unplaced
         /\ Promise!TypeOK /\ Promise!CountsFollowRank
<1>1. TablesTyped /\ WorkersTyped /\ ClientsTyped
  BY TypeOKParts DEF IInv
<1>2. Promise!TypeOK
  BY <1>1 DEF TablesTyped, Promise!TypeOK, Promise!Status, Promise!NonTerminal,
              Promise!Terminal, Status, NonTerminal, Terminal
<1>3. Unplaced
  <2>1. Promise!Rank["placing"] < 3
    BY DEF Promise!Rank
  <2> QED BY <2>1 DEF IInv, Unplaced, Promise!CountsFollowRank
<1> QED BY <1>1, <1>2, <1>3 DEF IInv, RowsOK, NoPhantomRows

\* Every step is a step of the promise or changes nothing that it speaks of.
LEMMA StepKeepsPromise ==
  ASSUME IInv, [Next]_vars
  PROVE  [Promise!Next]_<<status, placements, launches>>
<1> USE IInvParts
<1>1. ASSUME NEW j \in Jobs, Admit(j) PROVE Promise!Admit(j)
  BY <1>1 DEF Admit, Promise!Admit
<1>2. ASSUME NEW w \in Workers, WorkerStep(w)
      PROVE  [Promise!Next]_<<status, placements, launches>>
  BY <1>2, WorkersKeepPromise DEF Promise!Next
<1>3. ASSUME NEW c \in Clients, ClientStep(c)
      PROVE  [Promise!Next]_<<status, placements, launches>>
  BY <1>3, ClientsKeepPromise DEF Promise!Next
<1>4. CASE UNCHANGED vars
  BY <1>4 DEF vars
<1> QED BY <1>1, <1>2, <1>3, <1>4 DEF Next, Promise!Next

\* A step of the promise never deletes a job's row.
LEMMA JobsStay ==
  ASSUME IInv, [Next]_vars
  PROVE  \A j \in Jobs : status[j] # "absent" => status'[j] # "absent"
<1> USE IInvParts
<1>1. [Promise!Next]_<<status, placements, launches>>
  BY StepKeepsPromise
<1>2. ASSUME NEW j \in Jobs, Promise!Admit(j) \/ Promise!Advance(j) \/ Promise!Finish(j)
      PROVE  \A k \in Jobs : status[k] # "absent" => status'[k] # "absent"
  BY <1>2 DEF Promise!Admit, Promise!Advance, Promise!Finish, Promise!Forward,
              Promise!Terminal, TablesTyped
<1> QED BY <1>1, <1>2 DEF Promise!Next

\* The inductive invariant holds of the empty database.
LEMMA InitIInv == Init => IInv
<1> SUFFICES ASSUME Init PROVE IInv
  OBVIOUS
<1>1. TypeOK
  BY EmptyRecordsTyped DEF Init, TypeOK, Status
<1>2. Promise!Init => Promise!TypeOK /\ Promise!CountsFollowRank
  BY CountsInit
<1>3. Promise!Init
  BY DEF Init, Promise!Init
<1>4. OnlyPostsAddAttempts /\ NoPhantomRows
  BY EmptyRecordsTyped DEF Init, OnlyPostsAddAttempts, NoPhantomRows, RowsReal,
     WorkersReal,
       ClientsReal, NoAttempt, Exists, IsSealed
<1> QED BY <1>1, <1>2, <1>3, <1>4 DEF IInv

\* What any one step does to the attempt rows.
LEMMA RowsAfter ==
  ASSUME IInv, [Next]_vars
  PROVE  /\ RowsOK'
         /\ \A j \in Jobs, n \in AttemptNos : RowKept(attempts[j][n], attempts'[j][n])
<1> USE IInvParts
<1>1. CASE UNCHANGED vars
  BY <1>1, RowsAfterStep DEF vars, RowsStep
<1>2. ASSUME NEW j \in Jobs, Admit(j) PROVE RowsStep
  BY <1>2 DEF Admit, RowsStep
<1>3. ASSUME NEW w \in Workers, WorkerStep(w) PROVE RowsStep
  BY <1>3, WorkersWriteRows
<1>4. ASSUME NEW c \in Clients, ClientStep(c) PROVE RowsStep
  BY <1>4, ClientsWriteRows
<1> QED BY <1>1, <1>2, <1>3, <1>4, RowsAfterStep DEF Next

\* Type correctness is inductive by itself.
LEMMA TypeStep == TypeOK /\ [Next]_vars => TypeOK'
<1> SUFFICES ASSUME TablesTyped, WorkersTyped, ClientsTyped, [Next]_vars
             PROVE  TablesTyped' /\ WorkersTyped' /\ ClientsTyped'
  BY TypeOKParts DEF TypeOK, TablesTyped, WorkersTyped, ClientsTyped
<1>1. ASSUME NEW j \in Jobs, Admit(j)
      PROVE  TablesTyped' /\ WorkersTyped' /\ ClientsTyped'
  BY <1>1 DEF Admit, TablesTyped, WorkersTyped, ClientsTyped, Status, NonTerminal
<1>2. ASSUME NEW w \in Workers, WorkerStep(w)
      PROVE  TablesTyped' /\ WorkersTyped' /\ ClientsTyped'
  BY <1>2, WorkersStayTyped, WorkersKeepTablesTyped, WorkersLeaveClients DEF ClientsTyped
<1>3. ASSUME NEW c \in Clients, ClientStep(c)
      PROVE  TablesTyped' /\ WorkersTyped' /\ ClientsTyped'
  BY <1>3, ClientsStayTyped, ClientsKeepTablesTyped, ClientsLeaveWorkers DEF WorkersTyped
<1>4. CASE UNCHANGED vars
  BY <1>4 DEF vars, TablesTyped, WorkersTyped, ClientsTyped
<1> QED BY <1>1, <1>2, <1>3, <1>4 DEF Next

\* Every step preserves the inductive invariant.
LEMMA StepIInv == IInv /\ [Next]_vars => IInv'
<1> SUFFICES ASSUME IInv, [Next]_vars PROVE IInv'
  OBVIOUS
<1> USE IInvParts
<1>1. TypeOK'
  BY TypeStep DEF IInv
<1>2. Promise!CountsFollowRank'
  <2>1. [Promise!Next]_<<status, placements, launches>>
    BY StepKeepsPromise
  <2>2. Promise!TypeOK /\ Promise!CountsFollowRank
          /\ [Promise!Next]_<<status, placements, launches>> => Promise!CountsFollowRank'
    BY CountsStep DEF Promise!vars
  <2> QED BY <2>1, <2>2
<1>3. RowsOK'
  BY RowsAfter
<1>4. \A j \in Jobs, n \in AttemptNos : Exists(attempts[j][n]) => Exists(attempts'[j][n])
  BY RowsAfter DEF RowKept
<1>5. WorkersReal' /\ ClientsReal'
  <2>1. CASE UNCHANGED <<worker, client>>
    BY <1>4, <2>1, JobsStay, RowsStayForWorkers, RowsStayForClients
  <2>2. ASSUME NEW w \in Workers, WorkerStep(w) PROVE WorkersReal' /\ ClientsReal'
    BY <1>4, <2>2, JobsStay, WorkersStayReal, WorkersLeaveClients, RowsStayForClients
  <2>3. ASSUME NEW c \in Clients, ClientStep(c) PROVE WorkersReal' /\ ClientsReal'
    BY <1>3, <1>4, <2>3, JobsStay, ClientsStayReal, ClientsLeaveWorkers,
       RowsStayForWorkers
  <2>4. ASSUME NEW j \in Jobs, Admit(j) PROVE UNCHANGED <<worker, client>>
    BY <2>4 DEF Admit
  <2> QED BY <2>1, <2>2, <2>3, <2>4 DEF Next, vars
<1> QED BY <1>1, <1>2, <1>3, <1>5 DEF IInv, RowsOK, NoPhantomRows

\* The inductive invariant holds throughout.
THEOREM Invariance == Spec => []IInv
BY InitIInv, StepIInv, PTL DEF Spec

\* The tables and every process's reads stay well formed, for every number of
\* workers, requests, jobs and attempts (domain/job_lifecycle.py).
THEOREM TypeCorrect == Spec => []TypeOK
<1>1. IInv => TypeOK
  BY DEF IInv
<1> QED BY <1>1, Invariance, PTL

\* Only a results post makes an attempt beyond the first, however the drain,
\* the timeouts and the cancels interleave (_ensure_running_attempt).
THEOREM AttemptsArePosted == Spec => []OnlyPostsAddAttempts
<1>1. IInv => OnlyPostsAddAttempts
  BY DEF IInv
<1> QED BY <1>1, Invariance, PTL

\* No row, score or stale read refers to a job or an attempt that is not there.
THEOREM NothingDangles == Spec => []NoPhantomRows
<1>1. IInv => NoPhantomRows
  BY DEF IInv
<1> QED BY <1>1, Invariance, PTL

\* Any number of workers and requests on the detailed tables implement the
\* promise: one status at a time, placed once, launched once, never backwards.
THEOREM Refinement == Spec => KeepsPromise
<1>1. Init => Promise!Init
  BY DEF Init, Promise!Init
<1>2. IInv /\ [Next]_vars => [Promise!Next]_Promise!vars
  BY StepKeepsPromise DEF Promise!vars
<1> QED BY <1>1, <1>2, Invariance, PTL DEF Spec, KeepsPromise, Promise!Spec
-----------------------------------------------------------------------------
\* What a job has to show for the status that a step has just brought it to.
Entry(j) ==
    /\ status'[j] = "running" => \E n \in AttemptNos : Exists(attempts'[j][n])
    /\ status'[j] = "collecting" =>
          \E n \in AttemptNos : IsSealed(attempts'[j][n]) /\ attempts'[j][n].scored
    /\ status'[j] = "scoring" => status[j] = "collecting"
    /\ status'[j] = "succeeded" =>
          status[j] = "scoring" \/ \E n \in AttemptNos : HasResult(attempts'[j][n])

\* A status that a drain loop gives a job comes with what Entry asks.
LEMMA WorkersEnter ==
  ASSUME TablesTyped, WorkersTyped, NEW w \in Workers, WorkerStep(w),
         NEW k \in Jobs, status'[k] # status[k]
  PROVE  Entry(k)
<1> DEFINE j == worker[w].job
           n == Latest(j)
<1>1. worker[w].pc # "idle" => j \in Jobs /\ n \in AttemptNos /\ attempts[j][n] \in Attempt
  BY LatestProperty DEF WorkersTyped, TablesTyped
<1>2. CASE MarkTimeout(w) \/ MarkFailed(w)
  BY <1>2 DEF MarkTimeout, MarkFailed, TablesTyped, Entry
<1>3. CASE WorkerHold(w) \/ WorkerBind(w)
  BY <1>3 DEF WorkerHold, WorkerBind, LeaveAdmitted, TablesTyped, Entry
<1>4. CASE ClaimProvisioning(w)
  BY <1>4 DEF ClaimProvisioning, TablesTyped, Entry
<1>5. CASE ClaimRunning(w)
  <2> DEFINE a == IF Exists(attempts[j][n]) THEN attempts[j][n] ELSE NewAttempt("running")
  <2>1. j \in Jobs /\ n \in AttemptNos
    BY <1>1, <1>5 DEF ClaimRunning, WonClaim, WorkerAt
  <2>2. \/ status' = [status EXCEPT ![j] = "running"] /\ WriteAttempt(j, n, a)
        \/ status' = [status EXCEPT ![j] = "failed"]
    BY <1>5 DEF ClaimRunning
  <2>3. Exists(a)
    BY DEF Exists, NewAttempt, NoAttempt
  <2> HIDE DEF a, n, j
  <2>4. CASE status' = [status EXCEPT ![j] = "running"] /\ WriteAttempt(j, n, a)
    <3>1. k = j /\ status'[k] = "running"
      BY <2>4 DEF TablesTyped
    <3>2. attempts'[j][n] = a
      BY <2>1, <2>4 DEF WriteAttempt, TablesTyped
    <3> QED BY <2>1, <2>3, <3>1, <3>2 DEF Entry
  <2>5. CASE status' = [status EXCEPT ![j] = "failed"]
    BY <2>5 DEF TablesTyped, Entry
  <2> QED BY <2>2, <2>4, <2>5
<1>6. CASE ClaimCollecting(w)
  <2> DEFINE a == IF Exists(attempts[j][n]) THEN attempts[j][n] ELSE NewAttempt("running")
             launched == [status |-> "succeeded", digest |-> LaunchDigest,
                          out |-> "launch", scored |-> TRUE]
             scored == [a EXCEPT !.scored = TRUE]
  <2>1. j \in Jobs /\ n \in AttemptNos /\ a \in Attempt
    BY <1>1, <1>6, EmptyRecordsTyped DEF ClaimCollecting, WonClaim, WorkerAt
  <2>2. \/ /\ status' = [status EXCEPT ![j] = "collecting"]
           /\ \/ IsSealed(a) /\ WriteAttempt(j, n, scored)
              \/ WriteAttempt(j, n, launched)
        \/ \E t \in {"failed", "timeout"} : status' = [status EXCEPT ![j] = t]
    BY <1>6 DEF ClaimCollecting, Collect
  <2>3. /\ scored.scored /\ (IsSealed(a) => IsSealed(scored))
        /\ launched.scored /\ IsSealed(launched)
    BY <2>1, PayloadAssumption DEF IsSealed, Attempt
  <2> HIDE DEF a, launched, scored, n, j
  <2>4. CASE /\ status' = [status EXCEPT ![j] = "collecting"]
             /\ \/ IsSealed(a) /\ WriteAttempt(j, n, scored)
                \/ WriteAttempt(j, n, launched)
    <3>1. k = j /\ status'[k] = "collecting"
      BY <2>4 DEF TablesTyped
    <3>2. \/ IsSealed(a) /\ attempts'[j][n] = scored
          \/ attempts'[j][n] = launched
      BY <2>1, <2>4 DEF WriteAttempt, TablesTyped
    <3> QED BY <2>1, <2>3, <3>1, <3>2 DEF Entry
  <2>5. CASE \E t \in {"failed", "timeout"} : status' = [status EXCEPT ![j] = t]
    BY <2>5 DEF TablesTyped, Entry
  <2> QED BY <2>2, <2>4, <2>5
<1>7. CASE ClaimScoring(w) \/ ClaimSucceeded(w)
  BY <1>7 DEF ClaimScoring, ClaimSucceeded, WonClaim, TablesTyped, Entry
<1>8. CASE \/ \E i \in Jobs : WorkerRefresh(w, i)
           \/ WorkerReadAttempt(w) \/ WorkerReread(w) \/ WorkerGate(w) \/ LostClaim(w)
           \/ WorkerAbort(w)
  BY <1>8 DEF WorkerRefresh, WorkerReadAttempt, WorkerReread, WorkerGate, LostClaim,
              WorkerAbort, db
<1> QED BY <1>2, <1>3, <1>4, <1>5, <1>6, <1>7, <1>8 DEF WorkerStep

\* So does one that a request gives.
LEMMA ClientsEnter ==
  ASSUME TablesTyped, ClientsTyped, RowsOK', NEW c \in Clients, ClientStep(c),
         NEW k \in Jobs, status'[k] # status[k]
  PROVE  Entry(k)
<1> DEFINE j == client[c].job
           n == client[c].no
           p == client[c].payload
<1>1. CASE CancelWrite(c)
  BY <1>1 DEF CancelWrite, TablesTyped, Entry
<1>2. CASE PostWrite(c)
  <2>1. j \in Jobs /\ n \in AttemptNos /\ p \in Payloads
    BY <1>2 DEF PostWrite, ClientAt, ClientsTyped, ClientState
  <2>2. k = j /\ status'[k] \in Terminal
    BY <1>2 DEF PostWrite, TablesTyped
  <2>3. attempts'[j][n].digest = p
    BY <1>2, <2>1 DEF PostWrite, WriteAttempt, TablesTyped
  <2>4. HasResult(attempts'[j][n])
    BY <2>1, <2>3, PayloadAssumption DEF HasResult, RowsOK, RowsReal, IsSealed
  <2> QED BY <2>1, <2>2, <2>4 DEF Entry, Terminal
<1>3. CASE \/ CancelReadAttempt(c) \/ PostReadAttempt(c) \/ PostConflict(c)
           \/ QuoteWrite(c) \/ ClientAbort(c) \/ \E i \in Jobs : CancelReadJob(c, i)
           \/ \E i \in Jobs, m \in AttemptNos, q \in Payloads : PostReadJob(c, i, m, q)
  BY <1>3 DEF CancelReadAttempt, PostReadAttempt, PostConflict, QuoteWrite, ClientAbort,
              CancelReadJob, PostReadJob, db
<1> QED BY <1>1, <1>2, <1>3 DEF ClientStep

\* So does one that any step gives.
LEMMA StepEntry ==
  ASSUME IInv, [Next]_vars, NEW k \in Jobs, status'[k] # status[k]
  PROVE  Entry(k)
<1> USE IInvParts, RowsAfter
<1>1. ASSUME NEW j \in Jobs, Admit(j) PROVE Entry(k)
  BY <1>1 DEF Admit, TablesTyped, Entry
<1>2. ASSUME NEW w \in Workers, WorkerStep(w) PROVE Entry(k)
  BY <1>2, WorkersEnter
<1>3. ASSUME NEW c \in Clients, ClientStep(c) PROVE Entry(k)
  BY <1>3, ClientsEnter
<1> QED BY <1>1, <1>2, <1>3 DEF Next, vars

\* The parts of PipelineEvidence that speak of attempts.
AttemptEvidence ==
    \A j \in Jobs :
        /\ status[j] = "running" => \E n \in AttemptNos : Exists(attempts[j][n])
        /\ status[j] \in {"collecting", "scoring"}
              => \E n \in AttemptNos : IsSealed(attempts[j][n]) /\ attempts[j][n].scored

\* Rows are kept, and statuses enter with their rows.
LEMMA EvidenceStep ==
  IInv /\ AttemptEvidence /\ SuccessHasResults /\ [Next]_vars
    => AttemptEvidence' /\ SuccessHasResults'
<1> SUFFICES ASSUME IInv, AttemptEvidence, SuccessHasResults, [Next]_vars, NEW k \in Jobs
             PROVE  /\ status'[k] = "running" => \E n \in AttemptNos : Exists(attempts'[k][n])
                    /\ status'[k] \in {"collecting", "scoring"} => \E n \in AttemptNos :
                          IsSealed(attempts'[k][n]) /\ attempts'[k][n].scored
                    /\ status'[k] = "succeeded" =>
                          \E n \in AttemptNos : HasResult(attempts'[k][n])
  BY DEF AttemptEvidence, SuccessHasResults
<1>1. \A n \in AttemptNos : RowKept(attempts[k][n], attempts'[k][n])
  BY RowsAfter
<1>2. CASE status'[k] = status[k]
  BY <1>1, <1>2 DEF AttemptEvidence, SuccessHasResults, RowKept
<1>3. CASE status'[k] # status[k]
  <2>1. Entry(k)
    BY <1>3, StepEntry
  <2>2. status[k] \in {"collecting", "scoring"} =>
          \E n \in AttemptNos : IsSealed(attempts[k][n]) /\ attempts[k][n].scored
    BY DEF AttemptEvidence
  <2>3. \A n \in AttemptNos : attempts[k][n].scored => HasResult(attempts[k][n])
    BY DEF HasResult, IInv, NoPhantomRows, RowsReal
  <2> QED BY <1>1, <2>1, <2>2, <2>3 DEF Entry, RowKept
<1> QED BY <1>2, <1>3

\* A job in running or later has an attempt, one in collecting or later sealed
\* and scored results, a succeeded one a result (_ensure_running_attempt,
\* _collect_success, post_job_results).
THEOREM EvidenceInvariance == Spec => [](AttemptEvidence /\ SuccessHasResults)
<1>1. Init => AttemptEvidence /\ SuccessHasResults
  BY DEF Init, AttemptEvidence, SuccessHasResults
<1> QED BY <1>1, EvidenceStep, Invariance, PTL DEF Spec

\* A job's status vouches for its rows: one placement from provisioning on, an
\* attempt from running on, one launch and sealed, scored results from collecting
\* on, and nothing before (the claims and writes of advance_job_one_step).
THEOREM EvidenceCorrect == Spec => []PipelineEvidence
<1>1. IInv /\ AttemptEvidence => PipelineEvidence
  <2> SUFFICES ASSUME IInv, AttemptEvidence, NEW j \in Jobs
               PROVE  /\ status[j] \in {"absent", "admitted", "placing"} => placements[j] = 0
                      /\ status[j] \in BudgetHolding => placements[j] = 1
                      /\ status[j] \in {"running", "collecting", "scoring"}
                            => \E n \in AttemptNos : Exists(attempts[j][n])
                      /\ status[j] \in NonTerminal \ {"collecting", "scoring"}
                            => launches[j] = 0
                      /\ status[j] \in {"collecting", "scoring"}
                            => /\ launches[j] = 1
                               /\ \E n \in AttemptNos :
                                     IsSealed(attempts[j][n]) /\ attempts[j][n].scored
    BY DEF PipelineEvidence
  <2>1. /\ \A s \in {"absent", "admitted", "placing"} : Promise!Rank[s] < 3
        /\ \A s \in BudgetHolding : Promise!Rank[s] \in 3..6
        /\ \A s \in NonTerminal \ {"collecting", "scoring"} : Promise!Rank[s] < 5
        /\ \A s \in {"collecting", "scoring"} : Promise!Rank[s] \in 5..6
    BY DEF Promise!Rank, BudgetHolding, NonTerminal
  <2>2. \A n \in AttemptNos : IsSealed(attempts[j][n]) => Exists(attempts[j][n])
    BY DEF IInv, NoPhantomRows, RowsReal
  <2> QED BY <2>1, <2>2 DEF IInv, Promise!CountsFollowRank, AttemptEvidence
<1> QED BY <1>1, Invariance, EvidenceInvariance, PTL

\* A succeeded job has a scored attempt or posted results, whichever
\* worker or request made it succeed (_collect_success, post_job_results).
THEOREM SuccessCorrect == Spec => []SuccessHasResults
BY EvidenceInvariance, PTL

\* With any number of drain loops, a job is placed at most once and the launcher
\* runs for it at most once (_place_job, _collect_success under the CAS claim).
THEOREM OneClaimEach == Spec => []Promise!PlacedAndLaunchedOnce
<1>1. IInv => Promise!PlacedAndLaunchedOnce
  BY DEF IInv, Promise!CountsFollowRank, Promise!PlacedAndLaunchedOnce
<1> QED BY <1>1, Invariance, PTL

\* No cancel, late post, timeout or claim ever takes a job back to an earlier
\* stage, or out of a terminal status into the pipeline (advance_job_one_step).
THEOREM NoWayBack == Spec => Promise!ForwardOnly
BY NeverBackwards, Refinement, PTL DEF KeepsPromise
-----------------------------------------------------------------------------
(* The budget: the caps on concurrent worlds, first as a property of the jobs  *)
(* that hold it, then for one worker of this module, then for the combined     *)
(* worker of JobQueue.                                                         *)

Bounded(S) ==
    /\ IsFiniteSet(Ranks(S)) /\ Cardinality(Ranks(S)) <= MaxWorld
    /\ IsFiniteSet({k \in S : IsLarge(k)})
    /\ Cardinality({k \in S : IsLarge(k)}) <= MaxLarge

USE WorldSizeAssumption, BudgetAssumption

\* What is counted for the induction is the cap.
LEMMA BoundedIsWithin == \A s : Bounded(Holders(s)) => WithinBudget(s)
BY DEF Bounded, WithinBudget, WorldSum, LargeHolders

\* No job holds budget at first.
LEMMA NobodyIsBounded == Bounded({})
<1>1. Ranks({}) = {} /\ {k \in {} : IsLarge(k)} = {}
  BY DEF Ranks
<1> QED BY <1>1, FS_EmptySet, BudgetAssumption DEF Bounded

\* Fewer jobs are bounded too.
LEMMA FewerBounded ==
    ASSUME NEW S \in SUBSET Jobs, NEW T \in SUBSET S, Bounded(S)
    PROVE  Bounded(T)
<1> DEFINE large(U) == {k \in U : IsLarge(k)}
<1>1. Ranks(T) \in SUBSET Ranks(S)
    BY DEF Ranks
<1>2. IsFiniteSet(Ranks(T)) /\ Cardinality(Ranks(T)) <= Cardinality(Ranks(S))
    BY <1>1, FS_Subset DEF Bounded
<1>3. IsFiniteSet(large(S)) /\ large(T) \in SUBSET large(S)
    BY DEF Bounded
<1>4. Cardinality(large(T)) <= Cardinality(large(S))
    BY <1>3, FS_Subset
<1>5. /\ Cardinality(Ranks(T)) \in Nat /\ Cardinality(Ranks(S)) \in Nat
      /\ Cardinality(large(T)) \in Nat /\ Cardinality(large(S)) \in Nat
    <2>1. IsFiniteSet(Ranks(S)) /\ IsFiniteSet(large(T))
        BY <1>3, FS_Subset DEF Bounded
    <2> HIDE DEF large
    <2> QED BY <1>2, <1>3, <2>1, FS_CardinalityType
<1> HIDE DEF large
<1>6. Cardinality(Ranks(S)) <= MaxWorld /\ Cardinality(large(S)) <= MaxLarge
    BY DEF Bounded, large
<1>8. IsFiniteSet(large(T))
    BY <1>3, FS_Subset
<1>7. Cardinality(Ranks(T)) <= MaxWorld /\ Cardinality(large(T)) <= MaxLarge
    BY <1>2, <1>4, <1>5, <1>6
<1> QED BY <1>2, <1>8, <1>7 DEF Bounded, large

\* A job has as many ranks as its world is large.
LEMMA RanksOfOne ==
    ASSUME NEW j \in Jobs
    PROVE  IsFiniteSet(Ranks({j})) /\ Cardinality(Ranks({j})) = WorldSize[j]
<1> DEFINE n == WorldSize[j]
           f == [i \in 1..n |-> <<j, i>>]
<1>1. n \in Nat \ {0}
    OBVIOUS
<1>2. IsFiniteSet(1..n) /\ Cardinality(1..n) = n
    BY <1>1, FS_Interval
<1>3. Ranks({j}) = {j} \X (1..n)
    BY DEF Ranks
<1>4. f \in Bijection(1..n, {j} \X (1..n))
    <2> HIDE DEF n
    <2>1. f \in [1..n -> {j} \X (1..n)]
        OBVIOUS
    <2>2. \A a, b \in 1..n : f[a] = f[b] => a = b
        OBVIOUS
    <2>3. \A t \in {j} \X (1..n) : \E a \in 1..n : f[a] = t
        OBVIOUS
    <2> QED BY <2>1, <2>2, <2>3 DEF Bijection, Injection, Surjection, IsInjective
<1>5. ExistsBijection(1..n, {j} \X (1..n))
    BY <1>4 DEF ExistsBijection
<1>6. \A T : ExistsBijection(1..n, T) => IsFiniteSet(T) /\ Cardinality(T) = n
    <2> HIDE DEF n
    <2> QED BY <1>2, FS_Bijection
<1> QED BY <1>3, <1>5, <1>6

\* can_admit_to_running lets a job in only where the caps leave room for it.
LEMMA AdmitBounded ==
    ASSUME NEW s, NEW j \in Jobs, CanAdmit(s, j), Bounded(OtherHolders(s, j))
    PROVE  Bounded(OtherHolders(s, j) \cup {j})
<1> DEFINE S == OtherHolders(s, j)
           large == {k \in S : IsLarge(k)}
<1>1. S \in SUBSET Jobs /\ j \notin S
    BY DEF OtherHolders
<1>2. /\ IsFiniteSet(Ranks(S))
      /\ Cardinality(Ranks(S)) + WorldSize[j] <= MaxWorld
      /\ IsFiniteSet(large) /\ Cardinality(large) <= MaxLarge
      /\ IsLarge(j) => Cardinality(large) < MaxLarge
    BY DEF Bounded, CanAdmit, WorldSum
<1> HIDE DEF S
<1>3. Ranks(S \cup {j}) = Ranks(S) \cup Ranks({j})
    BY DEF Ranks
<1>4. Ranks(S) \cap Ranks({j}) = {}
    BY <1>1 DEF Ranks
<1>5. /\ IsFiniteSet(Ranks(S) \cup Ranks({j}))
      /\ Cardinality(Ranks(S) \cup Ranks({j})) = Cardinality(Ranks(S)) + WorldSize[j]
    <2>1. Cardinality({}) = 0 /\ Cardinality(Ranks(S)) \in Nat
        BY <1>2, FS_EmptySet, FS_CardinalityType
    <2>2. /\ IsFiniteSet(Ranks(S) \cup Ranks({j}))
          /\ Cardinality(Ranks(S) \cup Ranks({j}))
                = Cardinality(Ranks(S)) + Cardinality(Ranks({j})) - Cardinality(Ranks(S) \cap Ranks({j}))
        <3>1. \A T : IsFiniteSet(T) =>
                        /\ IsFiniteSet(Ranks(S) \cup T)
                        /\ Cardinality(Ranks(S) \cup T)
                              = Cardinality(Ranks(S)) + Cardinality(T) - Cardinality(Ranks(S) \cap T)
            BY <1>2, FS_Union
        <3> QED BY <3>1, RanksOfOne
    <2>3. Cardinality(Ranks(S) \cap Ranks({j})) = 0
        BY <1>4, <2>1
    <2>4. Cardinality(Ranks({j})) = WorldSize[j] /\ WorldSize[j] \in Nat
        BY RanksOfOne
    <2> HIDE DEF large
    <2> QED BY <2>1, <2>2, <2>3, <2>4
<1>6. Cardinality(large) \in Nat
    <2> HIDE DEF large
    <2> QED BY <1>2, FS_CardinalityType
<1>7. {k \in S \cup {j} : IsLarge(k)} = IF IsLarge(j) THEN large \cup {j} ELSE large
    OBVIOUS
<1> HIDE DEF large
<1>8. /\ IsFiniteSet(IF IsLarge(j) THEN large \cup {j} ELSE large)
      /\ Cardinality(IF IsLarge(j) THEN large \cup {j} ELSE large) <= MaxLarge
    <2>1. /\ IsFiniteSet(large \cup {j})
          /\ Cardinality(large \cup {j}) \in {Cardinality(large), Cardinality(large) + 1}
        BY <1>2, FS_AddElement
    <2> QED BY <1>2, <1>6, <2>1
<1> QED BY <1>2, <1>3, <1>5, <1>7, <1>8 DEF Bounded, S

\* A job that moves to a status without budget, or held it already, adds no
\* holder to the table.
LEMMA NoNewHolder ==
    ASSUME NEW s \in [Jobs -> Status], NEW j \in Jobs, NEW t,
           t \notin BudgetHolding \/ s[j] \in BudgetHolding
    PROVE  Holders([s EXCEPT ![j] = t]) \subseteq Holders(s)
BY DEF Holders

\* One drain loop, by itself or beside any number of requests.
OneWorker == \A v, w \in Workers : v = w

\* While a lone worker is on its way from the gate to the claim nobody else
\* takes budget, so that what can_admit_to_running counted stays an upper bound.
RoomKept ==
    OneWorker =>
        /\ Bounded(Holders(status))
        /\ \A w \in Workers : worker[w].pc = "claiming" /\ worker[w].seen = "placing"
                                => Bounded(Holders(status) \cup {worker[w].job})

\* A step that adds no holder and sends no worker to the claim.
LEMMA RoomStays ==
    ASSUME RoomKept, Holders(status') \subseteq Holders(status),
           \A w \in Workers : worker'[w].pc = "claiming" /\ worker'[w].seen = "placing"
                                  => worker'[w] = worker[w] /\ worker[w].job \in Jobs
    PROVE  RoomKept'
<1> SUFFICES ASSUME OneWorker
             PROVE  /\ Bounded(Holders(status'))
                    /\ \A w \in Workers : worker'[w].pc = "claiming" /\ worker'[w].seen = "placing"
                                           => Bounded(Holders(status') \cup {worker'[w].job})
  BY DEF RoomKept, OneWorker
<1>1. Holders(status) \subseteq Jobs
  BY DEF Holders
<1>2. Bounded(Holders(status'))
  BY <1>1, FewerBounded DEF RoomKept
<1>3. ASSUME NEW w \in Workers, worker'[w].pc = "claiming", worker'[w].seen = "placing"
      PROVE  Bounded(Holders(status') \cup {worker'[w].job})
  <2>1. Bounded(Holders(status) \cup {worker[w].job}) /\ worker'[w].job = worker[w].job
    BY <1>3 DEF RoomKept
  <2>2. /\ Holders(status) \cup {worker[w].job} \in SUBSET Jobs
        /\ Holders(status') \cup {worker[w].job} \in SUBSET (Holders(status) \cup {worker[w].job})
    BY <1>1, <1>3
  <2> QED BY <2>1, <2>2, FewerBounded
<1> QED BY <1>2, <1>3

\* Of the worker's steps only the claim of a placed job adds a holder.
LEMMA WorkerKeepsRoom ==
    ASSUME TypeOK, RoomKept, NEW w \in Workers, WorkerStep(w)
    PROVE  RoomKept'
<1> USE DEF Status, NonTerminal, Terminal, BudgetHolding
<1>0. /\ status \in [Jobs -> Status]
      /\ \A v \in Workers : worker[v].pc # "idle" => worker[v].job \in Jobs
      /\ worker \in [Workers -> WorkerState]
  BY DEF TypeOK
<1>1. /\ worker[w].pc # "idle" => worker[w].job \in Jobs
      /\ \A v \in Workers : worker[v].pc = "claiming" => worker[v].job \in Jobs
  BY <1>0
<1>2. Release(w) => \A v \in Workers : worker'[v].pc = "claiming" => worker'[v] = worker[v]
  BY <1>0 DEF Release, Idle
\* A step that leaves the jobs alone, or moves the worker's job out of the budget
\* or within it, and does not send the worker to the claim of a placed job.
<1> DEFINE Quiet == \A v \in Workers :
                       worker'[v].pc = "claiming" /\ worker'[v].seen = "placing"
                          => worker'[v] = worker[v]
<1>3. ASSUME Quiet, Holders(status') \subseteq Holders(status) PROVE RoomKept'
  BY <1>1, <1>3, RoomStays
<1>a. ASSUME Quiet, status' = status PROVE RoomKept'
  BY <1>3, <1>a
<1>b. ASSUME Quiet, worker[w].pc # "idle",
             NEW t, t \notin BudgetHolding \/ status[worker[w].job] \in BudgetHolding,
             status' = [status EXCEPT ![worker[w].job] = t]
      PROVE  RoomKept'
  BY <1>0, <1>1, <1>3, <1>b, NoNewHolder
<1>4. ASSUME NEW j \in Jobs, WorkerRefresh(w, j) PROVE RoomKept'
  BY <1>0, <1>a, <1>4 DEF WorkerRefresh, Picked, Idle, db
<1>5. CASE WorkerReadAttempt(w)
  BY <1>0, <1>a, <1>5 DEF WorkerReadAttempt, db
<1>6. CASE MarkTimeout(w) \/ MarkFailed(w)
  BY <1>2, <1>b, <1>6 DEF MarkTimeout, MarkFailed, WorkerAt
<1>7. CASE WorkerHold(w)
  BY <1>2, <1>a, <1>b, <1>7 DEF WorkerHold, LeaveAdmitted, WorkerAt
<1>8. CASE WorkerBind(w)
  <2>1. Quiet
    BY <1>0, <1>8 DEF WorkerBind, Goto
  <2> QED BY <2>1, <1>a, <1>b, <1>8 DEF WorkerBind, LeaveAdmitted, WorkerAt
<1>9. CASE WorkerReread(w)
  <2>1. Quiet
    <3>1. CASE Release(w)
      BY <1>2, <3>1
    <3>2. CASE worker' = [worker EXCEPT ![w].seen = status[worker[w].job],
                             ![w].pc = IF status[worker[w].job] = "placing" THEN "gated" ELSE "claiming"]
      BY <1>0, <3>2 DEF WorkerState
    <3> QED BY <1>9, <3>1, <3>2 DEF WorkerReread
  <2> QED BY <2>1, <1>a, <1>9 DEF WorkerReread, db
<1>10. CASE WorkerGate(w)
  <2>1. CASE ~CanAdmit(status, worker[w].job)
    BY <1>2, <1>a, <1>10, <2>1 DEF WorkerGate, db
  <2>2. CASE CanAdmit(status, worker[w].job)
    <3> DEFINE j == worker[w].job
    <3>1. /\ j \in Jobs /\ status' = status
          /\ \A v \in Workers : worker'[v].job = worker[v].job
          /\ \A v \in Workers \ {w} : worker'[v] = worker[v]
      <4>1. worker' = [worker EXCEPT ![w].pc = "claiming"] /\ worker[w].pc = "gated" /\ status' = status
        BY <1>10, <2>2 DEF WorkerGate, WorkerAt, Goto, db
      <4> QED BY <1>0, <1>1, <4>1 DEF WorkerState
    <3>2. ASSUME OneWorker
          PROVE  Bounded(Holders(status) \cup {j})
      <4>1. Holders(status) \in SUBSET Jobs /\ OtherHolders(status, j) \in SUBSET Holders(status)
        BY DEF Holders, OtherHolders
      <4>2. Bounded(OtherHolders(status, j))
        BY <3>2, <4>1, FewerBounded DEF RoomKept
      <4>3. Bounded(OtherHolders(status, j) \cup {j})
        BY <2>2, <3>1, <4>2, AdmitBounded
      <4>4. OtherHolders(status, j) \cup {j} = Holders(status) \cup {j}
        BY <3>1 DEF Holders, OtherHolders
      <4> QED BY <4>3, <4>4
    <3>3. OneWorker => \A v \in Workers : v = w
      BY DEF OneWorker
    <3> QED BY <3>1, <3>2, <3>3 DEF RoomKept, OneWorker
  <2> QED BY <2>1, <2>2
<1>11. CASE LostClaim(w) \/ WorkerAbort(w)
  BY <1>2, <1>a, <1>11 DEF LostClaim, WorkerAbort, db
<1>12. CASE ClaimProvisioning(w)
  <2> DEFINE j == worker[w].job
  <2>1. /\ worker[w].pc = "claiming" /\ worker[w].seen = "placing" /\ j \in Jobs
        /\ worker'[w].pc = "idle"
    BY <1>0, <1>1, <1>12 DEF ClaimProvisioning, WonClaim, WorkerAt, Release, Idle
  <2>2. Holders(status') \subseteq Holders(status) \cup {j} /\ Holders(status) \cup {j} \subseteq Jobs
    BY <1>0, <1>12, <2>1 DEF ClaimProvisioning, Holders
  <2>3. OneWorker => Bounded(Holders(status'))
    <3>1. OneWorker => Bounded(Holders(status) \cup {j})
      BY <2>1 DEF RoomKept
    <3>2. /\ Holders(status) \cup {j} \in SUBSET Jobs
          /\ Holders(status') \in SUBSET (Holders(status) \cup {j})
      BY <2>2
    <3> QED BY <3>1, <3>2, FewerBounded
  <2>4. OneWorker => \A v \in Workers : worker'[v].pc # "claiming"
    BY <2>1 DEF OneWorker
  <2> QED BY <2>3, <2>4 DEF RoomKept, OneWorker
<1>13. CASE ClaimRunning(w)
  BY <1>2, <1>b, <1>13 DEF ClaimRunning, WonClaim, WorkerAt
<1>14. CASE ClaimCollecting(w)
  BY <1>2, <1>b, <1>14 DEF ClaimCollecting, Collect, WonClaim, WorkerAt
<1>15. CASE ClaimScoring(w) \/ ClaimSucceeded(w)
  BY <1>2, <1>b, <1>15 DEF ClaimScoring, ClaimSucceeded, WonClaim, WorkerAt
<1> QED BY <1>4, <1>5, <1>6, <1>7, <1>8, <1>9, <1>10, <1>11, <1>12, <1>13, <1>14, <1>15
        DEF WorkerStep

\* Requests never give a job budget: they write terminal statuses only.
LEMMA OthersKeepRoom ==
    ASSUME TypeOK, RoomKept,
           \/ \E j \in Jobs : Admit(j)
           \/ \E c \in Clients : ClientStep(c)
           \/ UNCHANGED vars
    PROVE  RoomKept'
<1> USE DEF Terminal, BudgetHolding
<1>1. /\ status \in [Jobs -> Status]
      /\ \A w \in Workers : worker[w].pc # "idle" => worker[w].job \in Jobs
      /\ \A c \in Clients : client[c].pc # "idle" => client[c].job \in Jobs
  BY DEF TypeOK
<1>2. worker' = worker
  <2>1. ASSUME NEW c \in Clients, ClientStep(c) PROVE worker' = worker
    BY <2>1, ClientsLeaveWorkers
  <2> QED BY <2>1 DEF Admit, vars
<1>3. Holders(status') \subseteq Holders(status)
  <2>1. ASSUME NEW j \in Jobs, NEW t, t \notin BudgetHolding, status' = [status EXCEPT ![j] = t]
        PROVE  Holders(status') \subseteq Holders(status)
    BY <1>1, <2>1, NoNewHolder
  <2>2. ASSUME NEW j \in Jobs, Admit(j) PROVE Holders(status') \subseteq Holders(status)
    BY <2>1, <2>2 DEF Admit
  <2>3. ASSUME NEW c \in Clients, ClientStep(c) PROVE Holders(status') \subseteq Holders(status)
    <3>1. CASE CancelWrite(c)
      BY <1>1, <2>1, <3>1 DEF CancelWrite, ClientAt
    <3>2. CASE PostWrite(c)
      <4>1. client[c].job \in Jobs
        BY <1>1, <3>2 DEF PostWrite, ClientAt
      <4>2. \/ status' = status
            \/ /\ client[c].payload.status \in Terminal
               /\ status' = [status EXCEPT ![client[c].job] = client[c].payload.status]
        BY <3>2 DEF PostWrite
      <4> QED BY <2>1, <4>1, <4>2
    <3>3. CASE ~CancelWrite(c) /\ ~PostWrite(c)
      BY <2>3, <3>3 DEF ClientStep, CancelReadJob, CancelReadAttempt, PostReadJob,
         PostReadAttempt, PostConflict, QuoteWrite, ClientAbort, db
    <3> QED BY <3>1, <3>2, <3>3
  <2> QED BY <2>2, <2>3 DEF vars
<1> QED BY <1>1, <1>2, <1>3, RoomStays

\* One drain loop never exceeds the caps, although it asks
\* can_admit_to_running in one statement and claims the job in a later one,
\* whatever requests do in between and however often it is stopped.
THEOREM OneWorkerBudget == Spec => []OneWorkerKeepsBudget
<1>1. Init => RoomKept
  <2> SUFFICES ASSUME Init PROVE RoomKept
    OBVIOUS
  <2>1. Holders(status) = {}
    BY DEF Init, Holders, BudgetHolding
  <2>2. \A w \in Workers : worker[w].pc # "claiming"
    BY DEF Init, Idle
  <2> QED BY <2>1, <2>2, NobodyIsBounded DEF RoomKept
<1>2. TypeOK /\ RoomKept /\ [Next]_vars => RoomKept'
  BY WorkerKeepsRoom, OthersKeepRoom DEF Next
<1>3. RoomKept => OneWorkerKeepsBudget
  BY BoundedIsWithin DEF RoomKept, OneWorkerKeepsBudget, OneWorker
<1> QED BY <1>1, <1>2, <1>3, TypeCorrect, PTL DEF Spec
-----------------------------------------------------------------------------
(* The combined worker of JobQueue, on the same table of jobs.              *)

QueueInv == status \in [Jobs -> Status] /\ Bounded(Holders(status))

\* A move to a status that holds no budget, or of a job that holds it already.
LEMMA MoveOut ==
    ASSUME QueueInv, NEW j \in Jobs, NEW t \in Status,
           t \notin BudgetHolding \/ status[j] \in BudgetHolding,
           Move(j, t)
    PROVE  QueueInv'
<1>1. status' = [status EXCEPT ![j] = t]
  BY DEF Move
<1>2. status' \in [Jobs -> Status] /\ Holders(status') \subseteq Holders(status)
  BY <1>1, NoNewHolder DEF QueueInv
<1>3. Holders(status) \subseteq Jobs
  BY DEF Holders
<1>4. Bounded(Holders(status'))
  BY <1>2, <1>3, FewerBounded DEF QueueInv
<1> QED BY <1>2, <1>4 DEF QueueInv

\* can_admit_to_running is asked about the table that the move is made on.
LEMMA MoveIn ==
    ASSUME QueueInv, NEW j \in Jobs, CanAdmit(status, j),
           status[j] \notin BudgetHolding, Move(j, "provisioning")
    PROVE  QueueInv'
<1>1. status' = [status EXCEPT ![j] = "provisioning"]
  BY DEF Move
<1>2. status' \in [Jobs -> Status]
  BY <1>1 DEF QueueInv, Status, NonTerminal
<1>3. Holders(status) = OtherHolders(status, j)
  BY DEF Holders, OtherHolders
<1>4. Holders(status') = OtherHolders(status, j) \cup {j}
  BY <1>1 DEF QueueInv, Holders, OtherHolders, BudgetHolding
<1>5. Bounded(Holders(status'))
  BY <1>3, <1>4, AdmitBounded DEF QueueInv
<1> QED BY <1>2, <1>5 DEF QueueInv

\* Every action of the worker, of requests and of the clock keeps the caps.
LEMMA QueueStep ==
    ASSUME QueueInv, [QueueNext]_queueVars
    PROVE  QueueInv'
<1> USE EndingsAssumption DEF Status, NonTerminal, Terminal, BudgetHolding
<1>1. CASE UNCHANGED status
  BY <1>1 DEF QueueInv
<1>2. ASSUME NEW j \in Jobs, QueueAdmit(j) PROVE QueueInv'
  BY <1>2, MoveOut DEF QueueAdmit
<1>3. ASSUME NEW j \in Jobs, Finish(j) PROVE QueueInv'
  BY <1>3, MoveOut DEF Finish
<1>4. ASSUME NEW j \in Jobs, Visit(j) PROVE QueueInv'
  <2>1. CASE VisitEnded(j)
    BY <1>1, <2>1 DEF VisitEnded
  <2>2. CASE VisitLate(j)
    BY <2>2, MoveOut DEF VisitLate
  <2>3. CASE VisitUnbound(j)
    BY <2>3, MoveOut DEF VisitUnbound
  <2>4. CASE VisitBound(j)
    BY <2>4, MoveOut, MoveIn DEF VisitBound
  <2>5. CASE VisitStart(j)
    BY <2>5, MoveOut DEF VisitStart
  <2>6. CASE VisitLaunch(j)
    BY <2>6, MoveOut DEF VisitLaunch
  <2>7. CASE VisitCollected(j)
    <3>1. Forward[status[j]] \in Status /\ status[j] \in BudgetHolding
      BY <2>7 DEF VisitCollected, Forward
    <3> QED BY <2>7, <3>1, MoveOut DEF VisitCollected
  <2> QED BY <1>4, <2>1, <2>2, <2>3, <2>4, <2>5, <2>6, <2>7 DEF Visit
<1>5. ASSUME NEW j \in Jobs, VisitRolledBack(j) PROVE QueueInv'
  <2>1. CASE status[j] = "admitted" /\ Move(j, "placing")
    BY <2>1, MoveOut
  <2>2. ASSUME NEW t \in Endings, Move(j, t) PROVE QueueInv'
    BY <2>2, MoveOut
  <2> QED BY <1>1, <1>5, <2>1, <2>2 DEF VisitRolledBack
<1> QED BY <1>1, <1>2, <1>3, <1>4, <1>5 DEF QueueNext, StartTick, Overdue, queueVars

\* At no moment of any tick are there more large jobs in flight than
\* max_concurrent_large_jobs, or more ranks than max_concurrent_world_size_budget,
\* however many jobs there are, whatever their worlds, and however requests finish
\* them in between (can_admit_to_running, the combined worker of app.py).
THEOREM BudgetCorrect == QueueSpec => []BudgetKept
<1>1. QueueInit => QueueInv
  <2> SUFFICES ASSUME QueueInit PROVE QueueInv
    OBVIOUS
  <2>1. Holders(status) = {} /\ status \in [Jobs -> Status]
    BY DEF QueueInit, Holders, BudgetHolding, Status
  <2> QED BY <2>1, NobodyIsBounded DEF QueueInv
<1>2. QueueInv /\ [QueueNext]_queueVars => QueueInv'
  BY QueueStep
<1>3. QueueInv => BudgetKept
  BY BoundedIsWithin DEF QueueInv, BudgetKept
<1> QED BY <1>1, <1>2, <1>3, PTL DEF QueueSpec
=============================================================================
