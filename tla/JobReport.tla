------------------------------ MODULE JobReport ------------------------------
(***************************************************************************)
(* The fabric report of a job (fabric/report.py, job_fabric_reports): a     *)
(* bundle with the digest of every node that the job ran on.  There is one  *)
(* row per job, which the results posted for an attempt or the worker's     *)
(* collect insert, whichever finds none, and the public route shows it.     *)
(*                                                                         *)
(* Node ids are numbers above 0; the stand-ins of a job that has no         *)
(* placement yet are numbered from 0 downwards.  A digest is the record of  *)
(* what it is computed from.  A job is claimed before it is collected, so   *)
(* the collect is one action; a post reads before it takes the write lock.  *)
(***************************************************************************)
EXTENDS Integers, Sequences, FiniteSets, SequencesExt

CONSTANTS
    Client,
    PodNodes,     \* ids of the leased nodes
    NNodes,       \* nnodes and nproc_per_node of the job
    NProc,
    Rankmaps,     \* the node of each rank, as the planner may place it
    AttemptNos,   \* attempt numbers that clients post for
    PostDigests,  \* what clients say that the fabric digest is
    MaxScans      \* bound: scans per node

ASSUME JobReportAssumption ==
    /\ PodNodes \subseteq Nat \ {0} /\ IsFiniteSet(PodNodes)
    /\ NNodes \in Nat \ {0} /\ NProc \in Nat \ {0}
    /\ \A map \in Rankmaps : map \in Seq(PodNodes) /\ Len(map) = NNodes * NProc
    /\ 1 \in AttemptNos /\ AttemptNos \subseteq Nat \ {0}
    /\ MaxScans \in Nat

VARIABLES
    st,         \* the job: not placed, placed, running, collected, or ended otherwise
    rankmap,    \* its placement: the node of each rank
    scans,      \* scans of each node; each has a digest of its own
    attempts,   \* job_attempts
    report,     \* job_fabric_reports: the job's row
    client      \* what each client's request has read

reportVars == <<st, rankmap, scans, attempts, report, client>>

NoDigest == [kind |-> "none"]
Posted(d) == [kind |-> "posted", by |-> d]
\* A post; each has an output digest of its own.
Posts == [no : AttemptNos, digest : {NoDigest} \cup {Posted(d) : d \in PostDigests},
          ends : BOOLEAN]

NoAttempt == [exists |-> FALSE, sealed |-> FALSE, digest |-> NoDigest]
Exists(no) == attempts[no].exists
Latest == IF \E no \in AttemptNos : Exists(no)
          THEN CHOOSE no \in AttemptNos : Exists(no) /\ \A k \in AttemptNos : Exists(k) => k <= no
          ELSE 1

NoReport == [digest |-> NoDigest, nodes |-> << >>, no |-> 0]
Idle == [pc |-> "idle"]

ReportInit ==
    /\ st = "queued"
    /\ rankmap = << >>
    /\ scans = [n \in PodNodes |-> 0]
    /\ attempts = [no \in AttemptNos |-> NoAttempt]
    /\ report = NoReport
    /\ client = [c \in Client |-> Idle]
-----------------------------------------------------------------------------
(* The bundle. *)

\* Mutant of unique_node_ids_from_rankmap: a node is named again when the ranks
\* come back to it.
unique_node_ids_from_rankmapRuns(map) ==
    FoldLeft(LAMBDA seen, n : IF seen # << >> /\ Last(seen) = n THEN seen ELSE Append(seen, n),
             << >>, map)

\* The nodes of a rankmap in the order of their first ranks.
unique_node_ids_from_rankmap(map) ==
    FoldLeft(LAMBDA seen, n : IF n \in ToSet(seen) THEN seen ELSE Append(seen, n), << >>, map)

\* node_digest_entries: the digest of the node's report, or one that says that
\* it is missing.
NodeDigest(n, reports) ==
    IF n \in DOMAIN reports THEN [kind |-> "scan", of |-> reports[n]]
    ELSE [kind |-> "missing", of |-> n]

node_digest_entries(ids, reports) ==
    [i \in DOMAIN ids |-> [node_id |-> ids[i], report_digest |-> NodeDigest(ids[i], reports)]]

compute_bundle_digest(nodes) == [kind |-> "bundle", of |-> nodes]

\* build_sim_fabric_report without a rankmap lays the ranks out over stand-ins.
StandIns == [r \in 1..(NNodes * NProc) |-> 0 - ((r - 1) \div NProc)]

NoScans == [n \in {} |-> 0]

build_sim_fabric_report(map, reports) ==
    LET nodes == node_digest_entries(
                     unique_node_ids_from_rankmap(IF map = << >> THEN StandIns ELSE map), reports)
    IN  [nodes |-> nodes, digest |-> compute_bundle_digest(nodes)]

\* The row of attempt `no` with the bundle fab under the given digest.
ReportRow(fab, digest, no) == [digest |-> digest, nodes |-> fab.nodes, no |-> no]
-----------------------------------------------------------------------------
(* post_job_results. *)

At(c, pc) == client[c].pc = pc
Goto(c, next) == client' = [client EXCEPT ![c] = next]
Untouched == UNCHANGED <<rankmap, scans>>

\* Equal results were posted before, or other ones were sealed: nothing is
\* written.  Otherwise the attempt, if it is there, is taken to be unsealed.
PostRead(c, post) ==
    /\ At(c, "idle")
    /\ ~attempts[post.no].sealed
    /\ Goto(c, [pc |-> IF Exists(post.no) THEN "look" ELSE "insert", post |-> post, found |-> FALSE])
    /\ UNCHANGED <<st, attempts, report>> /\ Untouched

\* With an attempt to update, the report is looked for before the lock.
PostLook(c) ==
    /\ At(c, "look")
    /\ Goto(c, [client[c] EXCEPT !.pc = "update", !.found = report # NoReport])
    /\ UNCHANGED <<st, attempts, report>> /\ Untouched

\* The report of a post has the post's digest and names stand-ins: the rankmap
\* is not passed on.
PostedReport(post) == ReportRow(build_sim_fabric_report(<< >>, NoScans), post.digest, post.no)

\* The post seals its attempt, whoever sealed it since, and may end the job.
Seal(c) ==
    LET post == client[c].post
    IN  /\ attempts' = [attempts EXCEPT ![post.no] =
              [exists |-> TRUE, sealed |-> TRUE, digest |-> post.digest]]
        /\ st' = IF post.ends /\ st # "collected" THEN "ended" ELSE st
        /\ Goto(c, Idle)
        /\ Untouched

\* A new attempt is flushed first, so that the report is looked for under the lock.
PostInsert(c) ==
    /\ At(c, "insert")
    /\ ~Exists(client[c].post.no)
    /\ report' = IF client[c].post.digest # NoDigest /\ report = NoReport
                 THEN PostedReport(client[c].post) ELSE report
    /\ Seal(c)

\* A report that was inserted since the look makes the transaction fail.
LostReport(c) == client[c].post.digest # NoDigest /\ ~client[c].found /\ report # NoReport

\* Mutant of PostUpdate: the report is replaced.
PostUpdateReplaces(c) ==
    /\ At(c, "update")
    /\ ~LostReport(c)
    /\ report' = IF client[c].post.digest # NoDigest THEN PostedReport(client[c].post) ELSE report
    /\ Seal(c)

PostUpdate(c) ==
    /\ At(c, "update")
    /\ ~LostReport(c)
    /\ report' = IF client[c].post.digest # NoDigest /\ ~client[c].found
                 THEN PostedReport(client[c].post) ELSE report
    /\ Seal(c)

Abort(c) ==
    /\ ~At(c, "idle")
    /\ Goto(c, Idle)
    /\ UNCHANGED <<st, attempts, report>> /\ Untouched
-----------------------------------------------------------------------------
(* The worker, and scans. *)

\* fabric_scan_node finds something new on n.
Scan(n) ==
    /\ scans[n] < MaxScans
    /\ st \in {"queued", "placed", "running"}
    /\ scans' = [scans EXCEPT ![n] = @ + 1]
    /\ UNCHANGED <<st, rankmap, attempts, report, client>>

\* _place_job.
PlaceJob(map) ==
    /\ st = "queued"
    /\ st' = "placed"
    /\ rankmap' = map
    /\ UNCHANGED <<scans, attempts, report, client>>

\* _ensure_running_attempt invents number 1 if there is none.
Run ==
    /\ st = "placed"
    /\ st' = "running"
    /\ attempts' = IF Exists(Latest) THEN attempts ELSE [attempts EXCEPT ![1].exists = TRUE]
    /\ UNCHANGED <<rankmap, scans, report, client>>

\* Results that were sealed early keep their digest, and give it to the report
\* if they have one and their post did not insert it.
CollectSealed(fab) ==
    /\ attempts[Latest].sealed
    /\ st' = "collected"
    /\ report' = IF report = NoReport /\ attempts[Latest].digest # NoDigest
                 THEN ReportRow(fab, attempts[Latest].digest, Latest) ELSE report
    /\ UNCHANGED attempts

\* A launch that fails or times out leaves its digest on the attempt only.
CollectBad(fab) ==
    /\ ~attempts[Latest].sealed
    /\ st' = "ended"
    /\ attempts' = [attempts EXCEPT ![Latest].digest = fab.digest]
    /\ UNCHANGED report

\* Mutant of CollectGood: the report is left to the posts.
CollectGoodUnreported(fab) ==
    /\ ~attempts[Latest].sealed
    /\ st' = "collected"
    /\ attempts' = [attempts EXCEPT ![Latest].digest = fab.digest, ![Latest].sealed = TRUE]
    /\ UNCHANGED report

CollectGood(fab) ==
    /\ ~attempts[Latest].sealed
    /\ st' = "collected"
    /\ attempts' = [attempts EXCEPT ![Latest].digest = fab.digest, ![Latest].sealed = TRUE]
    /\ report' = IF report = NoReport THEN ReportRow(fab, fab.digest, Latest) ELSE report

\* _collect_success, with the newest reports of the nodes.
CollectReport ==
    LET fab == build_sim_fabric_report(rankmap, scans)
    IN  /\ st = "running"
        /\ CollectSealed(fab) \/ CollectBad(fab) \/ CollectGood(fab)
        /\ UNCHANGED <<rankmap, scans, client>>

ReportNext ==
    \/ \E c \in Client :
        \/ \E post \in Posts : PostRead(c, post)
        \/ PostLook(c) \/ PostInsert(c) \/ PostUpdate(c) \/ Abort(c)
    \/ \E n \in PodNodes : Scan(n)
    \/ \E map \in Rankmaps : PlaceJob(map)
    \/ Run
    \/ CollectReport

ReportSpec == ReportInit /\ [][ReportNext]_reportVars
-----------------------------------------------------------------------------
(* What the public route shows. *)

NotReady == report = NoReport
PublicNodes == {report.nodes[i].node_id : i \in DOMAIN report.nodes}
-----------------------------------------------------------------------------
(* Properties. *)

\* "|nodes| matches |unique node_ids in rankmap|" (job_lifecycle.py:254) goes for
\* the reports of the worker: each is the bundle of the nodes of the placement,
\* once each, with their scans.  A report under a digest that a client posted
\* names the stand-ins, whenever it was inserted.
ReportNamesRanks ==
    /\ Cardinality(PublicNodes) = Len(report.nodes)
    /\ \A i \in DOMAIN report.nodes :
          report.nodes[i].node_id \in PodNodes <=> report.nodes[i].report_digest.kind = "scan"
    /\ report.digest.kind = "bundle" =>
          /\ report.digest = compute_bundle_digest(report.nodes)
          /\ PublicNodes = ToSet(rankmap)
    /\ report.digest.kind = "posted" => PublicNodes = ToSet(StandIns)

\* "Synthetic pack-style stubs when no placement yet" (job_lifecycle.py:263): a
\* report that is inserted for a job with a placement names the nodes of it, as
\* validate_bundle_completeness (report.py:172) would have it.
StandInsOnlyEarly ==
    [][report' # report /\ rankmap # << >> => PublicNodes' = ToSet(rankmap)]_reportVars

\* "Keep first report stable" (job_lifecycle.py:558): the row is written once, in
\* the step that gives its attempt the same digest or under the one it has.
WrittenOnce ==
    [][report' # report =>
          /\ report = NoReport
          /\ report'.digest # NoDigest
          /\ attempts'[report'.no].digest = report'.digest]_reportVars

\* Every job that was collected has a report (the route answers "collect not
\* finished" without one, public.py:1135), except one whose results were posted
\* without a digest.
CollectedHasReport ==
    st = "collected" /\ NotReady =>
        \E no \in AttemptNos : attempts[no].sealed /\ attempts[no].digest = NoDigest
=============================================================================
