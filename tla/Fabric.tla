------------------------------- MODULE Fabric -------------------------------
(***************************************************************************)
(* From fabric reports to placements (domain/fabric_reports.py, fabric/,    *)
(* _place_job and _collect_success of domain/job_lifecycle.py): the scans   *)
(* of nodes, the require_ib check of a rent, the topology planner that      *)
(* gives every rank of a job its GPU, and the launcher's fabric gate.       *)
(*                                                                         *)
(* Node ids are numbers, in the order of the planner's sort by id.  Rates   *)
(* and digests only reach warnings and labels: the soft mismatch policy     *)
(* never refuses nodes that all have an active device.                      *)
(***************************************************************************)
EXTENDS Integers, Sequences, FiniteSets, SequencesExt, FiniteSetsExt

CONSTANTS
    Nodes,        \* node ids
    Sizes,        \* GPU counts that a provider registers
    Fleets,       \* what the providers registered first
    Pods,         \* sets of nodes that an offer rents out together
    JobSpecs,     \* [nnodes, nproc, policy, mode] of admitted jobs
    SimDates,     \* collected_at of simulated scans, which their seeds fix
    Injections,   \* the honesty knobs of the settings: [spoof, eth, status]
    MaxChanges,   \* bound: scans and registrations after the first
    NoScan

Ib == {"none", "down", "active"}   \* no device, devices that are down, a live one
Transport == {"IB", "Socket"}
Report == [at : Nat, ib : Ib, gpus : Nat, dense : BOOLEAN]
JobSpec == [nnodes : Nat \ {0}, nproc : Nat \ {0}, policy : {"pack", "spread"},
            mode : {"auto", "ib", "eth", "nvlink_only"}]
Inject == [spoof : BOOLEAN, eth : BOOLEAN, status : {"none", "failed", "timeout"}]

ASSUME FabricAssumption ==
    /\ Nodes \subseteq Nat \ {0} /\ IsFiniteSet(Nodes) /\ Nodes # {}
    /\ Sizes \subseteq Nat \ {0} /\ SimDates \subseteq Nat
    /\ Fleets \subseteq [Nodes -> [gpus : Sizes, ib : Ib]]
    /\ Pods \subseteq (SUBSET Nodes) \ {{}}
    /\ JobSpecs \subseteq JobSpec
    /\ Injections \subseteq Inject
ASSUME SimDatesAssumption == \E d \in SimDates : \A e \in SimDates : e <= d

VARIABLES
    node,     \* gpu_count, the class of the inventory's devices, has_ib
    rows,     \* fabric_reports of each node, in the order of their commits
    scan,     \* the fabric-scan under way: what it read
    changes,  \* bound
    lease,    \* the pod that is rented, and what was newest about its nodes then
    job       \* one job: its placement, what was reported then, and if it earns

vars == <<node, rows, scan, changes, lease, job>>

None == [at |-> 0, ib |-> "none", gpus |-> 0, dense |-> FALSE]
NoLease == [pod |-> {}, require_ib |-> FALSE, newest |-> [n \in {} |-> "none"]]
NoReports == [n \in {} |-> None]
Unplaced == [st |-> "queued", world |-> 0, spec |-> CHOOSE s \in JobSpecs : TRUE, pod |-> {},
             planned |-> NoReports, map |-> <<>>, net |-> "Socket", code |-> "none",
             posted |-> FALSE, launched |-> NoReports,
             inject |-> [spoof |-> FALSE, eth |-> FALSE, status |-> "none"],
             earns |-> FALSE]

Init ==
    /\ \E fleet \in Fleets : node = [n \in Nodes |->
          [gpus |-> fleet[n].gpus, inv |-> fleet[n].ib, has_ib |-> fleet[n].ib # "none"]]
    /\ rows = [n \in Nodes |-> <<>>]
    /\ scan = NoScan
    /\ changes = 0
    /\ lease = NoLease
    /\ job = Unplaced

-----------------------------------------------------------------------------
(* Reports                                                                  *)

Least(S) == CHOOSE x \in S : \A y \in S : x <= y

\* get_latest_fabric_report sorts by collected_at, which a simulated scan takes
\* from its seed; ties are broken towards the earlier row.
LatestRow(n) ==
    IF rows[n] = <<>> THEN None
    ELSE rows[n][CHOOSE i \in DOMAIN rows[n] : \A k \in DOMAIN rows[n] :
                    \/ rows[n][k].at < rows[n][i].at
                    \/ rows[n][k].at = rows[n][i].at /\ i <= k]

\* Without a row the report is made up from the node's registration.
LatestReport(n) ==
    IF rows[n] # <<>> THEN LatestRow(n)
    ELSE [at |-> 0, ib |-> IF node[n].has_ib THEN node[n].inv ELSE "none",
          gpus |-> node[n].gpus, dense |-> FALSE]
LatestReports(S) == [n \in S |-> LatestReport(n)]

has_active_ib_devices(report) == report.ib = "active"
AllActive(R) == \A n \in DOMAIN R : has_active_ib_devices(R[n])

\* evaluate_fabric_mode: is the mode possible, and over which transport?
evaluate_fabric_mode(mode, R) ==
    LET live == DOMAIN R # {} /\ AllActive(R)
    IN  [ok |-> mode = "ib" => live,
         transport |-> CASE mode \in {"ib", "eth"} -> mode
                         [] mode = "nvlink_only" /\ DOMAIN R # {} -> "nvlink"
                         [] mode = "auto" /\ live -> "ib"
                         [] OTHER -> "auto-eth"]

\* Mutant of NcclNet: auto takes IB when any of its nodes has it.
NcclNetAny(mode, R) ==
    IF \/ mode = "ib" /\ evaluate_fabric_mode(mode, R).ok
       \/ mode = "auto" /\ \E n \in DOMAIN R : has_active_ib_devices(R[n])
    THEN "IB" ELSE "Socket"

\* build_nccl_env_for_mode: NCCL_NET.
NcclNet(mode, R) ==
    LET eval == evaluate_fabric_mode(mode, R)
    IN  IF mode \in {"ib", "auto"} /\ eval.ok /\ eval.transport = "ib" THEN "IB" ELSE "Socket"

\* A node's newest evidence, whatever its date: the last scan to commit, or
\* what its provider registered if there is none.
Newest(n) == IF rows[n] = <<>> THEN node[n].inv ELSE Last(rows[n]).ib

-----------------------------------------------------------------------------
(* The planner                                                              *)

Capacity(R, n, nproc) == IF R[n].gpus < nproc THEN R[n].gpus ELSE nproc
Total(selected) ==
    LET ranks == [i \in DOMAIN selected |-> selected[i].ranks]
    IN  MapThenSumSet(LAMBDA i : ranks[i], DOMAIN selected)

\* _node_prefer_key: more GPUs, then denser, then with IB, then the smaller id.
Preferred(R, m, n) ==
    LET key(x) == <<0 - R[x].gpus, IF R[x].dense THEN 0 ELSE 1,
                    IF has_active_ib_devices(R[x]) THEN 0 ELSE 1, x>>
    IN  \E i \in 1..4 : key(m)[i] < key(n)[i] /\ \A k \in 1..(i - 1) : key(m)[k] = key(n)[k]

\* The nodes in the order of their ids.
ById(R) ==
    CHOOSE order \in [1..Cardinality(DOMAIN R) -> DOMAIN R] :
        \A i, j \in DOMAIN order : i < j => order[i] < order[j]

\* Mutant of PackOrder: small nodes are not moved behind large ones.
PackOrderById(R) == ById(R)

\* The nodes in the order of _plan_pack.
PackOrder(R) ==
    CHOOSE order \in [1..Cardinality(DOMAIN R) -> DOMAIN R] :
        \A i, j \in DOMAIN order : i < j => Preferred(R, order[i], order[j])

\* _plan_pack: fill one node after the other; <<>> if the ranks do not fit.
PlanPack(R, world, nproc, max) ==
    LET fill(selected, n) ==
            LET left == world - Total(selected)
                cap == Capacity(R, n, nproc)
            IN  IF Len(selected) >= max \/ left = 0 THEN selected
                ELSE Append(selected, [node |-> n, ranks |-> IF cap < left THEN cap ELSE left])
        selected == FoldLeft(fill, <<>>, PackOrder(R))
    IN  IF Total(selected) < world THEN <<>> ELSE selected

\* place_ranks first packs into the whole inventory, then into nnodes nodes.
PackWithin(R, world, spec) ==
    LET wide == PlanPack(R, world, spec.nproc, Cardinality(DOMAIN R))
    IN  IF wide = <<>> \/ Len(wide) > spec.nnodes
        THEN PlanPack(R, world, spec.nproc, spec.nnodes) ELSE wide

\* _plan_spread: the first nnodes nodes by id take a rank each in turn, and a
\* node that is ahead of the last one waits.  The turn ends when nobody may.  (A
\* node that was given no rank stays in the list and is bound to none.)
PlanSpread(R, world, spec) ==
    LET ids == ById(R)
        pool == SubSeq(ids, 1, IF spec.nnodes < Len(ids) THEN spec.nnodes ELSE Len(ids))
        give[k \in 0..world] ==
            IF k = 0 THEN [i \in DOMAIN pool |-> 0]
            ELSE LET now == give[k - 1]
                     open == {i \in DOMAIN pool : /\ now[i] < Capacity(R, pool[i], spec.nproc)
                                                  /\ \A h \in DOMAIN pool : now[i] <= now[h]}
                 IN  IF open = {} THEN now ELSE [now EXCEPT ![Least(open)] = @ + 1]
        selected == [i \in DOMAIN pool |-> [node |-> pool[i], ranks |-> give[world][i]]]
    IN  IF Total(selected) < world THEN <<>> ELSE selected

\* Mutant of BindRanks: every node counts on with the global rank.
BindRanksGlobal(selected) ==
    LET ranks(i) == LET before == Total(SubSeq(selected, 1, i - 1))
                    IN  [k \in 1..selected[i].ranks |->
                            [node |-> selected[i].node, local |-> before + k - 1]]
    IN  FlattenSeq([i \in DOMAIN selected |-> ranks(i)])

\* _bind_ranks_on_nodes: element r + 1 is rank r; local_rank is also gpu_index.
BindRanks(selected) ==
    FlattenSeq([i \in DOMAIN selected |-> [k \in 1..selected[i].ranks |->
        [node |-> selected[i].node, local |-> k - 1]]])

place_ranks(R, world, spec) ==
    LET planned == IF spec.policy = "pack" THEN PackWithin(R, world, spec)
                   ELSE PlanSpread(R, world, spec)
        map == BindRanks(planned)
        used == {map[i].node : i \in DOMAIN map}
    IN  IF ~evaluate_fabric_mode(spec.mode, R).ok
        THEN [code |-> "missing_ib", map |-> <<>>, net |-> "Socket"]
        ELSE IF planned = <<>>
        THEN [code |-> "capacity_insufficient", map |-> <<>>, net |-> "Socket"]
        ELSE [code |-> "none", map |-> map,
              net |-> NcclNet(spec.mode, [n \in used |-> R[n]])]

\* build_sim_rankmap and build_sim_nccl_env for a job without a pod: nodes
\* that do not exist, numbered below 1, and IB if the job asks for it.
SimRankmap(spec) ==
    [r \in 1..(spec.nnodes * spec.nproc) |->
        [node |-> 0 - ((r - 1) \div spec.nproc), local |-> (r - 1) % spec.nproc]]

-----------------------------------------------------------------------------
(* Nodes and scans                                                          *)

\* Bound: nothing reads a report once the job is over.
MayChange == changes < MaxChanges /\ job.st \in {"queued", "placed"}

\* register_node of a node that is already known.
Register(n, gpus, ib) ==
    /\ MayChange
    /\ changes' = changes + 1
    /\ node' = [node EXCEPT ![n] = [gpus |-> gpus, inv |-> ib, has_ib |-> ib # "none"]]
    /\ UNCHANGED <<rows, scan, lease, job>>

\* build_fabric_report: a simulated scan finds a live device and is dated by
\* its seed; the other sources find none, now.
Found(n, date) == [at |-> date, ib |-> IF date \in SimDates THEN "active" ELSE "none",
                   gpus |-> node[n].gpus, dense |-> TRUE]

\* fabric_scan_node reads the node and its latest row.
BeginScan(n, date) ==
    /\ scan = NoScan
    /\ MayChange
    /\ changes' = changes + 1
    /\ scan' = [node |-> n, has_ib |-> node[n].has_ib, latest |-> LatestRow(n),
                found |-> Found(n, date)]
    /\ UNCHANGED <<node, rows, lease, job>>

\* Scans are later than every date that a seed can give.
Now == 1 + changes + CHOOSE d \in SimDates : \A e \in SimDates : e <= d
ScanDates == SimDates \cup {Now}

\* POST fabric-scan, by the node's owner, of a source that is known.
FabricScan == \E n \in Nodes, date \in ScanDates : BeginScan(n, date)

\* The inventory of a node after a scan.  The ORM writes has_ib only if it
\* differs from the value that was read with the row.
Inventory(n) ==
    LET live == scan.found.ib # "none"
    IN  [gpus |-> node[n].gpus, inv |-> scan.found.ib,
         has_ib |-> IF live = scan.has_ib THEN node[n].has_ib ELSE live]

\* persist_fabric_report: a new row, unless the latest one that was read has
\* the same digest.
CommitScan ==
    /\ scan # NoScan
    /\ rows' = [rows EXCEPT ![scan.node] =
                  IF scan.found = scan.latest THEN @ ELSE Append(@, scan.found)]
    /\ node' = [node EXCEPT ![scan.node] = Inventory(scan.node)]
    /\ scan' = NoScan
    /\ UNCHANGED <<changes, lease, job>>

\* The session is rolled back.
AbortScan ==
    /\ scan # NoScan
    /\ scan' = NoScan
    /\ UNCHANGED <<node, rows, changes, lease, job>>

-----------------------------------------------------------------------------
(* Leases and jobs                                                          *)

\* Mutant of MayRent: trusts the flags of the node rows.
MayRentByFlag(S) == \A n \in S : node[n].has_ib

\* The require_ib part of rent_offer: the flags, then the latest reports.
MayRent(S) ==
    /\ \A n \in S : node[n].has_ib
    /\ AllActive(LatestReports(S))

Rent(S, require_ib) ==
    /\ lease = NoLease
    /\ require_ib => MayRent(S)
    /\ lease' = [pod |-> S, require_ib |-> require_ib, newest |-> [n \in S |-> Newest(n)]]
    /\ UNCHANGED <<node, rows, scan, changes, job>>

\* _place_job, in the transaction of the worker's claim; a refusal fails the job.
\* A job without a pod is laid out over stand-ins.
Place(spec, S) ==
    LET R == LatestReports(S)
        world == spec.nnodes * spec.nproc
        result == IF S # {} THEN place_ranks(R, world, spec)
                  ELSE [code |-> "none", map |-> SimRankmap(spec),
                        net |-> IF spec.mode = "ib" THEN "IB" ELSE "Socket"]
    IN  /\ job.st = "queued"
        /\ job' = [job EXCEPT !.st = IF result.code = "none" THEN "placed" ELSE "refused",
              !.world = world, !.spec = spec, !.pod = S, !.planned = R, !.map = result.map,
              !.net = result.net, !.code = result.code]
        /\ UNCHANGED <<node, rows, scan, changes, lease>>

\* post_job_results before the worker collects, with a status that does not
\* end the job: the results are sealed.
PostResults ==
    /\ job.st = "placed"
    /\ ~job.posted
    /\ job' = [job EXCEPT !.posted = TRUE]
    /\ UNCHANGED <<node, rows, scan, changes, lease>>

\* Mutant of evaluate_fabric_gate: a fallback only counts without live devices.
evaluate_fabric_gateLax(mode, R, spoof, eth) ==
    ~spoof /\ (mode = "ib" => (~eth \/ AllActive(R)) /\ evaluate_fabric_mode("ib", R).ok)

\* evaluate_fabric_gate: does the launch keep its gate?
evaluate_fabric_gate(mode, R, spoof, eth) ==
    ~spoof /\ (mode = "ib" => ~eth /\ evaluate_fabric_mode("ib", R).ok)

\* sim_launch: its status, and whether honesty zeroes its score, which is not
\* looked at when the settings make the launch fail or time out.
sim_launch(mode, R, inject) ==
    [status |-> IF inject.status = "none" THEN "succeeded" ELSE inject.status,
     integrity_fail |-> /\ inject.status = "none"
                        /\ ~evaluate_fabric_gate(mode, R, inject.spoof, inject.eth)]

\* _collect_success launches with the reports of the moment.  Sealed results
\* are kept whatever the launch's status, but not past its gate.
Collect(inject) ==
    LET R == LatestReports(job.pod)
        launch == sim_launch(job.spec.mode, R, inject)
    IN  /\ job.st = "placed"
        /\ job' = [job EXCEPT !.st = "collected", !.launched = R, !.inject = inject,
              !.earns = (job.posted \/ launch.status = "succeeded") /\ ~launch.integrity_fail]
        /\ UNCHANGED <<node, rows, scan, changes, lease>>

Next ==
    \/ \E n \in Nodes, gpus \in Sizes, ib \in Ib : Register(n, gpus, ib)
    \/ FabricScan
    \/ CommitScan
    \/ AbortScan
    \/ \E S \in Pods, require_ib \in BOOLEAN : Rent(S, require_ib)
    \/ \E spec \in JobSpecs : Place(spec, lease.pod)
    \/ PostResults
    \/ \E inject \in Injections : Collect(inject)

Spec == Init /\ [][Next]_vars

-----------------------------------------------------------------------------
(* Properties                                                               *)

\* Every variable keeps its type.
TypeOK ==
    /\ node \in [Nodes -> [gpus : Sizes, inv : Ib, has_ib : BOOLEAN]]
    /\ rows \in [Nodes -> Seq(Report)]
    /\ scan = NoScan \/ (scan.node \in Nodes /\ {scan.latest, scan.found} \subseteq Report)
    /\ changes \in 0..MaxChanges
    /\ lease.pod \in Pods \cup {{}}
    /\ job.st \in {"queued", "placed", "refused", "collected"} /\ job.net \in Transport
    /\ \A i \in DOMAIN job.map : job.map[i].node \in Int /\ job.map[i].local \in Nat

OnPod == job.pod # {} /\ job.map # <<>>
OnNode(n) == {i \in DOMAIN job.map : job.map[i].node = n}
UsedNodes == {job.map[i].node : i \in DOMAIN job.map}

\* A placement (place_ranks, _bind_ranks_on_nodes) binds every rank of the job,
\* to GPUs 0..k-1 of a leased node that reported at least k of them and is
\* asked for at most nproc_per_node, and to no more than nnodes nodes.
RanksSound ==
    OnPod =>
        /\ Len(job.map) = job.world
        /\ UsedNodes \subseteq job.pod
        /\ Cardinality(UsedNodes) <= job.spec.nnodes
        /\ \A n \in UsedNodes :
              LET locals == {job.map[i].local : i \in OnNode(n)}
              IN  /\ locals = 0..(Cardinality(OnNode(n)) - 1)
                  /\ Cardinality(OnNode(n)) <= Capacity(job.planned, n, job.spec.nproc)

\* Could k of the nodes in R take all the ranks of the job?
Fits(R, spec, k) ==
    LET caps == [n \in DOMAIN R |-> Capacity(R, n, spec.nproc)]
    IN  \E S \in SUBSET DOMAIN R :
            /\ Cardinality(S) <= k
            /\ spec.nnodes * spec.nproc <= MapThenSumSet(LAMBDA n : caps[n], S)

\* Pack (_plan_pack) refuses a job for its size only if no choice of nnodes
\* leased nodes could take it, and uses the fewest nodes that can.
PackIsTight ==
    job.spec.policy = "pack" =>
        /\ job.code = "capacity_insufficient" => ~Fits(job.planned, job.spec, job.spec.nnodes)
        /\ OnPod => ~Fits(job.planned, job.spec, Cardinality(UsedNodes) - 1)

\* Spread (_plan_spread) does the same: it hands ranks out "across as many
\* nodes as capacity allows", and refuses only what does not fit.
SpreadFits ==
    job.spec.policy = "spread" /\ job.code = "capacity_insufficient" =>
        ~Fits(job.planned, job.spec, job.spec.nnodes)

\* NCCL is told to use InfiniBand (build_nccl_env_for_mode) only between nodes
\* that all reported a live device when the job was placed, and a job of mode
\* ib on a pod is never placed over anything else.
IbBetweenLiveDevices ==
    OnPod =>
        /\ job.net = "IB" => \A n \in UsedNodes : has_active_ib_devices(job.planned[n])
        /\ job.spec.mode = "ib" => job.net = "IB"

\* A job of mode ib earns (evaluate_fabric_gate at the collect) only on a pod
\* whose reports showed live devices when it was placed and again when it
\* ran, without a fallback; and no job earns over a spoofed inventory.  (A
\* launch that is made to fail or time out looks at none of this: see there.)
EarnsHonestly ==
    job.earns /\ job.inject.status = "none" =>
        /\ ~job.inject.spoof
        /\ job.spec.mode = "ib" =>
              /\ job.pod # {} /\ ~job.inject.eth
              /\ AllActive(job.planned) /\ AllActive(job.launched)

\* A pod is rented under require_ib only if the newest scan of each of its
\* nodes found a device, whatever the dates and flags that rent_offer reads.
RentedOnIb ==
    lease.require_ib => \A n \in lease.pod : lease.newest[n] # "none"
=============================================================================
