------------------------------ MODULE GpuProbe ------------------------------
(***************************************************************************)
(* GPU host probes (probe/pipeline.py, probe/inventory_merge.py,            *)
(* domain/gpu_probes.py): what an SSH probe of a node's host finds becomes  *)
(* an evidence row, and is merged into the inventory that the node row had  *)
(* when the request began.  The inventory also comes from register_node,    *)
(* which stores whatever its client sends.                                  *)
(***************************************************************************)
EXTENDS SshSession

CONSTANTS
    Nodes, Gpus,   \* nodes.id, GPU uuids
    Requests,
    Hosts,         \* how a host may answer: [takes, the checks that it fails]
    Keys,          \* key_ref that requests send
    Endpoints,     \* nodes with an ssh_endpoint
    Attachments,   \* evidence gathered elsewhere: [status, uuids]
    Claims,        \* the probe fields of inventories that clients register
    Modes,         \* "full", "quick": the latter skips the microbench
    RequireDocker, \* require_docker_runtime
    MaxGpus,       \* max_gpu_count
    MaxEvidence,   \* bound: evidence rows
    MaxChanges,    \* bound: moves of GPUs and registrations, together
    NoEvidence, NoNode

CheckOrder == <<"ssh_connect", "nvidia_smi_list", "gpu_count", "gpu_model_match",
    "gpu_uuid_valid", "gpu_uuid_unique", "vram_window", "driver_present",
    "cuda_microbench", "docker_runtime", "power_limit_ratio", "idle_util",
    "fingerprint_stable", "claim_consistency">>
Checks == {CheckOrder[i] : i \in DOMAIN CheckOrder}
Advisory == {"power_limit_ratio", "idle_util"}
HostChecks == Checks \ {"gpu_uuid_unique", "fingerprint_stable"}

ASSUME ProbeAssumption ==
    /\ \A h \in Hosts : h.bad \subseteq HostChecks /\ h.takes \in [Command -> Nat]
    /\ Keys \subseteq KeyRef /\ Endpoints \subseteq Nodes
    /\ Modes \subseteq {"full", "quick"} /\ RequireDocker \in BOOLEAN
    /\ Attachments \subseteq [status : {"passed", "failed", "error"}, uuids : SUBSET Gpus]
    /\ NoEvidence \notin Nat /\ NoNode \notin Nodes

VARIABLES
    machine,   \* the GPUs that the host at a node's SSH endpoint has
    changes,   \* how many moves and registrations there were
    inventory, \* the probe fields of nodes.inventory_json
    evidence,  \* gpu_host_evidence, in the order of the commits
    clock,     \* started_at and finished_at of a probe
    request,   \* what each request under way has read
    claimed,   \* history: nodes whose list of GPUs a client wrote, and no evidence since
    mixed      \* history: nodes with evidence attached, or probes that raced

vars == <<machine, changes, inventory, evidence, clock, request, claimed, mixed>>

Status == {"passed", "failed", "error"}
Label == {"none", "verified", "failed", "error"}
Inventory == [label : Label, id : Nat \cup {NoEvidence}, uuids : SUBSET Gpus]
Blank == [label |-> "none", id |-> NoEvidence, uuids |-> {}]
ASSUME ClaimsAssumption == Claims \subseteq Inventory
Evidence == [node : Nodes, status : Status, failure : Checks \cup {"none"},
             uuids : SUBSET Gpus, finished : Nat, source : {"probe", "external"}]

\* pc, the node, the GPUs that its row listed when it was read, the mode, the GPUs
\* of its last passed evidence, those that other nodes list, and the new evidence.
NoFinding == [status |-> "none", failure |-> "none", uuids |-> {}, finished |-> 0, source |-> "probe", took |-> 0]
Idle == [pc |-> "idle", node |-> NoNode, seen |-> {}, mode |-> "full",
         prior |-> {}, occupied |-> {}, found |-> NoFinding]
At(r, pc) == request[r].pc = pc
Probing == {"prior", "occupied", "run", "commit"}

Init ==
    /\ machine \in [Nodes -> SUBSET Gpus]
    /\ changes = 0
    /\ inventory = [n \in Nodes |-> Blank]
    /\ evidence = <<>>
    /\ clock = 0
    /\ request = [r \in Requests |-> Idle]
    /\ claimed = {}
    /\ mixed = {}

Respond(r) == request' = [request EXCEPT ![r] = Idle]
Go(r, q) == request' = [request EXCEPT ![r] = q]

\* GPUs are moved to another host, or a host is rented out twice.
Move(n, S) ==
    /\ changes < MaxChanges
    /\ machine' = [machine EXCEPT ![n] = S]
    /\ changes' = changes + 1
    /\ UNCHANGED <<inventory, evidence, clock, request, claimed, mixed>>
-----------------------------------------------------------------------------
\* register_node with an inventory: the column is what the client sent, a label,
\* an evidence id and GPUs included, invented or read back from
\* GET /v1/nodes/{id}.  A registration without inventory leaves it alone.
Register(n, v) ==
    /\ changes < MaxChanges
    /\ inventory' = [inventory EXCEPT ![n] = v]
    /\ claimed' = claimed \cup {n}
    /\ changes' = changes + 1
    /\ UNCHANGED <<machine, evidence, clock, request, mixed>>
-----------------------------------------------------------------------------
\* probe_status_label
LabelOf(status) ==
    CASE status = "passed" -> "verified"
      [] status = "error"  -> "error"
      [] OTHER              -> "failed"

\* Mutant of Merged: the GPUs are those of before.
MergedKeepUuids(listed, f, id) == [label |-> LabelOf(f.status), id |-> id, uuids |-> listed]

\* merge_probe_into_inventory: GPUs that were measured are listed even if the
\* probe failed.
Measures(f) == f.status = "passed" \/ f.uuids # {}
Merged(listed, f, id) ==
    [label |-> LabelOf(f.status), id |-> id, uuids |-> IF Measures(f) THEN f.uuids ELSE listed]

\* persist_evidence: the row, and the inventory of the node as it was when the
\* request read it (the session gives back the object it has), in one commit.
Persist(r) ==
    LET q == request[r]
        id == Len(evidence) + 1
    IN  /\ At(r, "commit")
        /\ id <= MaxEvidence
        /\ evidence' = Append(evidence,
               [node |-> q.node, status |-> q.found.status, failure |-> q.found.failure,
                uuids |-> q.found.uuids, finished |-> q.found.finished, source |-> q.found.source])
        /\ inventory' = [inventory EXCEPT ![q.node] = Merged(q.seen, q.found, id)]
        /\ claimed' = IF Measures(q.found) THEN claimed \ {q.node} ELSE claimed
        /\ Respond(r)
        /\ UNCHANGED <<machine, changes, clock, mixed>>
-----------------------------------------------------------------------------
Overlaps(r, n) == {p \in Requests \ {r} : ~At(p, "idle") /\ request[p].node = n}

\* run_node_gpu_probe, after the checks of the body and of the owner: the node
\* row, ...
ProbeNode(r, n, mode) ==
    /\ At(r, "idle")
    /\ Len(evidence) < MaxEvidence
    /\ Go(r, [Idle EXCEPT !.pc = "prior", !.node = n, !.seen = inventory[n].uuids, !.mode = mode])
    /\ mixed' = IF Overlaps(r, n) # {} THEN mixed \cup {n} ELSE mixed
    /\ UNCHANGED <<machine, changes, inventory, evidence, clock, claimed>>

PassedOf(n) == {i \in DOMAIN evidence : evidence[i].node = n /\ evidence[i].status = "passed"}

\* ... the GPUs of its newest passed evidence ({} if there is none), ...
LastPassed(n) ==
    IF PassedOf(n) = {} THEN {}
    ELSE evidence[CHOOSE i \in PassedOf(n) :
                    \A j \in PassedOf(n) : evidence[j].finished <= evidence[i].finished].uuids

ProbePrior(r) ==
    /\ At(r, "prior")
    /\ Go(r, [request[r] EXCEPT !.pc = "occupied", !.prior = LastPassed(request[r].node)])
    /\ UNCHANGED <<machine, changes, inventory, evidence, clock, claimed, mixed>>

\* Mutant of Occupied: the filter is the wrong way round.
OccupiedUnverified(n) ==
    UNION {inventory[m].uuids : m \in {k \in Nodes \ {n} : inventory[k].label # "verified"}}

\* ... and those that any other node lists, verified or not, alive or not.
Occupied(n) == UNION {inventory[m].uuids : m \in Nodes \ {n}}

\* The probes of other nodes that have read, or are about to commit, too.
Racing(r) == {p \in Requests \ {r} : request[p].pc \in {"run", "commit"}}

ProbeOccupied(r) ==
    LET q == request[r]
    IN  /\ At(r, "occupied")
        /\ Go(r, [q EXCEPT !.pc = "run", !.occupied = Occupied(q.node)])
        /\ mixed' = IF Racing(r) = {} THEN mixed
                    ELSE mixed \cup {q.node} \cup {request[p].node : p \in Racing(r)}
        /\ UNCHANGED <<machine, changes, inventory, evidence, clock, claimed>>

\* No transport: no file for the key, or no host.
ProbeRefused(r, key) ==
    /\ At(r, "run")
    /\ ~Resolves(request[r].node \in Endpoints, key)
    /\ Respond(r)
    /\ UNCHANGED <<machine, changes, inventory, evidence, clock, claimed, mixed>>

\* Mutant of Fatal: churn of the GPUs is advisory.
FatalButFingerprint(c) ==
    c \notin Advisory \cup {"fingerprint_stable"} /\ (c = "docker_runtime" => RequireDocker)

\* _is_fatal; the fingerprint is only checked where it is.
Fatal(c) == c \notin Advisory /\ (c = "docker_runtime" => RequireDocker)

\* What a probe asks for, one command after the other; docker_gpu_smi only
\* enriches what docker_info said.
Session(host, mode) ==
    LET listed  == Run(Connect(Fresh, host), "nvidia_smi_list", host)
        queried == Run(listed, "nvidia_smi_query", host)
        benched == IF mode = "full" THEN Run(queried, "cuda_microbench", host) ELSE queried
        docker  == Run(benched, "docker_info", host)
    IN  IF "docker_runtime" \in host.bad THEN docker ELSE Run(docker, "docker_gpu_smi", host)

\* The checks that read a command's output fail with the command: without the
\* query no GPU has a memory size or a driver.
Reads(c) ==
    CASE c = "nvidia_smi_list" -> {"nvidia_smi_list"}
      [] c \in {"vram_window", "driver_present"} -> {"nvidia_smi_query"}
      [] c = "cuda_microbench" -> {"cuda_microbench"}
      [] c = "docker_runtime"  -> {"docker_info"}
      [] OTHER -> {}
Unanswered(c, session) == ~(Reads(c) \subseteq session.answered)

\* The other checks fail as the host answers, or by what is known of its GPUs.
Reported(c, host, session) == c \in host.bad \/ Unanswered(c, session)
NoGpus(S, host, session) == Reported("nvidia_smi_list", host, session) \/ S = {}
CountOutOfRange(S, host) == "gpu_count" \in host.bad \/ Cardinality(S) > MaxGpus
Taken(S, occupied) == S \cap occupied # {}
BenchFails(host, session, mode) == mode = "full" /\ Reported("cuda_microbench", host, session)
Churned(S, prior) == prior # {} /\ prior # S

\* Does check c fail, on a host with GPUs S?
Fails(c, S, host, session, q) ==
    CASE c = "ssh_connect"        -> ~session.connected
      [] c = "nvidia_smi_list"    -> NoGpus(S, host, session)
      [] c = "gpu_count"          -> CountOutOfRange(S, host)
      [] c = "gpu_uuid_unique"    -> Taken(S, q.occupied)
      [] c = "cuda_microbench"    -> BenchFails(host, session, q.mode)
      [] c = "fingerprint_stable" -> Churned(S, q.prior)
      [] OTHER                    -> Reported(c, host, session)

Stops(S, host, session, q) ==
    {i \in DOMAIN CheckOrder :
        Fatal(CheckOrder[i]) /\ Fails(CheckOrder[i], S, host, session, q)}

\* run_gpu_probe: the checks in their order up to the first fatal one to fail.
\* The service does nothing else while it lasts.
Finding(S, host, q, now) ==
    LET session == Session(host, q.mode)
        stops == Stops(S, host, session, q)
        failure == IF stops = {} THEN "none"
                   ELSE CheckOrder[CHOOSE i \in stops : \A j \in stops : i <= j]
    IN  [status |-> IF stops = {} THEN "passed"
                    ELSE IF failure = "ssh_connect" /\ "ssh_connect" \in session.late THEN "error"
                    ELSE "failed",
         failure |-> failure,
         uuids |-> IF failure \in {"ssh_connect", "nvidia_smi_list"} THEN {} ELSE S,
         finished |-> now, source |-> "probe", took |-> session.elapsed]

ProbeRun(r, host, key) ==
    LET q == request[r]
    IN  /\ At(r, "run")
        /\ Resolves(q.node \in Endpoints, key)
        /\ clock < MaxEvidence
        /\ clock' = clock + 1
        /\ Go(r, [Idle EXCEPT !.pc = "commit", !.node = q.node, !.seen = q.seen,
                              !.found = Finding(machine[q.node], host, q, clock')])
        /\ UNCHANGED <<machine, changes, inventory, evidence, claimed, mixed>>

\* attach_external_evidence: a finding with a digest that fits is taken over as
\* it is, and no other node's GPUs are looked at.
Attach(r, n, a) ==
    /\ At(r, "idle")
    /\ Len(evidence) < MaxEvidence /\ clock < MaxEvidence
    /\ clock' = clock + 1
    /\ Go(r, [Idle EXCEPT !.pc = "commit", !.node = n, !.seen = inventory[n].uuids,
                          !.found = [status |-> a.status, failure |-> "none", uuids |-> a.uuids,
                                     finished |-> clock', source |-> "external", took |-> 0]])
    /\ mixed' = mixed \cup {n}
    /\ UNCHANGED <<machine, changes, inventory, evidence, claimed>>

\* The client goes, or the process does: nothing was written.
Abort(r) ==
    /\ ~At(r, "idle")
    /\ Respond(r)
    /\ UNCHANGED <<machine, changes, inventory, evidence, clock, claimed, mixed>>
-----------------------------------------------------------------------------
Next ==
    \/ \E n \in Nodes : \/ \E v \in Claims : Register(n, v)
                        \/ \E S \in SUBSET Gpus : Move(n, S)
    \/ \E r \in Requests :
         \/ \E n \in Nodes : \/ \E mode \in Modes : ProbeNode(r, n, mode)
                             \/ \E a \in Attachments : Attach(r, n, a)
         \/ ProbePrior(r) \/ ProbeOccupied(r)
         \/ \E key \in Keys : ProbeRefused(r, key) \/ \E host \in Hosts : ProbeRun(r, host, key)
         \/ Persist(r) \/ Abort(r)

Spec == Init /\ [][Next]_vars
-----------------------------------------------------------------------------
\* The rows are ones the tables can hold, requests stand where they can.
TypeOK ==
    /\ machine \in [Nodes -> SUBSET Gpus]
    /\ changes \in Nat /\ clock \in Nat
    /\ inventory \in [Nodes -> Inventory]
    /\ evidence \in Seq(Evidence)
    /\ \A r \in Requests : /\ request[r].node \in Nodes \cup {NoNode}
                           /\ request[r].seen \subseteq Gpus
                           /\ At(r, "commit") => request[r].found.status \in Status
    /\ claimed \subseteq Nodes /\ mixed \subseteq Nodes

\* "Register alone never invents ``verified`` silicon status - only probe
\* evidence merge (or external attach) stamps measured inventory fields"
\* (node_to_public): a node that shows as verified names a passed evidence of
\* its own, with exactly the GPUs that it lists.
VerifiedByEvidence ==
    \A n \in Nodes : inventory[n].label = "verified" =>
        /\ inventory[n].id \in PassedOf(n)
        /\ evidence[inventory[n].id].uuids = inventory[n].uuids

RowsOf(n) == {i \in DOMAIN evidence : evidence[i].node = n}
MeasuredOf(n) == {i \in RowsOf(n) : Measures(evidence[i])}
Latest(i, S) == i \in S /\ \A j \in S : j <= i

\* The label is that of the newest row, and a pass lists the GPUs of that row.
LabelShown(n) ==
    LET v == inventory[n]
    IN  IF RowsOf(n) = {} THEN v = Blank
        ELSE /\ Latest(v.id, RowsOf(n))
             /\ v.label = LabelOf(evidence[v.id].status)
             /\ v.label = "verified" => v.uuids = evidence[v.id].uuids

\* The GPUs are those of the newest row that measured any.
GpusShown(n) ==
    /\ MeasuredOf(n) = {} => inventory[n].uuids = {}
    /\ \A i \in MeasuredOf(n) :
          Latest(i, MeasuredOf(n)) => inventory[n].uuids = evidence[i].uuids

\* What the evidence says of a node is what the node shows, whatever interleaves,
\* from the first evidence that measured its GPUs on until a client registers an
\* inventory again; the GPUs only if its probes do not race.
ShownAsFound ==
    /\ \A n \in Nodes \ claimed : LabelShown(n)
    /\ \A n \in Nodes \ (claimed \cup mixed) : GpusShown(n)

\* No GPU is verified on two nodes, if each got its inventory from probes that
\* did not race with another, none attached and none written by a client.
OneHome ==
    \A m, n \in Nodes \ (claimed \cup mixed) :
        /\ m # n
        /\ inventory[m].label = "verified"
        /\ inventory[n].label = "verified"
        => inventory[m].uuids \cap inventory[n].uuids = {}

\* "Fingerprint churn; re-admit required": a node passes its probes with the
\* same GPUs every time, unless evidence was attached or its probes raced.
FingerprintStable ==
    \A n \in Nodes \ mixed : \A i, j \in PassedOf(n) :
        evidence[i].source = "probe" /\ evidence[j].source = "probe" =>
            evidence[i].uuids = evidence[j].uuids

\* "Per-command + wall-budget timeouts" (ssh_exec.py): whatever the host does to
\* its answers, a probe holds up the service no longer than the wall budget.
BoundedStall == \A r \in Requests : request[r].found.took <= WallBudget

\* The same from the host's side: its command is cut off only if it took longer
\* than its timeout, or if the budget is used up.
CutOffInTurn ==
    \A host \in Hosts, mode \in Modes :
        LET session == Session(host, mode)
        IN  \A c \in session.late :
                host.takes[c] > TimeoutOf(c) \/ session.elapsed = WallBudget
=============================================================================
