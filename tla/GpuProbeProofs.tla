--------------------------- MODULE GpuProbeProofs ---------------------------
(***************************************************************************)
(* Proofs about GpuProbe, for any nodes, GPUs, hosts, keys and number of    *)
(* requests.  What a request has read is stale by the time it commits; the  *)
(* invariants say what stays true of it, and that the histories `claimed`   *)
(* and `mixed` name every node for which it need not.                       *)
(***************************************************************************)
EXTENDS GpuProbe, FiniteSetTheorems, WellFoundedInduction, TLAPS

Found == [status : Status \cup {"none"}, failure : Checks \cup {"none"}, uuids : SUBSET Gpus,
          finished : Nat, source : {"probe", "external"}, took : Nat]
Request == [pc : Probing \cup {"idle"}, node : Nodes \cup {NoNode},
            seen : SUBSET Gpus, mode : {"full", "quick"}, prior : SUBSET Gpus,
            occupied : SUBSET Gpus, found : Found]

\* What a request keeps: it is about a node, and commits a finding that lasted
\* no longer than the wall budget.
Formed ==
    /\ request \in [Requests -> Request]
    /\ \A r \in Requests :
          /\ ~At(r, "idle") => request[r].node \in Nodes
          /\ At(r, "commit") => request[r].found.status \in Status
          /\ request[r].found.took <= WallBudget

Probes(r, n) == request[r].pc \in Probing /\ request[r].node = n

\* Two probes of a node at a time are known to the history.
Alone ==
    \A p, r \in Requests : \A n \in Nodes :
        p # r /\ Probes(p, n) /\ Probes(r, n) => n \in mixed

\* The label of a node that no client wrote since is that of its newest row.
Labelled == \A n \in Nodes \ claimed : LabelShown(n)

\* A lone probe of such a node has read the list that the node still has, which
\* is that of the newest row that measured any GPUs.
Listed ==
    /\ \A n \in Nodes \ (claimed \cup mixed) : GpusShown(n)
    /\ \A r \in Requests : \A n \in Nodes \ (claimed \cup mixed) :
          Probes(r, n) => request[r].seen = inventory[n].uuids

\* The same GPUs in all passed evidence of a node, and in what is compared to it.
Agrees(n, S) == \A i \in PassedOf(n) : evidence[i].uuids = S
Steady ==
    /\ \A n \in Nodes \ mixed : \A i \in PassedOf(n) :
          evidence[i].uuids # {} /\ Agrees(n, evidence[i].uuids)
    /\ \A r \in Requests : request[r].node \in Nodes \ mixed =>
          /\ request[r].pc \in {"occupied", "run"} =>
                PassedOf(request[r].node) = {} \/ Agrees(request[r].node, request[r].prior)
          /\ At(r, "commit") /\ request[r].found.status = "passed" =>
                /\ request[r].found.uuids # {}
                /\ Agrees(request[r].node, request[r].found.uuids)

\* The GPUs that a node is verified with by evidence.
Holds(m) == IF m \notin claimed /\ inventory[m].label = "verified" THEN inventory[m].uuids ELSE {}

\* Of two probes that have looked at the other nodes' GPUs, the history knows
\* one; what one alone has seen, or found, is still so when it commits.
Apart ==
    /\ \A p, r \in Requests :
          p # r /\ request[p].pc \in {"run", "commit"} /\ request[r].pc \in {"run", "commit"}
          => request[p].node \in mixed \/ request[r].node \in mixed
    /\ \A r \in Requests, m \in Nodes \ mixed :
          request[r].node \in Nodes \ (mixed \cup {m}) =>
          /\ At(r, "run") => Holds(m) \subseteq request[r].occupied
          /\ At(r, "commit") /\ request[r].found.status = "passed" =>
                Holds(m) \cap request[r].found.uuids = {}
    /\ \A m, n \in Nodes \ mixed : m # n => Holds(m) \cap Holds(n) = {}

Inv == TypeOK /\ Formed /\ Labelled /\ Alone /\ Listed /\ Steady /\ Apart
-----------------------------------------------------------------------------
(* The session. *)

Within(s) ==
    /\ s \in [elapsed : Nat, spent : Nat, connected : BOOLEAN,
              answered : SUBSET Command, late : SUBSET Command]
    /\ s.spent = s.elapsed /\ s.elapsed <= WallBudget

\* A command is cut off when the budget is used up (_remaining_wall).
LEMMA InvokeWithin ==
  ASSUME NEW host \in Hosts, NEW c \in Command, NEW s, Within(s)
  PROVE  Within(Invoke(s, c, host))
<1>1. host.takes[c] \in Nat /\ WallBudget \in Nat /\ TimeoutOf(c) \in Nat
  <2>1. host.takes[c] \in Nat
    BY ProbeAssumption
  <2>2. c # "ssh_connect" => Timeout[c] \in Nat
    BY DEF Command, Timeout
  <2> QED BY <2>1, <2>2, SshAssumption DEF TimeoutOf
<1>2. Remaining(s) \in Int /\ Remaining(s) <= WallBudget - s.elapsed
  BY <1>1 DEF Remaining, Within
<1>3. Remaining(s) > 0 => Runs(s, c, host) \in Nat /\ Runs(s, c, host) <= Remaining(s)
  BY <1>1, <1>2 DEF Runs, Limit
<1> DEFINE time == IF Remaining(s) > 0 THEN Runs(s, c, host) ELSE 0
           answered == Remaining(s) > 0 /\ InTime(s, c, host)
<1>4. time \in Nat /\ s.elapsed + time <= WallBudget
  BY <1>1, <1>2, <1>3 DEF Within
<1>5. Invoke(s, c, host) =
        [s EXCEPT !.elapsed = @ + time, !.spent = @ + time,
                  !.answered = IF answered THEN @ \cup {c} ELSE @,
                  !.late = IF answered THEN @ ELSE @ \cup {c}]
  BY DEF Invoke
<1> DEFINE t == Invoke(s, c, host)
<1> HIDE DEF time, answered, t
<1>6. /\ t \in [elapsed : Nat, spent : Nat, connected : BOOLEAN,
                 answered : SUBSET Command, late : SUBSET Command]
      /\ t.elapsed = s.elapsed + time /\ t.spent = s.spent + time
  <2>1. time \in Nat /\ s \in [elapsed : Nat, spent : Nat, connected : BOOLEAN,
                               answered : SUBSET Command, late : SUBSET Command]
    BY <1>4 DEF Within
  <2>2. s.elapsed + time \in Nat /\ s.spent + time \in Nat
    BY <2>1
  <2>3. (IF answered THEN s.answered \cup {c} ELSE s.answered) \in SUBSET Command
        /\ (IF answered THEN s.late ELSE s.late \cup {c}) \in SUBSET Command
    BY <2>1
  <2> QED BY <1>5, <2>1, <2>2, <2>3 DEF t
<1>7. Within(t)
  BY <1>4, <1>6 DEF Within
<1> QED BY <1>7 DEF t

LEMMA RunWithin ==
  ASSUME NEW host \in Hosts, NEW c, NEW s, Within(s)
  PROVE  Within(Run(s, c, host))
BY InvokeWithin DEF Run

\* All commands of a probe together stay within the budget.
LEMMA SessionWithin ==
  ASSUME NEW host \in Hosts, NEW mode
  PROVE  Within(Session(host, mode))
<1> DEFINE listed  == Run(Connect(Fresh, host), "nvidia_smi_list", host)
           queried == Run(listed, "nvidia_smi_query", host)
           benched == IF mode = "full" THEN Run(queried, "cuda_microbench", host) ELSE queried
           docker  == Run(benched, "docker_info", host)
<1>1. Within(Fresh)
  BY SshAssumption DEF Within, Fresh
<1>2. Within(Invoke(Fresh, "ssh_connect", host))
  BY <1>1, InvokeWithin DEF Command
<1>3. Within(Connect(Fresh, host))
  BY <1>2 DEF Connect, Within
<1>4. Within(listed)
  BY <1>3, RunWithin
<1>5. Within(queried)
  BY <1>4, RunWithin
<1>6. Within(benched)
  BY <1>5, RunWithin
<1>7. Within(docker)
  BY <1>6, RunWithin
<1> HIDE DEF docker
<1>8. Within(IF "docker_runtime" \in host.bad THEN docker ELSE Run(docker, "docker_gpu_smi", host))
  BY <1>7, RunWithin
<1> QED BY <1>8 DEF Session, docker
-----------------------------------------------------------------------------
(* The finding. *)

\* There is a first check among those that stop a probe.
LEMMA FirstStop ==
  ASSUME NEW S \in SUBSET Nat, S # {}
  PROVE  \E i \in S : \A j \in S : i <= j
<1> DEFINE R == OpToRel(<, Nat)
<1>1. IsWellFoundedOn(R, Nat)
  BY NatLessThanWellFounded
<1>2. PICK i \in S : \A j \in S : ~(<<j, i>> \in R)
  <2> HIDE DEF R
  <2> QED BY <1>1, WFMin
<1>3. ASSUME NEW j \in S PROVE i <= j
  <2>1. ~(j < i)
    BY <1>2 DEF OpToRel
  <2>2. i \in Nat /\ j \in Nat
    OBVIOUS
  <2> QED BY <2>1, <2>2
<1> QED BY <1>3

\* A probe passes only if no other node lists a GPU that it found, and if it
\* found the GPUs of the last passed evidence (run_gpu_probe, checks 6 and 13).
LEMMA PassedFinding ==
  ASSUME NEW S \in SUBSET Gpus, NEW host \in Hosts, NEW q \in Request, NEW now \in Nat
  PROVE  LET f == Finding(S, host, q, now)
         IN  /\ f \in Found /\ f.status \in Status /\ f.took <= WallBudget
             /\ f.status = "passed" =>
                  /\ f.uuids = S /\ S # {}
                  /\ S \cap q.occupied = {}
                  /\ q.prior = {} \/ q.prior = S
<1> DEFINE session == Session(host, q.mode)
           stops == Stops(S, host, session, q)
           failure == IF stops = {} THEN "none"
                      ELSE CheckOrder[CHOOSE i \in stops : \A j \in stops : i <= j]
           f == Finding(S, host, q, now)
<1>1. Within(session)
  BY SessionWithin
<1>2. failure \in Checks \cup {"none"}
  <2>1. stops \subseteq DOMAIN CheckOrder /\ DOMAIN CheckOrder \subseteq Nat
    BY DEF Stops, CheckOrder
  <2>2. ASSUME stops # {}
        PROVE  (CHOOSE i \in stops : \A j \in stops : i <= j) \in stops
    <3> HIDE DEF stops
    <3>1. \E i \in stops : \A j \in stops : i <= j
      BY <2>1, <2>2, FirstStop
    <3> QED BY <3>1
  <2> HIDE DEF stops
  <2> QED BY <2>1, <2>2 DEF Checks
<1>3. ASSUME stops = {}
      PROVE  S # {} /\ S \cap q.occupied = {} /\ (q.prior = {} \/ q.prior = S)
  <2>1. \A i \in 1..14 : Fatal(CheckOrder[i]) => ~Fails(CheckOrder[i], S, host, session, q)
    BY <1>3 DEF Stops, CheckOrder
  <2>2. ~NoGpus(S, host, session)
    BY <2>1 DEF CheckOrder, Fatal, Fails, Advisory
  <2>3. ~Taken(S, q.occupied)
    BY <2>1 DEF CheckOrder, Fatal, Fails, Advisory
  <2>4. ~Churned(S, q.prior)
    BY <2>1 DEF CheckOrder, Fatal, Fails, Advisory
  <2> QED BY <2>2, <2>3, <2>4 DEF NoGpus, Taken, Churned
<1>4. f = [status |-> IF stops = {} THEN "passed"
                      ELSE IF failure = "ssh_connect" /\ "ssh_connect" \in session.late THEN "error"
                      ELSE "failed",
           failure |-> failure,
           uuids |-> IF failure \in {"ssh_connect", "nvidia_smi_list"} THEN {} ELSE S,
           finished |-> now, source |-> "probe", took |-> session.elapsed]
  BY DEF Finding
<1>5. stops = {} => failure = "none"
  OBVIOUS
<1> HIDE DEF session, stops, failure, f
<1>6. session.elapsed \in Nat /\ session.elapsed <= WallBudget
  BY <1>1 DEF Within
<1>7. f \in Found /\ f.status \in Status /\ f.took <= WallBudget
  BY <1>2, <1>4, <1>6 DEF Found, Status
<1>8. f.status = "passed" => stops = {} /\ f.uuids = S
  BY <1>4, <1>5
<1> QED BY <1>3, <1>7, <1>8 DEF f
-----------------------------------------------------------------------------
(* The newest passed evidence. *)

LEMMA GreatestExists ==
  ASSUME NEW S, IsFiniteSet(S), S # {}, NEW time \in [S -> Nat]
  PROVE  \E x \in S : \A y \in S : time[y] <= time[x]
<1> DEFINE Above(x) == {y \in S : time[x] < time[y]}
           T == {Above(x) : x \in S}
           R == StrictSubsetOrdering(S)
<1>1. IsWellFoundedOn(R, SUBSET S)
  BY FS_FiniteSubsetsOfFinite, FS_StrictSubsetOrderingWellFounded
<1>2. T \subseteq SUBSET S /\ T # {}
  <2>1. PICK x \in S : TRUE
    OBVIOUS
  <2>2. Above(x) \in T
    OBVIOUS
  <2> QED BY <2>2
<1>3. PICK t \in T : \A y \in T : ~(<<y, t>> \in R)
  <2> HIDE DEF T, R
  <2> QED BY <1>1, <1>2, WFMin
<1>4. PICK x \in S : t = Above(x)
  BY <1>3
<1>5. \A z \in S : time[z] \in Int
  OBVIOUS
<1>6. ASSUME NEW y \in S, time[x] < time[y]
      PROVE  FALSE
  <2>1. Above(y) \subseteq Above(x) /\ y \in Above(x) /\ y \notin Above(y)
    <3>1. \A z \in S : time[y] < time[z] => time[x] < time[z]
      BY <1>5, <1>6
    <3>2. ~(time[y] < time[y])
      BY <1>5
    <3> QED BY <1>6, <3>1, <3>2
  <2>2. <<Above(y), Above(x)>> \in R
    BY <2>1 DEF StrictSubsetOrdering
  <2> QED BY <1>3, <1>4, <2>2
<1>7. \A y \in S : time[y] <= time[x]
  BY <1>5, <1>6
<1> QED BY <1>7

\* The rows that a node passed with, and the types of their fields.
LEMMA PassedRows ==
  ASSUME TypeOK, NEW n
  PROVE  /\ PassedOf(n) \subseteq 1..Len(evidence) /\ Len(evidence) \in Nat
         /\ \A i \in PassedOf(n) : /\ evidence[i] \in Evidence
                                   /\ evidence[i].finished \in Nat
                                   /\ evidence[i].uuids \subseteq Gpus
<1>1. evidence \in Seq(Evidence)
  BY DEF TypeOK
<1>2. DOMAIN evidence = 1..Len(evidence) /\ Len(evidence) \in Nat
  BY <1>1
<1>3. PassedOf(n) \subseteq 1..Len(evidence)
  BY <1>2 DEF PassedOf
<1>4. ASSUME NEW i \in 1..Len(evidence)
      PROVE  /\ evidence[i] \in Evidence
             /\ evidence[i].finished \in Nat
             /\ evidence[i].uuids \subseteq Gpus
  <2>1. evidence[i] \in Evidence
    BY <1>1, <1>2
  <2> QED BY <2>1 DEF Evidence
<1> QED BY <1>2, <1>3, <1>4

\* What a probe compares its GPUs to (_prior_verified_uuids) are those of a
\* passed row, if there is one.
LEMMA PriorIsPassed ==
  ASSUME TypeOK, NEW n
  PROVE  IF PassedOf(n) = {} THEN LastPassed(n) = {}
         ELSE \E i \in PassedOf(n) : LastPassed(n) = evidence[i].uuids
<1>1. CASE PassedOf(n) = {}
  BY <1>1 DEF LastPassed
<1>2. CASE PassedOf(n) # {}
  <2> DEFINE P == PassedOf(n)
             time == [i \in P |-> evidence[i].finished]
  <2>1. IsFiniteSet(P)
    <3>1. IsFiniteSet(1..Len(evidence))
      BY PassedRows, FS_Interval
    <3> QED BY <3>1, PassedRows, FS_Subset
  <2>2. time \in [P -> Nat]
    BY PassedRows
  <2>3. PICK x \in P : \A y \in P : time[y] <= time[x]
    <3> HIDE DEF P, time
    <3>1. P # {}
      BY <1>2 DEF P
    <3> QED BY <2>1, <2>2, <3>1, GreatestExists
  <2>4. \E i \in P : \A j \in P : evidence[j].finished <= evidence[i].finished
    BY <2>3
  <2>5. (CHOOSE i \in P : \A j \in P : evidence[j].finished <= evidence[i].finished) \in P
    BY <2>4
  <2> QED BY <1>2, <2>5 DEF LastPassed
<1> QED BY <1>1, <1>2
-----------------------------------------------------------------------------
(* The types. *)

LEMMA TypeInit == Init => TypeOK /\ Formed
<1> SUFFICES ASSUME Init PROVE TypeOK /\ Formed
  OBVIOUS
<1>1. Blank \in Inventory /\ NoFinding \in Found /\ NoFinding.took <= WallBudget
  BY SshAssumption DEF Blank, Inventory, Label, NoFinding, Found
<1>2. Idle \in Request /\ Idle.pc = "idle" /\ Idle.found = NoFinding /\ Idle.seen = {}
      /\ Idle.node = NoNode
  BY <1>1 DEF Idle, Request
<1>3. request \in [Requests -> Request] /\ \A r \in Requests : request[r] = Idle
  BY <1>2 DEF Init
<1> QED BY <1>1, <1>2, <1>3 DEF Init, TypeOK, Formed, At

\* What requests are when one of them goes on.
FormedAs(q) ==
    /\ q \in Request
    /\ q.pc # "idle" => q.node \in Nodes
    /\ q.pc = "commit" => q.found.status \in Status
    /\ q.found.took <= WallBudget

LEMMA FormedGo ==
  ASSUME Formed, NEW r \in Requests, NEW q, FormedAs(q), Go(r, q)
  PROVE  /\ Formed'
         /\ \A p \in Requests : request'[p] = IF p = r THEN q ELSE request[p]
<1>1. \A p \in Requests : request'[p] = IF p = r THEN q ELSE request[p]
  BY DEF Go, Formed
<1>2. request' \in [Requests -> Request]
  BY DEF Go, Formed, FormedAs
<1> QED BY <1>1, <1>2 DEF Formed, FormedAs, At

LEMMA FormedRespond ==
  ASSUME NEW r \in Requests, Respond(r)
  PROVE  FormedAs(Idle) /\ Go(r, Idle)
<1>1. NoFinding \in Found /\ NoFinding.took <= WallBudget /\ Blank \in Inventory
  BY SshAssumption DEF NoFinding, Found, Blank, Inventory, Label
<1>2. Idle \in Request /\ Idle.pc = "idle" /\ Idle.found = NoFinding
  BY <1>1 DEF Idle, Request
<1> QED BY <1>1, <1>2 DEF FormedAs, Respond, Go

\* What a request is after it has read a node's row, ...
LEMMA FormedFirst ==
  ASSUME TypeOK, NEW n \in Nodes, NEW mode \in {"full", "quick"}
  PROVE  FormedAs([Idle EXCEPT !.pc = "prior", !.node = n, !.seen = inventory[n].uuids, !.mode = mode])
<1> DEFINE q == [Idle EXCEPT !.pc = "prior", !.node = n, !.seen = inventory[n].uuids, !.mode = mode]
<1>1. NoFinding \in Found /\ NoFinding.took <= WallBudget /\ inventory[n].uuids \in SUBSET Gpus
  BY SshAssumption DEF NoFinding, Found, TypeOK, Inventory
<1>2. q \in Request
  BY <1>1 DEF Idle, Request, Probing
<1>3. q.pc = "prior" /\ q.node = n /\ q.found = NoFinding
  BY DEF Idle
<1> QED BY <1>1, <1>2, <1>3 DEF FormedAs

\* ... and with a finding that it is going to commit.
LEMMA FormedCommit ==
  ASSUME NEW n \in Nodes, NEW v \in SUBSET Gpus, NEW f \in Found, f.status \in Status,
         f.took <= WallBudget
  PROVE  FormedAs([Idle EXCEPT !.pc = "commit", !.node = n, !.seen = v, !.found = f])
<1> DEFINE q == [Idle EXCEPT !.pc = "commit", !.node = n, !.seen = v, !.found = f]
<1>1. q \in Request
  BY DEF Idle, Request, Probing
<1>2. q.pc = "commit" /\ q.node = n /\ q.found = f
  BY DEF Idle
<1> QED BY <1>1, <1>2 DEF FormedAs

\* The fields of a request.
LEMMA RequestFields ==
  ASSUME Formed, NEW r \in Requests
  PROVE  /\ request[r] \in Request /\ request[r].seen \subseteq Gpus
         /\ request[r].found \in Found /\ request[r].node \in Nodes \cup {NoNode}
         /\ ~At(r, "idle") => request[r].node \in Nodes /\ request[r].pc \in Probing
         /\ request[r].found.took <= WallBudget
<1>1. request[r] \in Request
  BY DEF Formed
<1> QED BY <1>1 DEF Formed, Request, At

\* What every step does to one request at most, and what each leaves alone.
LEMMA TypeStep ==
  ASSUME TypeOK, Formed, [Next]_vars
  PROVE  TypeOK' /\ Formed'
<1> DEFINE Rest == /\ machine' \in [Nodes -> SUBSET Gpus] /\ changes' \in Nat /\ clock' \in Nat
                   /\ inventory' \in [Nodes -> Inventory] /\ evidence' \in Seq(Evidence)
                   /\ claimed' \subseteq Nodes /\ mixed' \subseteq Nodes
<1>a. ASSUME Rest, Formed'
      PROVE  TypeOK' /\ Formed'
  <2>1. \A r \in Requests : /\ request'[r].node \in Nodes \cup {NoNode}
                            /\ request'[r].seen \subseteq Gpus
    BY <1>a DEF Formed, Request
  <2> QED BY <1>a, <2>1 DEF TypeOK, Formed, At
<1>b. ASSUME NEW r \in Requests, NEW q, FormedAs(q), Go(r, q)
      PROVE  Formed'
  BY <1>b, FormedGo
<1>c. ASSUME NEW r \in Requests, Respond(r)
      PROVE  Formed'
  BY <1>b, <1>c, FormedRespond
<1>1. ASSUME NEW n \in Nodes, NEW S \in SUBSET Gpus, Move(n, S)
      PROVE  Rest /\ Formed'
  BY <1>1 DEF Move, TypeOK, Formed, At
<1>2. ASSUME NEW n \in Nodes, NEW v \in Claims, Register(n, v)
      PROVE  Rest /\ Formed'
  BY <1>2, ClaimsAssumption DEF Register, TypeOK, Formed, At
<1>4. ASSUME NEW r \in Requests, NEW n \in Nodes, NEW mode \in Modes, ProbeNode(r, n, mode)
      PROVE  Rest /\ Formed'
  <2>1. Rest
    BY <1>4 DEF ProbeNode, TypeOK
  <2>2. Go(r, [Idle EXCEPT !.pc = "prior", !.node = n, !.seen = inventory[n].uuids, !.mode = mode])
    BY <1>4 DEF ProbeNode
  <2> QED BY <1>b, <2>1, <2>2, FormedFirst, ProbeAssumption
<1>5. ASSUME NEW r \in Requests, NEW n \in Nodes, NEW a \in Attachments, Attach(r, n, a)
      PROVE  Rest /\ Formed'
  <2> DEFINE f == [status |-> a.status, failure |-> "none", uuids |-> a.uuids,
                   finished |-> clock', source |-> "external", took |-> 0]
  <2>1. Rest
    BY <1>5 DEF Attach, TypeOK
  <2>2. f \in Found /\ f.status \in Status /\ f.took <= WallBudget
    <3>1. a.status \in Status /\ a.uuids \in SUBSET Gpus
      BY ProbeAssumption DEF Status
    <3> QED BY <2>1, <3>1, SshAssumption DEF Found
  <2> HIDE DEF f
  <2>3. Go(r, [Idle EXCEPT !.pc = "commit", !.node = n, !.seen = inventory[n].uuids, !.found = f])
    BY <1>5 DEF Attach, f
  <2>4. inventory[n].uuids \in SUBSET Gpus
    BY DEF TypeOK, Inventory
  <2> QED BY <1>b, <2>1, <2>2, <2>3, <2>4, FormedCommit
<1>7. ASSUME NEW r \in Requests, ProbePrior(r)
      PROVE  Rest /\ Formed'
  <2> DEFINE q == [request[r] EXCEPT !.pc = "occupied", !.prior = LastPassed(request[r].node)]
  <2>1. Rest
    BY <1>7 DEF ProbePrior, TypeOK
  <2>2. LastPassed(request[r].node) \in SUBSET Gpus
    BY PriorIsPassed, PassedRows
  <2>3. FormedAs(q)
    <3>1. request[r] \in Request /\ request[r].node \in Nodes /\ request[r].found.took <= WallBudget
      BY <1>7, RequestFields DEF ProbePrior, At
    <3>2. q \in Request
      BY <2>2, <3>1 DEF Request, Probing
    <3>3. q.pc = "occupied" /\ q.node = request[r].node /\ q.found = request[r].found
      BY <3>1 DEF Request
    <3> QED BY <3>1, <3>2, <3>3 DEF FormedAs
  <2> QED BY <1>7, <1>b, <2>1, <2>3 DEF ProbePrior
<1>8. ASSUME NEW r \in Requests, ProbeOccupied(r)
      PROVE  Rest /\ Formed'
  <2> DEFINE q == [request[r] EXCEPT !.pc = "run", !.occupied = Occupied(request[r].node)]
  <2>1. request[r] \in Request /\ request[r].node \in Nodes /\ request[r].found.took <= WallBudget
    BY <1>8, RequestFields DEF ProbeOccupied, At
  <2>2. Rest
    <3>1. \A p \in Racing(r) : request[p].node \in Nodes
      BY RequestFields DEF Racing, At
    <3> QED BY <1>8, <2>1, <3>1 DEF ProbeOccupied, TypeOK
  <2>3. Occupied(request[r].node) \in SUBSET Gpus
    BY DEF Occupied, TypeOK, Inventory
  <2>4. FormedAs(q)
    <3>1. q \in Request
      BY <2>1, <2>3 DEF Request, Probing
    <3>2. q.pc = "run" /\ q.node = request[r].node /\ q.found = request[r].found
      BY <2>1 DEF Request
    <3> QED BY <2>1, <3>1, <3>2 DEF FormedAs
  <2> QED BY <1>8, <1>b, <2>2, <2>4 DEF ProbeOccupied
<1>9. ASSUME NEW r \in Requests, NEW host \in Hosts, NEW key \in Keys, ProbeRun(r, host, key)
      PROVE  Rest /\ Formed'
  <2> DEFINE q == request[r]
             f == Finding(machine[q.node], host, q, clock')
  <2>1. q \in Request /\ q.node \in Nodes /\ q.seen \in SUBSET Gpus
    BY <1>9, RequestFields DEF ProbeRun, At
  <2>2. Rest
    BY <1>9 DEF ProbeRun, TypeOK
  <2>3. f \in Found /\ f.status \in Status /\ f.took <= WallBudget
    <3>1. machine[q.node] \in SUBSET Gpus
      BY <2>1 DEF TypeOK
    <3> HIDE DEF q
    <3> QED BY <2>1, <2>2, <3>1, PassedFinding
  <2>4. Go(r, [Idle EXCEPT !.pc = "commit", !.node = q.node, !.seen = q.seen, !.found = f])
    BY <1>9 DEF ProbeRun
  <2> HIDE DEF q, f
  <2> QED BY <1>b, <2>1, <2>2, <2>3, <2>4, FormedCommit
<1>10. ASSUME NEW r \in Requests, Persist(r)
       PROVE  Rest /\ Formed'
  <2> DEFINE q == request[r]
             id == Len(evidence) + 1
             e == [node |-> q.node, status |-> q.found.status, failure |-> q.found.failure,
                   uuids |-> q.found.uuids, finished |-> q.found.finished, source |-> q.found.source]
             v == Merged(q.seen, q.found, id)
  <2>1. /\ q.node \in Nodes /\ q.seen \in SUBSET Gpus /\ q.found \in Found
        /\ q.found.status \in Status
    BY <1>10, RequestFields DEF Persist, At, Formed
  <2>2. id \in Nat
    BY DEF TypeOK
  <2>3. e \in Evidence
    BY <2>1 DEF Evidence, Found
  <2>4. v \in Inventory
    <3>1. LabelOf(q.found.status) \in Label
      BY DEF LabelOf, Label
    <3>2. q.found.uuids \in SUBSET Gpus
      BY <2>1 DEF Found
    <3> QED BY <2>1, <2>2, <3>1, <3>2 DEF Merged, Inventory
  <2>5. /\ evidence' = Append(evidence, e)
        /\ inventory' = [inventory EXCEPT ![q.node] = v]
        /\ claimed' = IF Measures(q.found) THEN claimed \ {q.node} ELSE claimed
        /\ UNCHANGED <<machine, changes, clock, mixed>> /\ Respond(r)
    BY <1>10 DEF Persist
  <2> HIDE DEF q, e, v
  <2>6. Rest
    BY <2>1, <2>3, <2>4, <2>5 DEF TypeOK
  <2> QED BY <1>c, <2>5, <2>6
<1>11. ASSUME NEW r \in Requests, Abort(r) \/ \E key \in Keys : ProbeRefused(r, key)
       PROVE  Rest /\ Formed'
  <2>1. Rest /\ Respond(r)
    BY <1>11 DEF Abort, ProbeRefused, TypeOK
  <2> QED BY <1>c, <2>1
<1>12. CASE UNCHANGED vars
  BY <1>12 DEF vars, TypeOK, Formed, At
<1> QED BY <1>a, <1>1, <1>2, <1>4, <1>5, <1>7, <1>8, <1>9, <1>10, <1>11, <1>12 DEF Next
-----------------------------------------------------------------------------
(* What a commit does. *)

\* The new row is the last one, and the inventory is the one that was merged.
LEMMA PersistFacts ==
  ASSUME TypeOK, Formed, NEW r \in Requests, Persist(r)
  PROVE  LET q == request[r]
             id == Len(evidence) + 1
         IN  /\ id \in Nat /\ id \notin DOMAIN evidence
             /\ DOMAIN evidence' = DOMAIN evidence \cup {id}
             /\ \A i \in DOMAIN evidence : evidence'[i] = evidence[i]
             /\ evidence'[id].node = q.node /\ evidence'[id].status = q.found.status
             /\ evidence'[id].uuids = q.found.uuids /\ evidence'[id].source = q.found.source
             /\ q.node \in Nodes /\ q.found.status \in Status
             /\ inventory' = [inventory EXCEPT ![q.node] = Merged(q.seen, q.found, id)]
             /\ claimed' = IF Measures(q.found) THEN claimed \ {q.node} ELSE claimed
             /\ mixed' = mixed /\ Respond(r)
<1> DEFINE q == request[r]
           id == Len(evidence) + 1
           e == [node |-> q.node, status |-> q.found.status, failure |-> q.found.failure,
                 uuids |-> q.found.uuids, finished |-> q.found.finished, source |-> q.found.source]
<1>1. /\ evidence' = Append(evidence, e)
      /\ inventory' = [inventory EXCEPT ![q.node] = Merged(q.seen, q.found, id)]
      /\ claimed' = IF Measures(q.found) THEN claimed \ {q.node} ELSE claimed
      /\ mixed' = mixed /\ Respond(r)
  BY DEF Persist
<1>2. q.node \in Nodes /\ q.found.status \in Status
  BY RequestFields DEF Persist, At, Formed
<1>3. /\ e.node = q.node /\ e.status = q.found.status /\ e.uuids = q.found.uuids
      /\ e.source = q.found.source
  OBVIOUS
<1> HIDE DEF e, q
<1>4. evidence \in Seq(Evidence) /\ evidence' \in Seq(Evidence)
  BY TypeStep DEF TypeOK, Next
<1>5. /\ Len(evidence) \in Nat /\ DOMAIN evidence = 1..Len(evidence)
      /\ Len(evidence') = id /\ DOMAIN evidence' = 1..Len(evidence')
  BY <1>1, <1>4
<1>6. evidence'[id] = e /\ \A i \in 1..Len(evidence) : evidence'[i] = evidence[i]
  BY <1>1, <1>4
<1>7. id \in Nat /\ id \notin DOMAIN evidence /\ DOMAIN evidence' = DOMAIN evidence \cup {id}
  BY <1>5
<1>8. \A i \in DOMAIN evidence : evidence'[i] = evidence[i]
  BY <1>5, <1>6
<1> QED BY <1>1, <1>2, <1>3, <1>6, <1>7, <1>8 DEF q

\* A node has passed once more, if its probe has.
LEMMA PersistPassed ==
  ASSUME TypeOK, Formed, NEW r \in Requests, Persist(r), NEW n \in Nodes
  PROVE  PassedOf(n)' = IF request[r].node = n /\ request[r].found.status = "passed"
                        THEN PassedOf(n) \cup {Len(evidence) + 1} ELSE PassedOf(n)
<1> DEFINE id == Len(evidence) + 1
<1>1. /\ id \notin DOMAIN evidence
      /\ DOMAIN evidence' = DOMAIN evidence \cup {id}
      /\ \A i \in DOMAIN evidence : evidence'[i] = evidence[i]
      /\ evidence'[id].node = request[r].node /\ evidence'[id].status = request[r].found.status
  BY PersistFacts
<1> HIDE DEF id
<1>2. PassedOf(n)' = {i \in DOMAIN evidence' : evidence'[i].node = n /\ evidence'[i].status = "passed"}
  BY DEF PassedOf
<1> QED BY <1>1, <1>2 DEF PassedOf, id

\* It has one more row, and one more that measured its GPUs, if its probe did.
LEMMA PersistRows ==
  ASSUME TypeOK, Formed, NEW r \in Requests, Persist(r), NEW n \in Nodes
  PROVE  LET q == request[r]
             id == Len(evidence) + 1
         IN  /\ RowsOf(n)' = IF q.node = n THEN RowsOf(n) \cup {id} ELSE RowsOf(n)
             /\ MeasuredOf(n)' = IF q.node = n /\ Measures(q.found)
                                 THEN MeasuredOf(n) \cup {id} ELSE MeasuredOf(n)
             /\ RowsOf(n) \subseteq 1..Len(evidence) /\ MeasuredOf(n) \subseteq RowsOf(n)
             /\ \A i \in RowsOf(n) : evidence'[i] = evidence[i]
<1> DEFINE q == request[r]
           id == Len(evidence) + 1
<1>1. /\ id \notin DOMAIN evidence
      /\ DOMAIN evidence' = DOMAIN evidence \cup {id}
      /\ \A i \in DOMAIN evidence : evidence'[i] = evidence[i]
      /\ evidence'[id].node = q.node /\ evidence'[id].status = q.found.status
      /\ evidence'[id].uuids = q.found.uuids
  BY PersistFacts
<1>2. DOMAIN evidence = 1..Len(evidence)
  BY DEF TypeOK
<1> HIDE DEF id, q
<1>3. RowsOf(n)' = {i \in DOMAIN evidence' : evidence'[i].node = n}
  BY DEF RowsOf
<1>4. RowsOf(n)' = IF q.node = n THEN RowsOf(n) \cup {id} ELSE RowsOf(n)
  BY <1>1, <1>3 DEF RowsOf
<1>5. MeasuredOf(n)' = {i \in RowsOf(n)' : evidence'[i].status = "passed" \/ evidence'[i].uuids # {}}
  BY DEF MeasuredOf, Measures
<1>6. MeasuredOf(n)' = IF q.node = n /\ Measures(q.found)
                      THEN MeasuredOf(n) \cup {id} ELSE MeasuredOf(n)
  BY <1>1, <1>4, <1>5 DEF MeasuredOf, Measures, RowsOf
<1> QED BY <1>1, <1>2, <1>4, <1>6 DEF RowsOf, MeasuredOf, id, q
-----------------------------------------------------------------------------
(* What a step does to a request. *)

Begins(p, n) ==
    /\ At(p, "idle") /\ request'[p].node = n /\ request'[p].seen = inventory[n].uuids
Continues(p) ==
    /\ request'[p].node = request[p].node /\ request'[p].seen = request[p].seen

LEMMA Goes ==
  ASSUME Formed, NEW r \in Requests, NEW q, Go(r, q)
  PROVE  request'[r] = q /\ \A p \in Requests \ {r} : request'[p] = request[p]
BY DEF Go, Formed

LEMMA ProbeNodeFacts ==
  ASSUME Formed, NEW r \in Requests, NEW n \in Nodes, NEW mode \in Modes, ProbeNode(r, n, mode)
  PROVE  /\ Begins(r, n) /\ request'[r].pc = "prior"
         /\ \A p \in Requests \ {r} : request'[p] = request[p]
<1> DEFINE q == [Idle EXCEPT !.pc = "prior", !.node = n, !.seen = inventory[n].uuids, !.mode = mode]
<1>1. q.pc = "prior" /\ q.node = n /\ q.seen = inventory[n].uuids
  BY DEF Idle
<1>2. Go(r, q) /\ At(r, "idle")
  BY DEF ProbeNode
<1> HIDE DEF q
<1> QED BY <1>1, <1>2, Goes DEF Begins

LEMMA AttachFacts ==
  ASSUME Formed, NEW r \in Requests, NEW n \in Nodes, NEW a \in Attachments, Attach(r, n, a)
  PROVE  /\ Begins(r, n) /\ request'[r].pc = "commit"
         /\ \A p \in Requests \ {r} : request'[p] = request[p]
<1> DEFINE f == [status |-> a.status, failure |-> "none", uuids |-> a.uuids,
                 finished |-> clock', source |-> "external", took |-> 0]
           q == [Idle EXCEPT !.pc = "commit", !.node = n, !.seen = inventory[n].uuids, !.found = f]
<1>1. Go(r, q) /\ At(r, "idle")
  BY DEF Attach
<1> HIDE DEF f
<1>2. q.pc = "commit" /\ q.node = n /\ q.seen = inventory[n].uuids
  BY DEF Idle
<1> HIDE DEF q
<1> QED BY <1>1, <1>2, Goes DEF Begins

LEMMA ProbePriorFacts ==
  ASSUME Formed, NEW r \in Requests, ProbePrior(r)
  PROVE  /\ Continues(r) /\ request'[r].pc = "occupied"
         /\ request'[r].prior = LastPassed(request[r].node)
         /\ \A p \in Requests \ {r} : request'[p] = request[p]
<1> DEFINE q == [request[r] EXCEPT !.pc = "occupied", !.prior = LastPassed(request[r].node)]
<1>1. /\ q.pc = "occupied" /\ q.prior = LastPassed(request[r].node)
      /\ q.node = request[r].node /\ q.seen = request[r].seen
  BY RequestFields DEF Request
<1>2. Go(r, q)
  BY DEF ProbePrior
<1> HIDE DEF q
<1> QED BY <1>1, <1>2, Goes DEF Continues

LEMMA ProbeOccupiedFacts ==
  ASSUME Formed, NEW r \in Requests, ProbeOccupied(r)
  PROVE  /\ Continues(r) /\ request'[r].pc = "run" /\ request'[r].prior = request[r].prior
         /\ request'[r].occupied = Occupied(request[r].node)
         /\ \A p \in Requests \ {r} : request'[p] = request[p]
<1> DEFINE q == [request[r] EXCEPT !.pc = "run", !.occupied = Occupied(request[r].node)]
<1>1. /\ q.pc = "run" /\ q.occupied = Occupied(request[r].node)
      /\ q.prior = request[r].prior
      /\ q.node = request[r].node /\ q.seen = request[r].seen
  BY RequestFields DEF Request
<1>2. Go(r, q)
  BY DEF ProbeOccupied
<1> HIDE DEF q
<1> QED BY <1>1, <1>2, Goes DEF Continues

\* The finding is of the GPUs that the host has now, but of an inventory,
\* of evidence and of other nodes as they were.
LEMMA ProbeRunFacts ==
  ASSUME TypeOK, Formed, NEW r \in Requests, NEW host \in Hosts, NEW key \in Keys,
         ProbeRun(r, host, key)
  PROVE  /\ Continues(r) /\ request'[r].pc = "commit"
         /\ request'[r].found.status = "passed" =>
              /\ request'[r].found.uuids # {}
              /\ request'[r].found.uuids \cap request[r].occupied = {}
              /\ request[r].prior = {} \/ request[r].prior = request'[r].found.uuids
         /\ \A p \in Requests \ {r} : request'[p] = request[p]
<1> DEFINE now == clock'
           seen == request[r]
           S == machine[seen.node]
           f == Finding(S, host, seen, now)
           q == [Idle EXCEPT !.pc = "commit", !.node = seen.node, !.seen = seen.seen, !.found = f]
<1>1. Go(r, q)
  BY DEF ProbeRun
<1>2. f.status = "passed" =>
        /\ f.uuids # {} /\ f.uuids \cap seen.occupied = {}
        /\ seen.prior = {} \/ seen.prior = f.uuids
  <2>1. now \in Nat /\ seen \in Request /\ S \in SUBSET Gpus
    BY RequestFields DEF ProbeRun, TypeOK, At
  <2> HIDE DEF now, seen, S, f
  <2>2. f.status = "passed" =>
          /\ f.uuids = S /\ S # {} /\ S \cap seen.occupied = {}
          /\ seen.prior = {} \/ seen.prior = S
    BY <2>1, PassedFinding DEF f
  <2> QED BY <2>2
<1> HIDE DEF f
<1>3. q.pc = "commit" /\ q.node = seen.node /\ q.seen = seen.seen /\ q.found = f
  BY DEF Idle
<1> HIDE DEF q
<1> QED BY <1>1, <1>2, <1>3, Goes DEF Continues

LEMMA RespondFacts ==
  ASSUME Formed, NEW r \in Requests, Respond(r)
  PROVE  /\ request'[r].pc = "idle" /\ request'[r].node = NoNode
         /\ \A p \in Requests \ {r} : request'[p] = request[p]
<1>1. Go(r, Idle) /\ Idle.pc = "idle" /\ Idle.node = NoNode
  BY FormedRespond DEF Idle
<1> QED BY <1>1, Goes

-----------------------------------------------------------------------------
(* The label of a node. *)

\* Only a client's registration, and a commit, change what a node shows.
LEMMA InventoryKept ==
  ASSUME TypeOK, Formed, [Next]_vars, NEW n \in Nodes, n \notin claimed',
         \A r \in Requests : Persist(r) => request[r].node # n
  PROVE  n \notin claimed /\ inventory'[n] = inventory[n]
<1>1. ASSUME NEW m \in Nodes, NEW v \in Claims, Register(m, v)
      PROVE  n \notin claimed /\ inventory'[n] = inventory[n]
  BY <1>1 DEF Register, TypeOK
<1>2. ASSUME NEW r \in Requests, Persist(r)
      PROVE  n \notin claimed /\ inventory'[n] = inventory[n]
  BY <1>2, PersistFacts DEF TypeOK
<1>3. CASE UNCHANGED <<inventory, claimed>>
  BY <1>3
<1> QED BY <1>1, <1>2, <1>3 DEF Next, vars, Move, ProbeNode, Attach, ProbePrior,
       ProbeOccupied, ProbeRefused, ProbeRun, Abort

\* The rows of a node that no commit is about are those that it had.
LEMMA RowsKept ==
  ASSUME TypeOK, Formed, [Next]_vars, NEW n \in Nodes,
         \A r \in Requests : Persist(r) => request[r].node # n
  PROVE  /\ RowsOf(n)' = RowsOf(n) /\ MeasuredOf(n)' = MeasuredOf(n)
         /\ \A i \in RowsOf(n) : evidence'[i] = evidence[i]
         /\ MeasuredOf(n) \subseteq RowsOf(n)
<1>1. CASE \E r \in Requests : Persist(r)
  BY <1>1, PersistRows
<1>2. CASE UNCHANGED evidence
  BY <1>2 DEF RowsOf, MeasuredOf, Measures
<1> QED BY <1>1, <1>2 DEF Next, vars, Move, Register, ProbeNode, Attach, ProbePrior,
       ProbeOccupied, ProbeRefused, ProbeRun, Abort

\* A commit is about the newest row, and gives the node its label.
LEMMA LabelledStep ==
  ASSUME TypeOK, Formed, Labelled, [Next]_vars
  PROVE  Labelled'
<1> SUFFICES ASSUME NEW n \in Nodes, n \notin claimed'
             PROVE  LabelShown(n)'
  BY DEF Labelled
<1>1. ASSUME NEW r \in Requests, Persist(r), request[r].node = n
      PROVE  LabelShown(n)'
  <2> DEFINE q == request[r]
             id == Len(evidence) + 1
             v == Merged(q.seen, q.found, id)
  <2>1. /\ inventory'[n] = v /\ evidence'[id].status = q.found.status
        /\ evidence'[id].uuids = q.found.uuids /\ id \in Nat
    BY <1>1, PersistFacts DEF TypeOK
  <2>2. /\ v.label = LabelOf(q.found.status) /\ v.id = id
        /\ v.label = "verified" => v.uuids = q.found.uuids
    BY DEF Merged, Measures, LabelOf
  <2>3. RowsOf(n)' = RowsOf(n) \cup {id} /\ RowsOf(n) \subseteq 1..Len(evidence)
    BY <1>1, PersistRows
  <2>4. \A j \in RowsOf(n)' : j <= id
    BY <2>1, <2>3
  <2> HIDE DEF q, id, v
  <2> QED BY <2>1, <2>2, <2>3, <2>4 DEF LabelShown, Latest
<1>2. CASE \A r \in Requests : Persist(r) => request[r].node # n
  <2>1. LabelShown(n) /\ inventory'[n] = inventory[n]
    BY <1>2, InventoryKept DEF Labelled
  <2>2. RowsOf(n)' = RowsOf(n) /\ \A i \in RowsOf(n) : evidence'[i] = evidence[i]
    BY <1>2, RowsKept
  <2> QED BY <2>1, <2>2 DEF LabelShown, Latest
<1> QED BY <1>1, <1>2
-----------------------------------------------------------------------------
(* One probe of a node at a time, or the history knows. *)

\* The history forgets nothing.
LEMMA MixedGrows == [Next]_vars => mixed \subseteq mixed'
BY DEF Next, vars, Move, Register, ProbeNode, Attach, ProbePrior,
       ProbeOccupied, ProbeRefused, ProbeRun, Persist, Abort

\* A probe that begins, or evidence that is attached, while another probe of the
\* node is under way, is known to the history.
LEMMA Joins ==
  ASSUME TypeOK, Formed, [Next]_vars,
         NEW p \in Requests, NEW n \in Nodes, Probes(p, n)', ~Probes(p, n)
  PROVE  /\ At(p, "idle")
         /\ \A r \in Requests \ {p} : request'[r] = request[r] /\ (Probes(r, n) => n \in mixed')
<1> DEFINE Goal == /\ At(p, "idle")
                   /\ \A r \in Requests \ {p} :
                        request'[r] = request[r] /\ (Probes(r, n) => n \in mixed')
<1>a. request'[p].pc \in Probing /\ request'[p].node = n /\ request'[p] # request[p]
  BY DEF Probes
<1>1. ASSUME NEW r \in Requests, NEW m \in Nodes, NEW mode \in Modes, ProbeNode(r, m, mode)
      PROVE  Goal
  <2>1. p = r /\ m = n /\ At(p, "idle") /\ \A q \in Requests \ {p} : request'[q] = request[q]
    BY <1>1, <1>a, ProbeNodeFacts DEF Begins
  <2>2. \A q \in Requests \ {p} : Probes(q, n) => q \in Overlaps(r, m)
    BY <2>1 DEF Probes, Overlaps, Probing, At
  <2> QED BY <1>1, <2>1, <2>2 DEF ProbeNode
<1>2. ASSUME NEW r \in Requests, NEW m \in Nodes, NEW a \in Attachments, Attach(r, m, a)
      PROVE  Goal
  <2>1. p = r /\ m = n /\ At(p, "idle") /\ \A q \in Requests \ {p} : request'[q] = request[q]
    BY <1>2, <1>a, AttachFacts DEF Begins
  <2> QED BY <1>2, <2>1 DEF Attach
<1>3. ASSUME NEW r \in Requests, Respond(r)
      PROVE  FALSE
  <2>1. p = r
    BY <1>3, <1>a, RespondFacts
  <2> QED BY <1>3, <1>a, <2>1, RespondFacts DEF Probing
<1>4. ASSUME NEW r \in Requests,
             ProbePrior(r) \/ ProbeOccupied(r)
                           \/ (\E key \in Keys, host \in Hosts : ProbeRun(r, host, key))
      PROVE  FALSE
  <2>1. p = r /\ request[r].node = n
    BY <1>4, <1>a, ProbePriorFacts, ProbeOccupiedFacts, ProbeRunFacts DEF Continues
  <2> QED BY <1>4, <2>1 DEF ProbePrior, ProbeOccupied, ProbeRun, At, Probes, Probing
<1>5. CASE UNCHANGED request
  BY <1>a, <1>5
<1> QED BY <1>1, <1>2, <1>3, <1>4, <1>5 DEF Next, vars, Move, Register,
       ProbeRefused, Persist, Abort

LEMMA AloneStep ==
  ASSUME TypeOK, Formed, Alone, [Next]_vars
  PROVE  Alone'
<1> SUFFICES ASSUME NEW p \in Requests, NEW r \in Requests, NEW n \in Nodes,
                    p # r, Probes(p, n)', Probes(r, n)'
             PROVE  n \in mixed'
  BY DEF Alone
<1>1. CASE Probes(p, n) /\ Probes(r, n)
  BY <1>1, MixedGrows DEF Alone
<1>2. CASE ~Probes(p, n)
  <2>1. request'[r] = request[r] /\ (Probes(r, n) => n \in mixed')
    BY <1>2, Joins
  <2> QED BY <2>1 DEF Probes
<1>3. CASE ~Probes(r, n)
  <2>1. request'[p] = request[p] /\ (Probes(p, n) => n \in mixed')
    BY <1>3, Joins
  <2> QED BY <2>1 DEF Probes
<1> QED BY <1>1, <1>2, <1>3
-----------------------------------------------------------------------------
(* The GPUs of a node. *)

\* A request has the list of its node as it was when it began.
LEMMA SeenKept ==
  ASSUME TypeOK, Formed, [Next]_vars, NEW p \in Requests, request'[p].pc # "idle"
  PROVE  \/ ~At(p, "idle") /\ Continues(p)
         \/ \E n \in Nodes : Begins(p, n)
<1>1. CASE request'[p] = request[p]
  BY <1>1 DEF At, Continues
<1>2. ASSUME NEW r \in Requests, Respond(r)
      PROVE  request'[p] = request[p]
  BY <1>2, RespondFacts
<1>3. ASSUME NEW r \in Requests, NEW n \in Nodes,
             (\E mode \in Modes : ProbeNode(r, n, mode))
             \/ (\E a \in Attachments : Attach(r, n, a))
      PROVE  request'[p] = request[p] \/ Begins(p, n)
  BY <1>3, ProbeNodeFacts, AttachFacts
<1>4. ASSUME NEW r \in Requests,
             ProbePrior(r) \/ ProbeOccupied(r)
                           \/ (\E key \in Keys, host \in Hosts : ProbeRun(r, host, key))
      PROVE  request'[p] = request[p] \/ (~At(p, "idle") /\ Continues(p))
  <2>1. ~At(r, "idle")
    BY <1>4 DEF ProbePrior, ProbeOccupied, ProbeRun, At
  <2> QED BY <1>4, <2>1, ProbePriorFacts, ProbeOccupiedFacts, ProbeRunFacts
<1>5. CASE UNCHANGED request
  BY <1>1, <1>5
<1> QED BY <1>1, <1>2, <1>3, <1>4, <1>5 DEF Next, vars, Move, Register,
       ProbeRefused, Persist, Abort

\* A commit that measured nothing leaves the list that the node had, for no other
\* probe of the node, and no client, has written since it was read.
LEMMA ListedPersist ==
  ASSUME TypeOK, Formed, Listed, NEW r \in Requests, Persist(r),
         NEW n \in Nodes \ (claimed' \cup mixed'), request[r].node = n
  PROVE  GpusShown(n)'
<1> DEFINE q == request[r]
           id == Len(evidence) + 1
<1>1. /\ inventory'[n] = Merged(q.seen, q.found, id) /\ id \in Nat
      /\ evidence'[id].uuids = q.found.uuids
      /\ mixed' = mixed
      /\ claimed' = IF Measures(q.found) THEN claimed \ {n} ELSE claimed
  BY PersistFacts DEF TypeOK
<1>2. inventory'[n].uuids = IF Measures(q.found) THEN q.found.uuids ELSE q.seen
  BY <1>1 DEF Merged
<1>3. /\ MeasuredOf(n)' = IF Measures(q.found) THEN MeasuredOf(n) \cup {id} ELSE MeasuredOf(n)
      /\ MeasuredOf(n) \subseteq 1..Len(evidence)
      /\ \A i \in MeasuredOf(n) : evidence'[i] = evidence[i]
  BY PersistRows
<1>4. CASE Measures(q.found)
  <2>1. \A i \in MeasuredOf(n)' : Latest(i, MeasuredOf(n)') => i = id
    <3>1. id \in MeasuredOf(n)' /\ \A i \in MeasuredOf(n) : i \in Nat /\ i < id
      BY <1>1, <1>3, <1>4
    <3> HIDE DEF id
    <3> QED BY <1>1, <1>3, <1>4, <3>1 DEF Latest
  <2> HIDE DEF q, id
  <2> QED BY <1>1, <1>2, <1>3, <1>4, <2>1 DEF GpusShown, Latest
<1>5. CASE ~Measures(q.found)
  <2>1. n \in Nodes \ (claimed \cup mixed)
    BY <1>1, <1>5
  <2>2. Probes(r, n)
    BY DEF Persist, Probes, Probing, At
  <2>3. GpusShown(n) /\ q.seen = inventory[n].uuids
    BY <2>1, <2>2 DEF Listed
  <2> HIDE DEF q
  <2> QED BY <1>2, <1>3, <1>5, <2>3 DEF GpusShown, Latest
<1> QED BY <1>4, <1>5

LEMMA ListedStep ==
  ASSUME TypeOK, Formed, Alone, Listed, [Next]_vars
  PROVE  Listed'
<1>1. ASSUME NEW n \in Nodes \ (claimed' \cup mixed')
      PROVE  GpusShown(n)'
  <2>1. CASE \E r \in Requests : Persist(r) /\ request[r].node = n
    BY <1>1, <2>1, ListedPersist
  <2>2. CASE \A r \in Requests : Persist(r) => request[r].node # n
    <3>1. GpusShown(n) /\ inventory'[n] = inventory[n]
      BY <1>1, <2>2, InventoryKept, MixedGrows DEF Listed
    <3>2. MeasuredOf(n)' = MeasuredOf(n) /\ \A i \in MeasuredOf(n) : evidence'[i] = evidence[i]
      BY <2>2, RowsKept
    <3> QED BY <3>1, <3>2 DEF GpusShown, Latest
  <2> QED BY <2>1, <2>2
<1>2. ASSUME NEW p \in Requests, NEW n \in Nodes \ (claimed' \cup mixed'), Probes(p, n)'
      PROVE  request'[p].seen = inventory'[n].uuids
  <2>1. request'[p].pc # "idle" /\ request'[p].node = n
    BY <1>2 DEF Probes, Probing
  <2>2. n \notin mixed
    BY <1>2, MixedGrows
  <2>3. ASSUME NEW r \in Requests, Persist(r)
        PROVE  request[r].node # n
    <3>1. p # r /\ request'[p] = request[p]
      BY <2>1, <2>3, PersistFacts, RespondFacts
    <3>2. Probes(p, n) /\ Probes(r, request[r].node)
      BY <1>2, <2>3, <3>1 DEF Probes, Persist, At, Probing
    <3> QED BY <2>2, <3>1, <3>2 DEF Alone
  <2>4. n \notin claimed /\ inventory'[n] = inventory[n]
    BY <1>2, <2>3, InventoryKept
  <2>5. CASE \E m \in Nodes : Begins(p, m)
    BY <2>1, <2>4, <2>5 DEF Begins
  <2>6. CASE ~At(p, "idle") /\ Continues(p)
    <3>1. Probes(p, n)
      BY <2>1, <2>6, RequestFields DEF Continues, Probes, At
    <3> QED BY <2>2, <2>4, <2>6, <3>1 DEF Listed, Continues
  <2> QED BY <2>1, <2>5, <2>6, SeenKept
<1> QED BY <1>1, <1>2 DEF Listed
-----------------------------------------------------------------------------
(* The same GPUs every time. *)

\* Steady, of the rows of a node and of a request.
SteadyRows(n) ==
    \A i \in PassedOf(n) : evidence[i].uuids # {} /\ Agrees(n, evidence[i].uuids)
SteadyRequest(r) ==
    request[r].node \in Nodes \ mixed =>
        /\ request[r].pc \in {"occupied", "run"} =>
              PassedOf(request[r].node) = {} \/ Agrees(request[r].node, request[r].prior)
        /\ At(r, "commit") /\ request[r].found.status = "passed" =>
              /\ request[r].found.uuids # {}
              /\ Agrees(request[r].node, request[r].found.uuids)

LEMMA SteadyParts ==
  Steady <=> /\ \A n \in Nodes \ mixed : SteadyRows(n)
             /\ \A r \in Requests : SteadyRequest(r)
BY DEF Steady, SteadyRows, SteadyRequest

\* Reads, and probes: what is compared, and what passes, agrees with the rows.
LEMMA SteadyRead ==
  ASSUME TypeOK, Formed, Steady, [Next]_vars, UNCHANGED evidence
  PROVE  Steady'
<1>1. /\ \A n : PassedOf(n)' = PassedOf(n)
      /\ \A n, S : Agrees(n, S)' <=> Agrees(n, S)
  BY DEF PassedOf, Agrees
<1>2. \A n \in Nodes \ mixed' : SteadyRows(n)'
  BY <1>1, MixedGrows, SteadyParts DEF SteadyRows
<1>3. ASSUME NEW p \in Requests
      PROVE  SteadyRequest(p)'
  <2>1. CASE request'[p] = request[p]
    BY <1>1, <2>1, MixedGrows, SteadyParts DEF SteadyRequest, At
  <2>2. ASSUME NEW n \in Nodes, NEW mode \in Modes, ProbeNode(p, n, mode)
        PROVE  SteadyRequest(p)'
    BY <2>2, ProbeNodeFacts DEF SteadyRequest, At
  <2>3. ASSUME NEW n \in Nodes, NEW a \in Attachments, Attach(p, n, a)
        PROVE  SteadyRequest(p)'
    <3>1. request'[p].node \in mixed'
      BY <2>3, AttachFacts DEF Attach, Begins
    <3> QED BY <3>1 DEF SteadyRequest
  <2>4. CASE ProbePrior(p)
    <3> SUFFICES ASSUME request[p].node \in Nodes \ mixed
                 PROVE  \/ PassedOf(request[p].node) = {}
                        \/ Agrees(request[p].node, request'[p].prior)
      BY <1>1, <2>4, MixedGrows, ProbePriorFacts DEF SteadyRequest, At, Continues
    <3> QED BY <2>4, ProbePriorFacts, PriorIsPassed, SteadyParts DEF SteadyRows
  <2>5. CASE ProbeOccupied(p)
    BY <1>1, <2>5, MixedGrows, ProbeOccupiedFacts, SteadyParts
       DEF SteadyRequest, ProbeOccupied, At, Continues
  <2>6. ASSUME NEW host \in Hosts, NEW key \in Keys, ProbeRun(p, host, key)
        PROVE  SteadyRequest(p)'
    <3> DEFINE n == request[p].node
               f == request'[p].found
    <3> SUFFICES ASSUME n \in Nodes \ mixed, f.status = "passed"
                 PROVE  f.uuids # {} /\ Agrees(n, f.uuids)
      BY <1>1, <2>6, MixedGrows, ProbeRunFacts DEF SteadyRequest, At, Continues
    <3>1. f.uuids # {} /\ (request[p].prior = {} \/ request[p].prior = f.uuids)
      BY <2>6, ProbeRunFacts
    <3>2. PassedOf(n) = {} \/ Agrees(n, request[p].prior)
      BY <2>6, SteadyParts DEF SteadyRequest, ProbeRun, At
    <3>3. \A i \in PassedOf(n) : evidence[i].uuids # {}
      BY SteadyParts DEF SteadyRows
    <3> QED BY <3>1, <3>2, <3>3 DEF Agrees
  <2>7. CASE Respond(p)
    <3>1. request'[p].node \notin Nodes
      BY <2>7, RespondFacts, ProbeAssumption
    <3> QED BY <3>1 DEF SteadyRequest
  <2>8. ASSUME NEW r \in Requests \ {p},
               \/ Respond(r)
               \/ \E n \in Nodes : \/ \E mode \in Modes : ProbeNode(r, n, mode)
                                   \/ \E a \in Attachments : Attach(r, n, a)
               \/ ProbePrior(r) \/ ProbeOccupied(r)
               \/ \E host \in Hosts, key \in Keys : ProbeRun(r, host, key)
        PROVE  request'[p] = request[p]
    BY <2>8, RespondFacts, ProbeNodeFacts, AttachFacts, ProbePriorFacts,
       ProbeOccupiedFacts, ProbeRunFacts
  <2> QED BY <2>1, <2>2, <2>3, <2>4, <2>5, <2>6, <2>7, <2>8 DEF Next, vars, Move, Register,
         ProbeRefused, Persist, Abort
<1> QED BY <1>2, <1>3 DEF Steady, SteadyRows, SteadyRequest

\* A commit: the new row agrees with those before it, and no other probe of the
\* node is under way whose comparison would be out of date.
LEMMA SteadyPersist ==
  ASSUME TypeOK, Formed, Alone, Steady, NEW r \in Requests, Persist(r)
  PROVE  Steady'
<1> DEFINE q == request[r]
           id == Len(evidence) + 1
<1>1. /\ q.node \in Nodes /\ mixed' = mixed /\ id \notin DOMAIN evidence
      /\ evidence'[id].uuids = q.found.uuids
      /\ \A i \in DOMAIN evidence : evidence'[i] = evidence[i]
      /\ request'[r].node \notin Nodes
      /\ \A p \in Requests \ {r} : request'[p] = request[p]
  BY PersistFacts, RespondFacts, ProbeAssumption
<1>2. At(r, "commit")
  BY DEF Persist
<1>3. ASSUME NEW n \in Nodes, n = q.node => q.found.status # "passed"
      PROVE  /\ PassedOf(n)' = PassedOf(n)
             /\ \A S : Agrees(n, S)' <=> Agrees(n, S)
             /\ SteadyRows(n)' <=> SteadyRows(n)
  <2>1. PassedOf(n)' = PassedOf(n)
    BY <1>3, PersistPassed
  <2>2. \A i \in PassedOf(n) : evidence'[i] = evidence[i]
    BY <1>1 DEF PassedOf
  <2>3. \A S : Agrees(n, S)' <=> Agrees(n, S)
    BY <2>1, <2>2 DEF Agrees
  <2> QED BY <2>1, <2>2, <2>3 DEF SteadyRows, Agrees
<1>4. ASSUME NEW n \in Nodes \ mixed, n = q.node, q.found.status = "passed"
      PROVE  SteadyRows(n)'
  <2>1. q.found.uuids # {} /\ Agrees(n, q.found.uuids)
    BY <1>2, <1>4, SteadyParts DEF SteadyRequest
  <2>2. PassedOf(n)' = PassedOf(n) \cup {id}
    BY <1>4, PersistPassed
  <2>3. \A i \in PassedOf(n)' : evidence'[i].uuids = q.found.uuids
    <3>1. \A i \in PassedOf(n) : evidence'[i].uuids = q.found.uuids
      BY <1>1, <2>1 DEF Agrees, PassedOf
    <3> QED BY <1>1, <2>2, <3>1
  <2> HIDE DEF q, id
  <2> QED BY <2>1, <2>3 DEF SteadyRows, Agrees
<1>5. \A n \in Nodes \ mixed' : SteadyRows(n)'
  BY <1>1, <1>3, <1>4, SteadyParts
<1>6. ASSUME NEW p \in Requests
      PROVE  SteadyRequest(p)'
  <2>1. CASE p = r
    BY <1>1, <2>1 DEF SteadyRequest
  <2>2. CASE p # r /\ request[p].node \in Nodes \ mixed
    <3>1. request'[p] = request[p]
      BY <1>1, <2>2
    <3>2. ASSUME request[p].pc \in {"occupied", "run", "commit"}
          PROVE  request[p].node # q.node
      BY <1>2, <2>2, <3>2 DEF Alone, Probes, Probing, At
    <3> QED BY <1>1, <1>3, <2>2, <3>1, <3>2, SteadyParts DEF SteadyRequest, At
  <2>3. CASE p # r /\ request[p].node \notin Nodes \ mixed
    BY <1>1, <2>3 DEF SteadyRequest
  <2> QED BY <2>1, <2>2, <2>3
<1> QED BY <1>5, <1>6 DEF Steady, SteadyRows, SteadyRequest

LEMMA SteadyStep ==
  ASSUME TypeOK, Formed, Alone, Steady, [Next]_vars
  PROVE  Steady'
<1>1. CASE \E r \in Requests : Persist(r)
  BY <1>1, SteadyPersist
<1>2. CASE UNCHANGED evidence
  BY <1>2, SteadyRead
<1> QED BY <1>1, <1>2 DEF Next, vars, Move, Register, ProbeNode, Attach,
       ProbePrior, ProbeOccupied, ProbeRefused, ProbeRun, Abort
-----------------------------------------------------------------------------
(* A GPU has one home. *)

\* Apart, in its three parts.
Lone(p, r) ==
    p # r /\ request[p].pc \in {"run", "commit"} /\ request[r].pc \in {"run", "commit"}
    => request[p].node \in mixed \/ request[r].node \in mixed
Clear(r, m) ==
    request[r].node \in Nodes \ (mixed \cup {m}) =>
        /\ At(r, "run") => Holds(m) \subseteq request[r].occupied
        /\ At(r, "commit") /\ request[r].found.status = "passed" =>
              Holds(m) \cap request[r].found.uuids = {}
Disjoint(m, n) == m # n => Holds(m) \cap Holds(n) = {}

LEMMA ApartParts ==
  Apart <=> /\ \A p, r \in Requests : Lone(p, r)
            /\ \A r \in Requests, m \in Nodes \ mixed : Clear(r, m)
            /\ \A m, n \in Nodes \ mixed : Disjoint(m, n)
BY DEF Apart, Lone, Clear, Disjoint

\* Without a commit no node that the history does not know holds more.
LEMMA HoldsLess ==
  ASSUME TypeOK, Formed, [Next]_vars, UNCHANGED evidence, NEW m \in Nodes \ mixed'
  PROVE  Holds(m)' \subseteq Holds(m)
<1>1. ASSUME NEW n \in Nodes, NEW v \in Claims, Register(n, v)
      PROVE  Holds(m)' \subseteq Holds(m)
  <2>1. m = n \/ inventory'[m] = inventory[m]
    BY <1>1 DEF Register, TypeOK
  <2> QED BY <1>1, <2>1 DEF Holds, Register
<1>3. ASSUME NEW r \in Requests, Persist(r)
      PROVE  FALSE
  BY <1>3, PersistFacts
<1>4. CASE UNCHANGED <<inventory, claimed>>
  BY <1>4 DEF Holds
<1> QED BY <1>1, <1>3, <1>4 DEF Next, vars, Move, Register, ProbeNode, Attach,
       ProbePrior, ProbeOccupied, ProbeRefused, ProbeRun, Abort

\* What a request about a node that the history does not know may have become.
LEMMA ApartRead ==
  ASSUME TypeOK, Formed, Apart, [Next]_vars, UNCHANGED evidence
  PROVE  Apart'
<1>1. \A m \in Nodes \ mixed' : Holds(m)' \subseteq Holds(m)
  BY HoldsLess
<1>2. ASSUME NEW p \in Requests, request'[p] # request[p]
      PROVE  /\ \A r \in Requests : Lone(p, r)' /\ Lone(r, p)'
             /\ \A m \in Nodes \ mixed' : Clear(p, m)'
  <2> DEFINE Goal == /\ \A r \in Requests : Lone(p, r)' /\ Lone(r, p)'
                     /\ \A m \in Nodes \ mixed' : Clear(p, m)'
  <2>1. CASE request'[p].pc \notin {"run", "commit"}
    BY <2>1 DEF Lone, Clear, At
  <2>2. ASSUME NEW n \in Nodes, NEW a \in Attachments, Attach(p, n, a)
        PROVE  Goal
    <3>1. request'[p].node \in mixed'
      BY <2>2, AttachFacts DEF Attach, Begins
    <3> QED BY <3>1 DEF Lone, Clear
  <2>3. CASE ProbeOccupied(p)
    <3>1. /\ request'[p].node = request[p].node /\ request'[p].pc = "run"
          /\ request'[p].occupied = Occupied(request[p].node)
          /\ \A r \in Requests \ {p} : request'[r] = request[r]
      BY <2>3, ProbeOccupiedFacts DEF Continues
    <3>2. ASSUME NEW r \in Requests \ {p}, request[r].pc \in {"run", "commit"}
          PROVE  request[p].node \in mixed'
      BY <2>3, <3>2 DEF ProbeOccupied, Racing
    <3>3. \A m \in Nodes \ {request[p].node} : Holds(m) \subseteq Occupied(request[p].node)
      BY DEF Holds, Occupied
    <3>4. \A r \in Requests : Lone(p, r)' /\ Lone(r, p)'
      BY <3>1, <3>2 DEF Lone
    <3>5. \A m \in Nodes \ mixed' : Clear(p, m)'
      BY <1>1, <3>1, <3>3 DEF Clear, At
    <3> QED BY <3>4, <3>5
  <2>4. ASSUME NEW host \in Hosts, NEW key \in Keys, ProbeRun(p, host, key)
        PROVE  Goal
    <3>1. /\ request'[p].node = request[p].node /\ request'[p].pc = "commit"
          /\ request'[p].found.status = "passed" =>
               request'[p].found.uuids \cap request[p].occupied = {}
          /\ \A r \in Requests \ {p} : request'[r] = request[r]
          /\ request[p].pc = "run"
      BY <2>4, ProbeRunFacts DEF Continues, ProbeRun, At
    <3>2. \A r \in Requests : Lone(p, r)' /\ Lone(r, p)'
      BY <3>1, MixedGrows, ApartParts DEF Lone
    <3>3. \A m \in Nodes \ mixed' : Clear(p, m)'
      <4> SUFFICES ASSUME NEW m \in Nodes \ mixed',
                          request[p].node \in Nodes \ (mixed' \cup {m}),
                          request'[p].found.status = "passed"
                   PROVE  Holds(m)' \cap request'[p].found.uuids = {}
        BY <3>1 DEF Clear, At
      <4>1. Holds(m) \subseteq request[p].occupied
        BY <3>1, MixedGrows, ApartParts DEF Clear, At
      <4> QED BY <1>1, <3>1, <4>1
    <3> QED BY <3>2, <3>3
  <2>5. ASSUME NEW r \in Requests,
               \/ Respond(r)
               \/ \E n \in Nodes, mode \in Modes : ProbeNode(r, n, mode)
               \/ ProbePrior(r)
        PROVE  request'[p].pc \notin {"run", "commit"}
    BY <1>2, <2>5, RespondFacts, ProbeNodeFacts, ProbePriorFacts
  <2>6. ASSUME NEW r \in Requests \ {p},
               \/ \E n \in Nodes, a \in Attachments : Attach(r, n, a)
               \/ ProbeOccupied(r)
               \/ \E host \in Hosts, key \in Keys : ProbeRun(r, host, key)
        PROVE  FALSE
    BY <1>2, <2>6, AttachFacts, ProbeOccupiedFacts, ProbeRunFacts
  <2>7. CASE UNCHANGED request
    BY <1>2, <2>7
  <2> QED BY <2>1, <2>2, <2>3, <2>4, <2>5, <2>6, <2>7 DEF Next, vars, Move, Register,
         ProbeRefused, Persist, Abort
<1>3. ASSUME NEW p \in Requests, request'[p] = request[p]
      PROVE  /\ \A r \in Requests : request'[r] = request[r] => Lone(p, r)'
             /\ \A m \in Nodes \ mixed' : Clear(p, m)'
  <2>1. \A r \in Requests : request'[r] = request[r] => Lone(p, r)'
    BY <1>3, MixedGrows, ApartParts DEF Lone
  <2>2. \A m \in Nodes \ mixed' : Clear(p, m)'
    BY <1>1, <1>3, MixedGrows, ApartParts DEF Clear, At
  <2> QED BY <2>1, <2>2
<1>4. \A p, r \in Requests : Lone(p, r)'
  BY <1>2, <1>3
<1>5. \A r \in Requests, m \in Nodes \ mixed' : Clear(r, m)'
  BY <1>2, <1>3
<1>6. \A m, n \in Nodes \ mixed' : Disjoint(m, n)'
  BY <1>1, MixedGrows, ApartParts DEF Disjoint
<1> QED BY <1>4, <1>5, <1>6 DEF Apart, Lone, Clear, Disjoint

\* A commit: no other node took a GPU of the probe's finding since it looked,
\* and no other probe has looked since and still has to commit.
LEMMA ApartPersist ==
  ASSUME TypeOK, Formed, Apart, NEW r \in Requests, Persist(r)
  PROVE  Apart'
<1> DEFINE q == request[r]
           id == Len(evidence) + 1
<1>1. /\ q.node \in Nodes /\ mixed' = mixed
      /\ claimed' = IF Measures(q.found) THEN claimed \ {q.node} ELSE claimed
      /\ inventory' = [inventory EXCEPT ![q.node] = Merged(q.seen, q.found, id)]
      /\ request'[r].pc = "idle" /\ request'[r].node \notin Nodes
      /\ \A p \in Requests \ {r} : request'[p] = request[p]
  BY PersistFacts, RespondFacts, ProbeAssumption
<1>2. At(r, "commit")
  BY DEF Persist
<1>3. \A m \in Nodes \ {q.node} : Holds(m)' = Holds(m)
  BY <1>1 DEF Holds, TypeOK
<1>4. ASSUME NEW n \in Nodes, n = q.node
      PROVE  Holds(n)' = IF q.found.status = "passed" THEN q.found.uuids ELSE {}
  <2> DEFINE v == Merged(q.seen, q.found, id)
  <2>1. inventory'[n] = v
    BY <1>1, <1>4 DEF TypeOK
  <2>2. /\ v.label = LabelOf(q.found.status)
        /\ q.found.status = "passed" => v.uuids = q.found.uuids /\ n \notin claimed'
    BY <1>1, <1>4 DEF Merged, Measures
  <2>3. (v.label = "verified") <=> (q.found.status = "passed")
    BY <2>2 DEF LabelOf
  <2> HIDE DEF v, q
  <2> QED BY <2>1, <2>2, <2>3 DEF Holds
<1>5. \A p, s \in Requests : Lone(p, s)'
  BY <1>1, ApartParts DEF Lone
<1>6. ASSUME NEW p \in Requests, NEW m \in Nodes \ mixed
      PROVE  Clear(p, m)'
  <2>1. CASE p = r
    BY <1>1, <2>1 DEF Clear
  <2>2. CASE p # r /\ m # q.node
    BY <1>1, <1>3, <2>2, ApartParts DEF Clear, At
  <2>3. CASE p # r /\ m = q.node
    <3>1. request[p].pc \in {"run", "commit"} => request[p].node \in mixed
      BY <1>2, <2>3, ApartParts DEF Lone, At
    <3> QED BY <1>1, <2>3, <3>1 DEF Clear, At
  <2> QED BY <2>1, <2>2, <2>3
<1>7. ASSUME NEW m \in Nodes \ mixed, NEW n \in Nodes \ mixed, m # n, n = q.node
      PROVE  Holds(m)' \cap Holds(n)' = {}
  BY <1>1, <1>2, <1>3, <1>4, <1>7, ApartParts DEF Clear, At
<1>8. \A m, n \in Nodes \ mixed : Disjoint(m, n)'
  <2> SUFFICES ASSUME NEW m \in Nodes \ mixed, NEW n \in Nodes \ mixed, m # n
               PROVE  Holds(m)' \cap Holds(n)' = {}
    BY DEF Disjoint
  <2>1. CASE m # q.node /\ n # q.node
    BY <1>3, <2>1, ApartParts DEF Disjoint
  <2>2. CASE n = q.node
    BY <1>7, <2>2
  <2>3. CASE m = q.node
    BY <1>7, <2>3
  <2> QED BY <2>1, <2>2, <2>3
<1> QED BY <1>1, <1>5, <1>6, <1>8 DEF Apart, Lone, Clear, Disjoint

LEMMA ApartStep ==
  ASSUME TypeOK, Formed, Apart, [Next]_vars
  PROVE  Apart'
<1>1. CASE \E r \in Requests : Persist(r)
  BY <1>1, ApartPersist
<1>2. CASE UNCHANGED evidence
  BY <1>2, ApartRead
<1> QED BY <1>1, <1>2 DEF Next, vars, Move, Register, ProbeNode, Attach,
       ProbePrior, ProbeOccupied, ProbeRefused, ProbeRun, Abort
-----------------------------------------------------------------------------
(* The theorems. *)

LEMMA InvInit == Init => Inv
<1> SUFFICES ASSUME Init PROVE Inv
  OBVIOUS
<1>1. TypeOK /\ Formed
  BY TypeInit
<1>2. \A r \in Requests : request[r].pc = "idle"
  BY DEF Init, Idle
<1>3. \A n \in Nodes : inventory[n] = Blank /\ Blank.label = "none" /\ Blank.uuids = {}
  BY DEF Init, Blank
<1>4. \A n : PassedOf(n) = {} /\ RowsOf(n) = {} /\ MeasuredOf(n) = {}
  BY DEF Init, PassedOf, RowsOf, MeasuredOf
<1>5. Labelled /\ Listed
  <2>1. \A n \in Nodes : LabelShown(n) /\ GpusShown(n)
    BY <1>3, <1>4 DEF LabelShown, GpusShown
  <2> QED BY <1>2, <2>1 DEF Labelled, Listed, Probes, Probing
<1>6. Alone
  BY <1>2 DEF Alone, Probes, Probing
<1>7. Steady
  BY <1>2, <1>4 DEF Steady, At
<1>8. Apart
  BY <1>2, <1>3 DEF Apart, Holds, At
<1> QED BY <1>1, <1>5, <1>6, <1>7, <1>8 DEF Inv

\* The inductive invariant holds throughout, for any number of probes, attached
\* evidence and inventories of whatever content (run_node_gpu_probe, register_node).
THEOREM ProbeInvariant == Spec => []Inv
<1>1. Inv /\ [Next]_vars => Inv'
  BY TypeStep, LabelledStep, AloneStep, ListedStep, SteadyStep, ApartStep DEF Inv
<1> QED BY InvInit, <1>1, PTL DEF Spec

\* The rows are ones the tables can hold.
THEOREM TypeCorrect == Spec => []TypeOK
<1>1. Inv => TypeOK
  BY DEF Inv
<1> QED BY <1>1, ProbeInvariant, PTL

\* A node shows the label of its newest evidence, and the GPUs of the newest that
\* measured any, from then on until a client registers an inventory again, whatever
\* was claimed before (merge_probe_into_inventory, persist_evidence).
THEOREM NodesShowEvidence == Spec => []ShownAsFound
<1>1. Inv => ShownAsFound
  BY DEF Inv, Labelled, Listed, ShownAsFound
<1> QED BY <1>1, ProbeInvariant, PTL

\* No GPU is verified on two nodes whose inventories came from one probe at a
\* time, whatever clients register for other nodes (_occupied_uuids, check
\* gpu_uuid_unique).
THEOREM GpusHaveOneHome == Spec => []OneHome
<1>1. Inv => OneHome
  BY DEF Inv, Apart, Holds, OneHome
<1> QED BY <1>1, ProbeInvariant, PTL

\* Probes of a node, one at a time, pass with the same GPUs (_prior_verified_uuids,
\* check fingerprint_stable).
THEOREM SameGpusEveryTime == Spec => []FingerprintStable
<1>1. Inv => FingerprintStable
  BY DEF Inv, Steady, Agrees, FingerprintStable
<1> QED BY <1>1, ProbeInvariant, PTL

\* No probe holds up the service longer than the wall budget, though what its
\* commands took is counted twice (_remaining_wall).
THEOREM StallIsBounded == Spec => []BoundedStall
<1>1. Inv => BoundedStall
  BY DEF Inv, Formed, BoundedStall
<1> QED BY <1>1, ProbeInvariant, PTL
=============================================================================
